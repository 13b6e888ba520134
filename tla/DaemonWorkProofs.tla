-------------------------- MODULE DaemonWorkProofs --------------------------
(***************************************************************************)
(* The managed services and the lanes, and the daemon's work as a whole:   *)
(* it implements each of its parts, so what is proved of a part, here or   *)
(* in the modules it extends, holds of the daemon.                         *)
(***************************************************************************)
EXTENDS DaemonWork, GitDeployProofs, TemplateRunProofs, BranchesProofs

-----------------------------------------------------------------------------
(* Lanes: ports and types.                                                 *)

LEMMA PassStages ==
  /\ "idle" # "context" /\ "idle" # "next" /\ "idle" # "opening"
  /\ "context" # "next" /\ "context" # "opening" /\ "next" # "opening"
OBVIOUS

LEMMA SomeLaneService == (CHOOSE s \in LaneService : TRUE) \in LaneService
BY LaneAssumption

LEMMA RestingIsAPass ==
  Resting \in [at : {"idle", "context", "next", "opening"}, todo : [LaneService -> 0..MaxPort],
               svc : LaneService, port : 0..MaxPort, tries : 0..Attempts]
BY SomeLaneService, LaneAssumption DEF Resting

(* The lowest free port is a port, and nobody has it.                      *)
LEMMA LowestFree ==
  ASSUME FreePorts # {}
  PROVE  NextLanePort \in FreePorts
<1>1. FreePorts \subseteq Nat
  BY LaneAssumption DEF FreePorts, Port
<1>2. PICK p \in FreePorts : \A q \in FreePorts : <<q, p>> \notin OpToRel(<, Nat)
  BY <1>1, NatLessThanWellFounded, WFMin
<1>3. \A q \in FreePorts : ~(q < p)
  BY <1>1, <1>2 DEF OpToRel
<1>4. \A q \in FreePorts : p <= q
  BY <1>1, <1>3
<1> QED
  BY <1>4 DEF NextLanePort

LEMMA FreeIsNew ==
  ASSUME LnTypeOK, FreePorts # {}
  PROVE  /\ NextLanePort \in Port /\ NextLanePort \in 0..MaxPort /\ NextLanePort # 0
         /\ \A s \in LaneService : lanePort[s] # NextLanePort /\ resv[s] # NextLanePort
BY LowestFree, LaneAssumption DEF FreePorts, TakenPorts, Port

LEMMA LnTypeInit == LnInit => LnTypeOK
<1> SUFFICES ASSUME LnInit PROVE LnTypeOK
  OBVIOUS
<1>1. 0 \in 0..MaxPort /\ 1 \in 0..MaxQueue
  BY LaneAssumption
<1>2. /\ lanePort \in [LaneService -> 0..MaxPort] /\ resv \in [LaneService -> 0..MaxPort]
      /\ lanes \in [LaneService -> 0..MaxPort]
      /\ carry \in [LaneService -> {"none", "bare", "carried"}]
  BY <1>1 DEF LnInit
<1>3. pass \in [Slot -> [at : {"idle", "context", "next", "opening"}, todo : [LaneService -> 0..MaxPort],
                        svc : LaneService, port : 0..MaxPort, tries : 0..Attempts]]
  BY RestingIsAPass DEF LnInit
<1>4. foreign \subseteq Port /\ listening \subseteq LaneService \X Port
  BY DEF LnInit
<1> QED
  BY <1>1, <1>2, <1>3, <1>4 DEF LnInit, LnTypeOK

LEMMA LnTypeDisturbs ==
  ASSUME LnTypeOK, Disturbs
  PROVE  LnTypeOK'
<1> USE DEF LnTypeOK, Invalidate, netVars, carryVars
<1>1. ASSUME NEW s \in LaneService, LaneBranchCreated(s) PROVE LnTypeOK'
  BY <1>1, LaneAssumption DEF LaneBranchCreated
<1>2. ASSUME NEW s \in LaneService, AddLaneService(s) PROVE LnTypeOK'
  BY <1>2, LaneAssumption DEF AddLaneService
<1>3. ASSUME NEW s \in LaneService, LaneFor(s) PROVE LnTypeOK'
  BY <1>3, FreeIsNew, LaneAssumption DEF LaneFor
<1>4. ASSUME NEW s \in LaneService, AllocLanes(s) PROVE LnTypeOK'
  BY <1>4, FreeIsNew, LaneAssumption DEF AllocLanes
<1>5. ASSUME NEW s \in LaneService, LaneRowCommitted(s) PROVE LnTypeOK'
  BY <1>5, LaneAssumption DEF LaneRowCommitted
<1>6. ASSUME NEW s \in LaneService, ReleaseLanes(s) PROVE LnTypeOK'
  BY <1>6, LaneAssumption DEF ReleaseLanes
<1>7. ASSUME NEW s \in LaneService, RemoveLaneService(s) PROVE LnTypeOK'
  BY <1>7, LaneAssumption DEF RemoveLaneService
<1>8. ASSUME NEW s \in LaneService, LaneBranchDeleted(s) PROVE LnTypeOK'
  BY <1>8, LaneAssumption DEF LaneBranchDeleted
<1>9. ASSUME NEW s \in LaneService, NEW t \in LaneService, RenameManaged(s, t) PROVE LnTypeOK'
  BY <1>9, LaneAssumption DEF RenameManaged
<1>10. ASSUME NEW p \in Port, ForeignTakes(p) PROVE LnTypeOK'
  BY <1>10, LaneAssumption DEF ForeignTakes
<1> QED
  BY <1>1, <1>2, <1>3, <1>4, <1>5, <1>6, <1>7, <1>8, <1>9, <1>10 DEF Disturbs

LEMMA ListensOk ==
  ASSUME LnTypeOK, NEW s \in LaneService, NEW p \in Port
  PROVE  Listens(s, p) \subseteq LaneService \X Port /\ listening \subseteq Listens(s, p)
BY DEF Listens, LnTypeOK

LEMMA LnTypePass ==
  ASSUME LnTypeOK, NEW k \in Slot, PassStep(k) \/ LaneThrows(k)
  PROVE  LnTypeOK'
<1> DEFINE T == [at : {"idle", "context", "next", "opening"}, todo : [LaneService -> 0..MaxPort],
                 svc : LaneService, port : 0..MaxPort, tries : 0..Attempts]
<1>a. /\ pass \in [Slot -> T] /\ pass[k] \in T /\ Resting \in T
      /\ pass[k].svc \in LaneService /\ pass[k].tries \in 0..Attempts
  BY RestingIsAPass DEF LnTypeOK
<1> USE DEF LnTypeOK, netVars, carryVars
<1>1. CASE PassBegins(k)
  <2>1. [Resting EXCEPT !.at = "context"] \in T
    BY <1>a
  <2> QED
    BY <1>1, <1>a, <2>1, LaneAssumption DEF PassBegins
<1>2. CASE Reconcile(k)
  <2> DEFINE w == [s \in LaneService |-> WantedPort(s)]
  <2>1. w \in [LaneService -> 0..MaxPort]
    BY LaneAssumption DEF WantedPort
  <2>2. [pass[k] EXCEPT !.at = "next", !.todo = w] \in T
    BY <1>a, <2>1
  <2>3. pass' \in [Slot -> T]
    BY <1>2, <1>a, <2>2 DEF Reconcile
  <2>4. lanes' \in [LaneService -> 0..MaxPort] /\ listening' \subseteq LaneService \X Port
    BY <1>2, LaneAssumption DEF Reconcile
  <2> QED
    BY <1>2, <2>3, <2>4 DEF Reconcile
<1>3. ASSUME NEW s \in LaneService, OpenPerService(k, s) PROVE LnTypeOK'
  <2>1. pass[k].todo[s] \in Port /\ 1 \in 0..Attempts
    BY <1>3, <1>a, LaneAssumption DEF OpenPerService, Port
  <2>2. [pass[k] EXCEPT !.at = "opening", !.svc = s, !.port = pass[k].todo[s],
                        !.tries = 1, !.todo[s] = 0] \in T
    <3>1. pass[k].todo[s] \in 0..MaxPort /\ 0 \in 0..MaxPort
      BY <1>a, <2>1, LaneAssumption DEF Port
    <3>2. [pass[k].todo EXCEPT ![s] = 0] \in [LaneService -> 0..MaxPort]
      BY <1>a, <3>1
    <3> QED
      BY <1>a, <2>1, <3>1, <3>2
  <2>3. pass' \in [Slot -> T]
    BY <1>3, <1>a, <2>2 DEF OpenPerService
  <2>4. listening' \subseteq LaneService \X Port
    BY <1>3, <2>1, ListensOk DEF OpenPerService
  <2> QED
    BY <1>3, <2>3, <2>4 DEF OpenPerService
<1>4. CASE LaneOpened(k)
  <2>1. [pass[k] EXCEPT !.at = "next"] \in T
    BY <1>a
  <2>2. pass[k].port \in 0..MaxPort
    BY <1>a
  <2> QED
    BY <1>4, <1>a, <2>1, <2>2 DEF LaneOpened
<1>5. CASE ReallocLane(k)
  <2>1. CASE FreePorts = {}
    BY <1>5, <1>a, <2>1 DEF ReallocLane, PassFails
  <2>2. CASE FreePorts # {}
    <3>1. NextLanePort \in Port /\ NextLanePort \in 0..MaxPort
      BY <2>2, FreeIsNew
    <3>2. lanePort' \in [LaneService -> 0..MaxPort] /\ resv' \in [LaneService -> 0..MaxPort]
      BY <1>5, <1>a, <2>2, <3>1, LaneAssumption DEF ReallocLane
    <3>3. CASE pass[k].tries = Attempts
      <4>1. pass' = [pass EXCEPT ![k] = Resting] /\ ended' = "exhausted" /\ UNCHANGED listening
        BY <1>5, <2>2, <3>3 DEF ReallocLane, PassFails
      <4>2. pass' \in [Slot -> T]
        BY <1>a, <4>1
      <4> QED
        BY <1>5, <3>2, <4>1, <4>2 DEF ReallocLane
    <3>4. CASE pass[k].tries # Attempts
      <4>1. pass[k].tries + 1 \in 0..Attempts
        <5> DEFINE n == pass[k].tries
        <5>1. n \in 0..Attempts /\ n # Attempts
          BY <1>a, <3>4
        <5> HIDE DEF n
        <5>2. n + 1 \in 0..Attempts
          BY <5>1, LaneAssumption
        <5> QED
          BY <5>2 DEF n
      <4>2. [pass[k] EXCEPT !.port = NextLanePort, !.tries = @ + 1] \in T
        BY <1>a, <3>1, <4>1
      <4>3. pass' \in [Slot -> T]
        BY <1>5, <1>a, <2>2, <3>4, <4>2 DEF ReallocLane
      <4>4. listening' \subseteq LaneService \X Port
        BY <1>5, <1>a, <2>2, <3>1, <3>4, ListensOk DEF ReallocLane
      <4> QED
        BY <1>5, <2>2, <3>2, <3>4, <4>3, <4>4 DEF ReallocLane
    <3> QED
      BY <3>3, <3>4
  <2> QED
    BY <2>1, <2>2
<1>6. CASE LaneThrows(k)
  BY <1>6, <1>a DEF LaneThrows, PassFails
<1>7. CASE PassEnds(k)
  BY <1>7, <1>a DEF PassEnds
<1> QED
  BY <1>1, <1>2, <1>3, <1>4, <1>5, <1>6, <1>7 DEF PassStep

LEMMA LnTypeStops ==
  ASSUME LnTypeOK, RouterStops
  PROVE  LnTypeOK'
BY LaneAssumption DEF LnTypeOK, RouterStops, carryVars

LEMMA LnTypeStep == LnTypeOK /\ [LnNext]_lnVars => LnTypeOK'
<1>1. LnTypeOK /\ UNCHANGED lnVars => LnTypeOK'
  BY DEF LnTypeOK, lnVars
<1> QED
  BY <1>1, LnTypeDisturbs, LnTypePass, LnTypeStops DEF LnNext

(* The state of the router's lanes keeps its type.                         *)
THEOREM LnTypesHold == LnSpec => []LnTypeOK
BY LnTypeInit, LnTypeStep, PTL DEF LnSpec
-----------------------------------------------------------------------------
(* Lanes: ports and listeners.  What listens is in the table unless it is  *)
(* being opened, so it matters that one pass runs at a time and that a     *)
(* lane under opening is not in the table.                                 *)

OnePass == \A j, k \in Slot : j # k => pass[j].at = "idle" \/ pass[k].at = "idle"

OpensWhatIsClosed == \A k \in Slot : pass[k].at = "opening" => lanes[pass[k].svc] = 0

LnIInv == LnTypeOK /\ OnePortEach /\ NoListenerLeaks /\ OnePass /\ OpensWhatIsClosed

LEMMA LnInvInit == LnInit => LnIInv
<1> SUFFICES ASSUME LnInit PROVE LnIInv
  OBVIOUS
<1>1. LnTypeOK
  BY LnTypeInit
<1>2. OnePortEach /\ NoListenerLeaks
  BY DEF LnInit, OnePortEach, NoListenerLeaks
<1>3. \A k \in Slot : pass[k].at = "idle"
  BY DEF LnInit, Resting
<1>4. OnePass /\ OpensWhatIsClosed
  BY <1>3 DEF OnePass, OpensWhatIsClosed
<1> QED
  BY <1>1, <1>2, <1>4 DEF LnIInv

(* The rows and the allocators do not touch passes or sockets.             *)
LEMMA DisturbsKeepPorts ==
  ASSUME LnIInv, Disturbs
  PROVE  OnePortEach'
<1> USE DEF LnIInv, OnePortEach, LnTypeOK
<1>1. ASSUME NEW s \in LaneService, LaneFor(s) PROVE OnePortEach'
  <2>1. lanePort' = [lanePort EXCEPT ![s] = NextLanePort] /\ resv' = resv
    BY <1>1 DEF LaneFor
  <2>2. NextLanePort # 0 /\ \A t \in LaneService : lanePort[t] # NextLanePort /\ resv[t] # NextLanePort
    BY <1>1, FreeIsNew DEF LaneFor
  <2> QED
    BY <2>1, <2>2
<1>2. ASSUME NEW s \in LaneService, AllocLanes(s) PROVE OnePortEach'
  <2>1. resv' = [resv EXCEPT ![s] = NextLanePort] /\ lanePort' = lanePort
    BY <1>2 DEF AllocLanes
  <2>2. NextLanePort # 0 /\ \A t \in LaneService : lanePort[t] # NextLanePort /\ resv[t] # NextLanePort
    BY <1>2, FreeIsNew DEF AllocLanes
  <2> QED
    BY <2>1, <2>2
<1>3. ASSUME NEW s \in LaneService, LaneRowCommitted(s) PROVE OnePortEach'
  BY <1>3 DEF LaneRowCommitted
<1>4. ASSUME NEW s \in LaneService, ReleaseLanes(s) PROVE OnePortEach'
  BY <1>4 DEF ReleaseLanes
<1>5. ASSUME NEW s \in LaneService, LaneBranchDeleted(s) PROVE OnePortEach'
  BY <1>5 DEF LaneBranchDeleted
<1>6. CASE UNCHANGED <<lanePort, resv>>
  BY <1>6
<1>7. ASSUME NEW s \in LaneService,
             \/ LaneBranchCreated(s) \/ AddLaneService(s) \/ RemoveLaneService(s)
             \/ \E t \in LaneService : RenameManaged(s, t)
             \/ \E p \in Port : ForeignTakes(p)
      PROVE UNCHANGED <<lanePort, resv>>
  BY <1>7 DEF LaneBranchCreated, AddLaneService, RemoveLaneService, RenameManaged, ForeignTakes, carryVars
<1> QED
  BY <1>1, <1>2, <1>3, <1>4, <1>5, <1>6, <1>7 DEF Disturbs

LEMMA DisturbsLeaveSockets == Disturbs => UNCHANGED <<pass, lanes, listening>>
BY DEF Disturbs, LaneBranchCreated, AddLaneService, LaneFor, AllocLanes, LaneRowCommitted, ReleaseLanes,
       RemoveLaneService, LaneBranchDeleted, RenameManaged, ForeignTakes, netVars

LEMMA LnInvDisturbs ==
  ASSUME LnIInv, Disturbs
  PROVE  LnIInv'
<1>1. LnTypeOK'
  BY LnTypeDisturbs DEF LnIInv
<1>2. NoListenerLeaks' /\ OnePass' /\ OpensWhatIsClosed'
  BY DisturbsLeaveSockets DEF LnIInv, NoListenerLeaks, OnePass, OpensWhatIsClosed, Opening
<1> QED
  BY <1>1, <1>2, DisturbsKeepPorts DEF LnIInv

(* A pass that moves a lane takes a port that nobody has.                  *)
LEMMA PassKeepsPorts ==
  ASSUME LnIInv, NEW k \in Slot, PassStep(k) \/ LaneThrows(k)
  PROVE  OnePortEach'
<1>1. CASE UNCHANGED <<lanePort, resv>>
  BY <1>1 DEF LnIInv, OnePortEach
<1>2. ASSUME ReallocLane(k), ~UNCHANGED <<lanePort, resv>> PROVE OnePortEach'
  <2> DEFINE s == pass[k].svc
             q == pass[k].port
  <2>1. /\ FreePorts # {}
        /\ lanePort' = [lanePort EXCEPT ![s] = NextLanePort]
        /\ resv' = [t \in LaneService |-> IF resv[t] = q THEN 0 ELSE resv[t]]
    BY <1>2 DEF ReallocLane
  <2>2. s \in LaneService
    BY DEF LnIInv, LnTypeOK
  <2>3. NextLanePort # 0 /\ \A t \in LaneService : lanePort[t] # NextLanePort /\ resv[t] # NextLanePort
    BY <2>1, FreeIsNew DEF LnIInv
  <2> HIDE DEF s, q
  <2> QED
    BY <2>1, <2>2, <2>3 DEF LnIInv, OnePortEach, LnTypeOK
<1>3. (PassStep(k) /\ ~ReallocLane(k)) \/ LaneThrows(k) => UNCHANGED <<lanePort, resv>>
  BY DEF PassStep, PassBegins, Reconcile, OpenPerService, LaneOpened, PassEnds, LaneThrows, carryVars
<1> QED
  BY <1>1, <1>2, <1>3

(* While pass k is under way every other one is idle, so what is not in    *)
(* the table is what k opens.                                              *)
LEMMA OthersIdle ==
  ASSUME LnIInv, NEW k \in Slot, pass[k].at # "idle"
  PROVE  /\ \A j \in Slot \ {k} : pass[j].at = "idle"
         /\ \A l \in listening :
              lanes[l[1]] = l[2] \/ (pass[k].at = "opening" /\ l[1] = pass[k].svc /\ l[2] = pass[k].port)
<1>1. \A j \in Slot \ {k} : pass[j].at = "idle"
  BY DEF LnIInv, OnePass
<1>2. ASSUME NEW l \in listening, lanes[l[1]] # l[2]
      PROVE  pass[k].at = "opening" /\ l[1] = pass[k].svc /\ l[2] = pass[k].port
  <2>1. PICK j \in Slot : pass[j].at = "opening" /\ pass[j].svc = l[1] /\ pass[j].port = l[2]
    BY <1>2 DEF LnIInv, NoListenerLeaks, Opening
  <2>2. j = k
    BY <1>1, <2>1
  <2> QED
    BY <2>1, <2>2
<1>3. \A l \in listening :
        lanes[l[1]] = l[2] \/ (pass[k].at = "opening" /\ l[1] = pass[k].svc /\ l[2] = pass[k].port)
  <2> SUFFICES ASSUME NEW l \in listening
               PROVE  lanes[l[1]] = l[2] \/ (pass[k].at = "opening" /\ l[1] = pass[k].svc /\ l[2] = pass[k].port)
    OBVIOUS
  <2> QED
    BY <1>2
<1> QED
  BY <1>1, <1>3

LEMMA PassKeepsSockets ==
  ASSUME LnIInv, NEW k \in Slot, PassStep(k) \/ LaneThrows(k)
  PROVE  NoListenerLeaks' /\ OnePass' /\ OpensWhatIsClosed'
<1> DEFINE T == [at : {"idle", "context", "next", "opening"}, todo : [LaneService -> 0..MaxPort],
                 svc : LaneService, port : 0..MaxPort, tries : 0..Attempts]
<1>a. pass \in [Slot -> T] /\ Resting.at = "idle" /\ listening \subseteq LaneService \X Port
      /\ lanes \in [LaneService -> 0..MaxPort]
  BY DEF LnIInv, LnTypeOK, Resting
<1>1. CASE PassBegins(k)
  <2>1. CASE stopped
    BY <1>1, <2>1 DEF PassBegins, netVars, LnIInv, NoListenerLeaks, OnePass, OpensWhatIsClosed, Opening
  <2>2. CASE ~stopped
    <3>1. \A j \in Slot : pass[j].at = "idle"
      BY <1>1 DEF PassBegins, SomePassRuns
    <3>2. UNCHANGED netVars /\ pass'[k].at = "context" /\ \A j \in Slot \ {k} : pass'[j].at = "idle"
      BY <1>1, <1>a, <2>2, <3>1 DEF PassBegins, Resting
    <3> QED
      BY <3>1, <3>2 DEF netVars, LnIInv, NoListenerLeaks, OnePass, OpensWhatIsClosed, Opening
  <2> QED
    BY <2>1, <2>2
<1>2. CASE Reconcile(k)
  <2> DEFINE keeps == {s \in LaneService : lanes[s] = WantedPort(s)}
  <2>1. pass[k].at = "context" /\ \A j \in Slot \ {k} : pass[j].at = "idle"
    BY <1>2, OthersIdle DEF Reconcile
  <2>2. pass'[k].at = "next" /\ \A j \in Slot \ {k} : pass'[j].at = "idle"
    BY <1>2, <1>a, <2>1 DEF Reconcile
  <2>3. \A l \in listening : lanes[l[1]] = l[2]
    BY <2>1, OthersIdle
  <2>4. /\ lanes' = [s \in LaneService |-> IF s \in keeps THEN lanes[s] ELSE 0]
        /\ listening' = {l \in listening : l[1] \in keeps \/ lanes[l[1]] # l[2]}
    BY <1>2 DEF Reconcile
  <2> HIDE DEF keeps
  <2>5. \A l \in listening' : lanes'[l[1]] = l[2]
    BY <1>a, <2>3, <2>4
  <2> QED
    BY <2>2, <2>5 DEF NoListenerLeaks, OnePass, OpensWhatIsClosed
<1>3. ASSUME NEW s \in LaneService, OpenPerService(k, s)
      PROVE NoListenerLeaks' /\ OnePass' /\ OpensWhatIsClosed'
  <2> DEFINE p == pass[k].todo[s]
  <2>1. pass[k].at = "next" /\ \A j \in Slot \ {k} : pass[j].at = "idle"
    BY <1>3, OthersIdle DEF OpenPerService
  <2>2. /\ pass'[k].at = "opening" /\ pass'[k].svc = s /\ pass'[k].port = p
        /\ \A j \in Slot \ {k} : pass'[j].at = "idle"
    BY <1>3, <1>a, <2>1 DEF OpenPerService
  <2>3. \A l \in listening : lanes[l[1]] = l[2]
    BY <2>1, OthersIdle
  <2>4. listening' \subseteq listening \cup {<<s, p>>} /\ lanes' = lanes /\ lanes[s] = 0
    BY <1>3 DEF OpenPerService, Listens
  <2> HIDE DEF p
  <2>5. NoListenerLeaks'
    BY <2>2, <2>3, <2>4 DEF NoListenerLeaks, Opening
  <2> QED
    BY <2>2, <2>4, <2>5 DEF OnePass, OpensWhatIsClosed
<1>4. CASE LaneOpened(k)
  <2>1. pass[k].at = "opening" /\ \A j \in Slot \ {k} : pass[j].at = "idle"
    BY <1>4, OthersIdle DEF LaneOpened
  <2>2. pass'[k].at = "next" /\ \A j \in Slot \ {k} : pass'[j].at = "idle"
    BY <1>4, <1>a, <2>1 DEF LaneOpened
  <2>3. /\ lanes' = [lanes EXCEPT ![pass[k].svc] = pass[k].port] /\ listening' = listening
        /\ pass[k].svc \in LaneService /\ lanes[pass[k].svc] = 0
    BY <1>4, <1>a, <2>1 DEF LaneOpened, LnIInv, OpensWhatIsClosed
  <2>4. \A l \in listening : l[1] \in LaneService /\ l[2] # 0
    BY <1>a DEF Port
  <2>5. \A l \in listening' : lanes'[l[1]] = l[2]
    BY <1>a, <2>1, <2>3, <2>4, OthersIdle
  <2> QED
    BY <2>2, <2>5 DEF NoListenerLeaks, OnePass, OpensWhatIsClosed
<1>5. CASE ReallocLane(k)
  <2> DEFINE q == pass[k].port
             v == pass[k].svc
  <2>1. pass[k].at = "opening" /\ <<v, q>> \notin listening /\ \A j \in Slot \ {k} : pass[j].at = "idle"
    BY <1>5, OthersIdle DEF ReallocLane
  <2>2. \A l \in listening : lanes[l[1]] = l[2]
    BY <1>a, <2>1, OthersIdle
  <2>3. v \in LaneService /\ lanes[v] = 0 /\ lanes' = lanes
    BY <1>5, <1>a, <2>1 DEF ReallocLane, LnIInv, OpensWhatIsClosed
  <2>4. \/ pass' = [pass EXCEPT ![k] = Resting] /\ listening' = listening
        \/ /\ pass' = [pass EXCEPT ![k].port = NextLanePort, ![k].tries = @ + 1]
           /\ listening' = Listens(v, NextLanePort)
    BY <1>5 DEF ReallocLane, PassFails
  <2>5. CASE pass' = [pass EXCEPT ![k] = Resting] /\ listening' = listening
    <3>1. \A j \in Slot : pass'[j].at = "idle"
      BY <1>a, <2>1, <2>5
    <3> QED
      BY <2>2, <2>3, <2>5, <3>1 DEF NoListenerLeaks, OnePass, OpensWhatIsClosed
  <2>6. CASE /\ pass' = [pass EXCEPT ![k].port = NextLanePort, ![k].tries = @ + 1]
             /\ listening' = Listens(v, NextLanePort)
    <3>1. /\ pass'[k].at = "opening" /\ pass'[k].svc = v /\ pass'[k].port = NextLanePort
          /\ \A j \in Slot \ {k} : pass'[j].at = "idle"
      BY <1>a, <2>1, <2>6
    <3>2. listening' \subseteq listening \cup {<<v, NextLanePort>>}
      BY <2>6 DEF Listens
    <3> HIDE DEF q, v
    <3>3. NoListenerLeaks'
      BY <2>2, <2>3, <3>1, <3>2 DEF NoListenerLeaks, Opening
    <3> QED
      BY <2>3, <3>1, <3>3 DEF OnePass, OpensWhatIsClosed
  <2> QED
    BY <2>4, <2>5, <2>6
<1>6. CASE LaneThrows(k)
  <2>1. pass[k].at = "opening" /\ \A j \in Slot \ {k} : pass[j].at = "idle"
    BY <1>6, OthersIdle DEF LaneThrows
  <2>2. \A j \in Slot : pass'[j].at = "idle"
    BY <1>6, <1>a, <2>1 DEF LaneThrows, PassFails
  <2>3. listening' = listening \ {<<pass[k].svc, pass[k].port>>} /\ lanes' = lanes
    BY <1>6 DEF LaneThrows
  <2>4. \A l \in listening' : lanes'[l[1]] = l[2]
    BY <1>a, <2>1, <2>3, OthersIdle
  <2> QED
    BY <2>2, <2>4 DEF NoListenerLeaks, OnePass, OpensWhatIsClosed
<1>7. CASE PassEnds(k)
  <2>1. pass[k].at = "next" /\ \A j \in Slot \ {k} : pass[j].at = "idle"
    BY <1>7, OthersIdle DEF PassEnds
  <2>2. \A j \in Slot : pass'[j].at = "idle"
    BY <1>7, <1>a, <2>1 DEF PassEnds
  <2>3. \A l \in listening' : lanes'[l[1]] = l[2]
    BY <1>7, <2>1, OthersIdle DEF PassEnds, netVars
  <2> QED
    BY <2>2, <2>3 DEF NoListenerLeaks, OnePass, OpensWhatIsClosed
<1> QED
  BY <1>1, <1>2, <1>3, <1>4, <1>5, <1>6, <1>7 DEF PassStep

LEMMA LnInvStops ==
  ASSUME LnIInv, RouterStops
  PROVE  LnIInv'
<1>1. LnTypeOK' /\ OnePortEach' /\ OnePass'
  BY LnTypeStops DEF LnIInv, OnePortEach, OnePass, RouterStops, carryVars
<1>2. OpensWhatIsClosed'
  BY DEF LnIInv, LnTypeOK, OpensWhatIsClosed, RouterStops
<1>3. NoListenerLeaks'
  BY DEF LnIInv, NoListenerLeaks, Opening, RouterStops
<1> QED
  BY <1>1, <1>2, <1>3 DEF LnIInv

LEMMA LnInvStep == LnIInv /\ [LnNext]_lnVars => LnIInv'
<1>1. LnIInv /\ UNCHANGED lnVars => LnIInv'
  BY DEF LnIInv, LnTypeOK, OnePortEach, NoListenerLeaks, Opening, OnePass, OpensWhatIsClosed, lnVars
<1>2. ASSUME LnIInv, NEW k \in Slot, PassStep(k) \/ LaneThrows(k) PROVE LnIInv'
  BY <1>2, LnTypePass, PassKeepsPorts, PassKeepsSockets DEF LnIInv
<1> QED
  BY <1>1, <1>2, LnInvDisturbs, LnInvStops DEF LnNext

(* No port is given twice and no socket is lost, whatever rows change and  *)
(* fail while passes await.                                                *)
THEOREM PortsStayKept == LnSpec => []PortsAreKept
<1>1. LnIInv => PortsAreKept
  BY DEF LnIInv, PortsAreKept
<1> QED
  BY <1>1, LnInvInit, LnInvStep, PTL DEF LnSpec
-----------------------------------------------------------------------------
(* Managed services: the inductive invariant.  Operations that may disturb *)
(* each other are kept apart by the lock; an id belongs to one name on     *)
(* every branch; and each operation keeps what it has read true until its  *)
(* last step.                                                              *)

OpsApart ==
  \A o, p \in SvOp : o # p /\ Within(o) /\ Within(p)
    => SvKeys(o) \cap SvKeys(p) = {} /\ ~(op[o].at \in AtAdd /\ op[p].at \in AtAdd)

IdsApart ==
  /\ \A n \in SvName : reg[n] <= ids
  /\ \A b \in SvBranch, n \in SvName : svRow[b][n] <= ids
  /\ \A n, k \in SvName : reg[n] # 0 /\ reg[n] = reg[k] => n = k
  /\ \A b \in SvBranch, n, k \in SvName : svRow[b][n] # 0 /\ svRow[b][n] = reg[k] => n = k
  /\ \A b, c \in SvBranch, n, k \in SvName : svRow[b][n] # 0 /\ svRow[b][n] = svRow[c][k] => n = k

Mars(b, n) == <<b, n>> \in torn \cup stuck \* an answer or a death has left the row unclear

AddOwns(o) ==
  LET b == op[o].br
      n == op[o].name
      i == op[o].id
  IN
  /\ i # 0 /\ i <= ids
  /\ IF op[o].had THEN svRow[b][n] = 0 ELSE reg[n] = 0
  /\ \A k \in SvName : reg[k] = i => k = n
  /\ \A c \in SvBranch, k \in SvName : svRow[c][k] = i => k = n
  /\ op[o].at # "mkdir" => i \in bytes[b]
  /\ op[o].at = "row" => cont[b][n] = i

RemovalOwns(o) ==
  LET b == op[o].br
      n == op[o].name
  IN
  /\ svRow[b][n] # 0 /\ reg[n] # 0 /\ op[o].id = reg[n]
  /\ op[o].at # "rm" => <<b, n>> \in torn

RenameOwns(o) ==
  LET n == op[o].name
      m == op[o].to
  IN
  /\ n # m /\ reg[n] # 0 /\ reg[m] = 0
  /\ op[o].todo \subseteq Carriers(n) /\ op[o].done \subseteq Carriers(n) /\ op[o].todo \cap op[o].done = {}
  /\ \A b \in op[o].done :
       /\ svRow[b][m] = 0 \/ Mars(b, m)
       /\ Mars(b, n) \/ cont[b][m] = svRow[b][n]
  /\ op[o].at = "move" => \A b \in Carriers(n) \ op[o].todo : cont[b][n] = 0

Owns(o) ==
  /\ op[o].at \in AtAdd => AddOwns(o)
  /\ op[o].at \in AtRemove => RemovalOwns(o)
  /\ op[o].at \in AtRename => RenameOwns(o)
  /\ op[o].at = "add?" => ~op[o].had
  /\ op[o].at = "rename?" => op[o].name # op[o].to /\ op[o].done = {}

OpsOwn == \A o \in SvOp : Owns(o)

RowsWhole ==
  \A b \in SvBranch, n \in SvName :
    svRow[b][n] # 0 /\ <<b, n>> \notin torn
      => /\ svRow[b][n] \in bytes[b]
         /\ <<b, n>> \notin stuck /\ ~Moving(b, n) => cont[b][n] = svRow[b][n]

SvIInv == SvTypeOK /\ OpsApart /\ IdsApart /\ OpsOwn /\ RowsWhole
-----------------------------------------------------------------------------
(* Managed services: types.                                                *)

OnBranch == Ops(AtAdd \cup AtRemove \cup {"add?", "remove?"}, SvBranch)
OnAll == Ops(AtRename \cup {"rename?"}, {"all"})

LEMMA OpKinds ==
  ASSUME SvTypeOK, NEW o \in SvOp
  PROVE  /\ op[o].at \in AtAdd \cup AtRemove \cup {"add?", "remove?"} => op[o] \in OnBranch
         /\ op[o].at \in AtRename \cup {"rename?"} => op[o] \in OnAll
         /\ op[o].at \in {"idle", "add?", "remove?", "rename?"} \cup InBody
<1>1. op[o] \in {NoOp} \cup OnBranch \cup OnAll
  BY DEF SvTypeOK, OnBranch, OnAll
<1>2. CASE op[o] = NoOp
  BY <1>2 DEF NoOp, AtAdd, AtRemove, AtRename
<1>3. CASE op[o] \in OnBranch
  BY <1>3 DEF OnBranch, Ops, AtAdd, AtRemove, AtRename, InBody
<1>4. CASE op[o] \in OnAll
  BY <1>4 DEF OnAll, Ops, AtAdd, AtRemove, AtRename, InBody
<1> QED
  BY <1>1, <1>2, <1>3, <1>4

(* Changing one operation to one of either kind, or to none, is typed.     *)
LEMMA OpTyped ==
  ASSUME SvTypeOK, NEW o \in SvOp, NEW r \in {NoOp} \cup OnBranch \cup OnAll, op' = [op EXCEPT ![o] = r]
  PROVE  op' \in [SvOp -> {NoOp} \cup OnBranch \cup OnAll]
BY DEF SvTypeOK, OnBranch, OnAll

LEMMA SvTypeInit == SvInit => SvTypeOK
<1> SUFFICES ASSUME SvInit PROVE SvTypeOK
  OBVIOUS
<1>1. 0 \in 0..MaxId /\ 0 \in 0..MaxFaults
  BY SvAssumption
<1>2. [n \in SvName |-> 0] \in [SvName -> 0..MaxId]
  BY <1>1
<1> QED
  BY <1>1, <1>2 DEF SvInit, SvTypeOK

LEMMA SvTypeAsk ==
  ASSUME SvTypeOK, NEW o \in SvOp, NEW b \in SvBranch, NEW n \in SvName, NEW m \in SvName,
         AskAdd(o, b, n) \/ AskRemove(o, b, n) \/ AskRename(o, n, m)
  PROVE  SvTypeOK'
<1>1. 0 \in 0..MaxId
  BY SvAssumption
<1>2. /\ Asked("add?", b, n, n) \in OnBranch /\ Asked("remove?", b, n, n) \in OnBranch
      /\ Asked("rename?", "all", n, m) \in OnAll
  BY <1>1 DEF Asked, OnBranch, OnAll, Ops
<1>3. op' \in [SvOp -> {NoOp} \cup OnBranch \cup OnAll]
  BY <1>2, OpTyped DEF AskAdd, AskRemove, AskRename
<1>4. UNCHANGED <<reg, svRow, cont, bytes, ids, faults, torn, stuck>>
  BY DEF AskAdd, AskRemove, AskRename, keptVars, diskVars
<1> QED
  BY <1>3, <1>4 DEF SvTypeOK, OnBranch, OnAll

LEMMA SvTypeAdd ==
  ASSUME SvTypeOK, NEW o \in SvOp, NEW left \in BOOLEAN,
         AddBegins(o) \/ EnsureManagedDirs(o) \/ ManagedProvision(o) \/ AddFails(o, left) \/ AddCommits(o)
  PROVE  SvTypeOK'
<1> USE DEF keptVars, diskVars
<1> DEFINE b == op[o].br
           n == op[o].name
           i == op[o].id
<1>1. op[o] \in OnBranch
  BY OpKinds DEF AddBegins, EnsureManagedDirs, ManagedProvision, AddFails, AddCommits, AtAdd
<1>2. b \in SvBranch /\ n \in SvName /\ i \in 0..MaxId
  BY <1>1 DEF OnBranch, Ops
<1>3. NoOp \in {NoOp} \cup OnBranch \cup OnAll
  OBVIOUS
<1>4. CASE AddBegins(o)
  <2>1. CASE reg[n] = 0
    <3>1. ids + 1 \in 0..MaxId /\ [op[o] EXCEPT !.at = "mkdir", !.id = ids + 1] \in OnBranch
      <4>1. ids + 1 \in 0..MaxId
        BY <1>4, <2>1, SvAssumption DEF AddBegins, SvTypeOK
      <4> QED
        BY <1>1, <4>1 DEF OnBranch, Ops, AtAdd
    <3>2. op' = [op EXCEPT ![o] = [op[o] EXCEPT !.at = "mkdir", !.id = ids + 1]] /\ ids' = ids + 1
      BY <1>4, <2>1 DEF AddBegins, SvTypeOK
    <3>3. op' \in [SvOp -> {NoOp} \cup OnBranch \cup OnAll]
      BY <3>1, <3>2, OpTyped
    <3> QED
      BY <1>4, <3>1, <3>2, <3>3 DEF AddBegins, SvTypeOK, OnBranch, OnAll
  <2>2. CASE reg[n] # 0
    <3>1. [op[o] EXCEPT !.at = "mkdir", !.id = reg[n], !.had = TRUE] \in OnBranch
      BY <1>1, <1>2 DEF OnBranch, Ops, AtAdd, SvTypeOK
    <3>2. \/ op' = [op EXCEPT ![o] = NoOp]
          \/ op' = [op EXCEPT ![o] = [op[o] EXCEPT !.at = "mkdir", !.id = reg[n], !.had = TRUE]]
      BY <1>4, <2>2 DEF AddBegins, SvLeaves, SvTypeOK
    <3>3. op' \in [SvOp -> {NoOp} \cup OnBranch \cup OnAll]
      BY <1>3, <3>1, <3>2, OpTyped
    <3> QED
      BY <1>4, <2>2, <3>3 DEF AddBegins, SvTypeOK, OnBranch, OnAll
  <2> QED
    BY <2>1, <2>2
<1>5. CASE EnsureManagedDirs(o)
  <2>1. [op[o] EXCEPT !.at = "run"] \in OnBranch
    BY <1>1 DEF OnBranch, Ops, AtAdd
  <2>2. op' = [op EXCEPT ![o] = [op[o] EXCEPT !.at = "run"]]
    BY <1>5 DEF EnsureManagedDirs, SvAt, SvTypeOK
  <2>3. op' \in [SvOp -> {NoOp} \cup OnBranch \cup OnAll]
    BY <2>1, <2>2, OpTyped
  <2> QED
    BY <1>5, <1>2, <2>3 DEF EnsureManagedDirs, SvTypeOK, OnBranch, OnAll
<1>6. CASE ManagedProvision(o)
  <2>1. [op[o] EXCEPT !.at = "row"] \in OnBranch
    BY <1>1 DEF OnBranch, Ops, AtAdd
  <2>2. op' = [op EXCEPT ![o] = [op[o] EXCEPT !.at = "row"]]
    BY <1>6 DEF ManagedProvision, SvAt, SvTypeOK
  <2>3. op' \in [SvOp -> {NoOp} \cup OnBranch \cup OnAll]
    BY <2>1, <2>2, OpTyped
  <2> QED
    BY <1>6, <1>2, <2>3 DEF ManagedProvision, SvTypeOK, OnBranch, OnAll
<1>7. CASE AddFails(o, left)
  <2>1. op' \in [SvOp -> {NoOp} \cup OnBranch \cup OnAll]
    BY <1>7, <1>3, OpTyped DEF AddFails, SvLeaves
  <2>2. cont' \in [SvBranch -> [SvName -> 0..MaxId]] /\ faults' \in 0..MaxFaults
    <3>1. CASE cont[b][n] # 0
      BY <1>7, <3>1 DEF AddFails, SvTypeOK
    <3>2. CASE cont[b][n] = 0
      <4>1. (IF left THEN i ELSE 0) \in 0..MaxId
        BY <1>2, SvAssumption
      <4>2. cont' = [cont EXCEPT ![b][n] = IF left THEN i ELSE 0] /\ Fault
        BY <1>7, <3>2 DEF AddFails
      <4> QED
        BY <1>2, <4>1, <4>2, SvAssumption DEF Fault, SvTypeOK
    <3> QED
      BY <3>1, <3>2
  <2> QED
    BY <1>7, <2>1, <2>2 DEF AddFails, SvTypeOK, OnBranch, OnAll
<1>8. CASE AddCommits(o)
  <2>1. op' \in [SvOp -> {NoOp} \cup OnBranch \cup OnAll]
    BY <1>8, <1>3, OpTyped DEF AddCommits, SvLeaves
  <2>2. reg' \in [SvName -> 0..MaxId] /\ svRow' \in [SvBranch -> [SvName -> 0..MaxId]]
    BY <1>8, <1>2 DEF AddCommits, SvTypeOK
  <2>3. torn' \subseteq SvBranch \X SvName /\ stuck' \subseteq SvBranch \X SvName
    BY <1>8 DEF AddCommits, SvTypeOK
  <2> QED
    BY <1>8, <2>1, <2>2, <2>3 DEF AddCommits, SvTypeOK, OnBranch, OnAll
<1> QED
  BY <1>4, <1>5, <1>6, <1>7, <1>8
LEMMA SvTypeRemove ==
  ASSUME SvTypeOK, NEW o \in SvOp, NEW landed \in BOOLEAN,
         RemoveBegins(o) \/ ManagedDestroy(o) \/ RemoveDirectory(o) \/ RemovalFails(o, landed) \/ RemoveCommits(o)
  PROVE  SvTypeOK'
<1> USE DEF keptVars, diskVars
<1> DEFINE b == op[o].br
           n == op[o].name
<1>1. op[o] \in OnBranch
  BY OpKinds DEF RemoveBegins, ManagedDestroy, RemoveDirectory, RemovalFails, RemoveCommits, AtRemove
<1>2. b \in SvBranch /\ n \in SvName /\ 0 \in 0..MaxId
  BY <1>1, SvAssumption DEF OnBranch, Ops
<1>3. NoOp \in {NoOp} \cup OnBranch \cup OnAll
  OBVIOUS
<1>4. CASE RemoveBegins(o)
  <2>1. [op[o] EXCEPT !.at = "rm", !.id = reg[n]] \in OnBranch
    BY <1>1, <1>2 DEF OnBranch, Ops, AtRemove, SvTypeOK
  <2>2. op' = [op EXCEPT ![o] = NoOp] \/ op' = [op EXCEPT ![o] = [op[o] EXCEPT !.at = "rm", !.id = reg[n]]]
    BY <1>4 DEF RemoveBegins, SvLeaves, SvTypeOK
  <2>3. op' \in [SvOp -> {NoOp} \cup OnBranch \cup OnAll]
    BY <1>3, <2>1, <2>2, OpTyped
  <2> QED
    BY <1>4, <2>3 DEF RemoveBegins, SvTypeOK, OnBranch, OnAll
<1>5. CASE ManagedDestroy(o)
  <2>1. [op[o] EXCEPT !.at = "rmdir"] \in OnBranch
    BY <1>1 DEF OnBranch, Ops, AtRemove
  <2>2. op' = [op EXCEPT ![o] = [op[o] EXCEPT !.at = "rmdir"]]
    BY <1>5 DEF ManagedDestroy, SvAt, SvTypeOK
  <2>3. op' \in [SvOp -> {NoOp} \cup OnBranch \cup OnAll]
    BY <2>1, <2>2, OpTyped
  <2>4. cont' = [cont EXCEPT ![b][n] = 0] /\ torn' = torn \cup {<<b, n>>}
    BY <1>5 DEF ManagedDestroy
  <2>5. cont' \in [SvBranch -> [SvName -> 0..MaxId]] /\ torn' \subseteq SvBranch \X SvName
    BY <1>2, <2>4 DEF SvTypeOK
  <2> QED
    BY <1>5, <2>3, <2>5 DEF ManagedDestroy, SvTypeOK, OnBranch, OnAll
<1>6. CASE RemoveDirectory(o)
  <2>1. [op[o] EXCEPT !.at = "drop"] \in OnBranch
    BY <1>1 DEF OnBranch, Ops, AtRemove
  <2>2. op' = [op EXCEPT ![o] = [op[o] EXCEPT !.at = "drop"]]
    BY <1>6 DEF RemoveDirectory, SvAt, SvTypeOK
  <2>3. op' \in [SvOp -> {NoOp} \cup OnBranch \cup OnAll]
    BY <2>1, <2>2, OpTyped
  <2> QED
    BY <1>6, <1>2, <2>3 DEF RemoveDirectory, SvTypeOK, OnBranch, OnAll
<1>7. CASE RemovalFails(o, landed)
  <2>1. op' \in [SvOp -> {NoOp} \cup OnBranch \cup OnAll]
    BY <1>7, <1>3, OpTyped DEF RemovalFails, SvLeaves
  <2>2. faults' \in 0..MaxFaults
    BY <1>7, SvAssumption DEF RemovalFails, Fault, SvTypeOK
  <2>3. cont' \in [SvBranch -> [SvName -> 0..MaxId]] /\ torn' \subseteq SvBranch \X SvName
    <3>1. \/ cont' = cont /\ torn' = torn
          \/ cont' = [cont EXCEPT ![b][n] = 0] /\ torn' = torn \cup {<<b, n>>}
      BY <1>7 DEF RemovalFails
    <3>2. CASE cont' = cont /\ torn' = torn
      BY <3>2 DEF SvTypeOK
    <3>3. CASE cont' = [cont EXCEPT ![b][n] = 0] /\ torn' = torn \cup {<<b, n>>}
      BY <1>2, <3>3 DEF SvTypeOK
    <3> QED
      BY <3>1, <3>2, <3>3
  <2> QED
    BY <1>7, <2>1, <2>2, <2>3 DEF RemovalFails, SvTypeOK, OnBranch, OnAll
<1>8. CASE RemoveCommits(o)
  <2>1. op' \in [SvOp -> {NoOp} \cup OnBranch \cup OnAll]
    BY <1>8, <1>3, OpTyped DEF RemoveCommits, SvLeaves
  <2>2. reg' \in [SvName -> 0..MaxId] /\ svRow' \in [SvBranch -> [SvName -> 0..MaxId]]
    BY <1>8, <1>2 DEF RemoveCommits, RetireRegistration, SvTypeOK
  <2> QED
    BY <1>8, <2>1, <2>2 DEF RemoveCommits, SvTypeOK, OnBranch, OnAll
<1> QED
  BY <1>4, <1>5, <1>6, <1>7, <1>8

LEMMA SvTypeRename ==
  ASSUME SvTypeOK, NEW o \in SvOp, NEW b \in SvBranch, NEW landed \in BOOLEAN,
         \/ RenameBegins(o) \/ RenameContainer(o, b) \/ RenameFails(o, b, landed) \/ UndoRename(o, b)
         \/ UndoFails(o, b) \/ RenameFailure(o) \/ RenameCommits(o)
  PROVE  SvTypeOK'
<1> USE DEF keptVars, diskVars
<1> DEFINE n == op[o].name
           m == op[o].to
<1>1. op[o] \in OnAll
  BY OpKinds DEF RenameBegins, RenameContainer, RenameFails, UndoRename, UndoFails, RenameFailure,
                 RenameCommits, AtRename
<1>2. n \in SvName /\ m \in SvName /\ 0 \in 0..MaxId
  BY <1>1, SvAssumption DEF OnAll, Ops
<1>3. NoOp \in {NoOp} \cup OnBranch \cup OnAll /\ Moved(b, n, m) \in [SvBranch -> [SvName -> 0..MaxId]]
      /\ Moved(b, m, n) \in [SvBranch -> [SvName -> 0..MaxId]]
  <2>1. cont[b] \in [SvName -> 0..MaxId] /\ cont[b][n] \in 0..MaxId /\ cont[b][m] \in 0..MaxId
    BY <1>2 DEF SvTypeOK
  <2>2. /\ [cont[b] EXCEPT ![n] = 0, ![m] = cont[b][n]] \in [SvName -> 0..MaxId]
        /\ [cont[b] EXCEPT ![m] = 0, ![n] = cont[b][m]] \in [SvName -> 0..MaxId]
    BY <1>2, <2>1
  <2>3. /\ Moved(b, n, m) = [cont EXCEPT ![b] = [cont[b] EXCEPT ![n] = 0, ![m] = cont[b][n]]]
        /\ Moved(b, m, n) = [cont EXCEPT ![b] = [cont[b] EXCEPT ![m] = 0, ![n] = cont[b][m]]]
    BY DEF Moved, SvTypeOK
  <2>4. cont \in [SvBranch -> [SvName -> 0..MaxId]]
    BY DEF SvTypeOK
  <2>5. ASSUME NEW f \in [SvName -> 0..MaxId]
        PROVE  [cont EXCEPT ![b] = f] \in [SvBranch -> [SvName -> 0..MaxId]]
    BY <2>4
  <2>6. NoOp \in {NoOp} \cup OnBranch \cup OnAll
    OBVIOUS
  <2> QED
    BY <2>2, <2>3, <2>5, <2>6
<1>4. CASE RenameBegins(o)
  <2>1. [op[o] EXCEPT !.at = "move", !.todo = Carriers(n)] \in OnAll
    BY <1>1 DEF OnAll, Ops, AtRename, Carriers
  <2>2. \/ op' = [op EXCEPT ![o] = NoOp]
        \/ op' = [op EXCEPT ![o] = [op[o] EXCEPT !.at = "move", !.todo = Carriers(n)]]
    BY <1>4 DEF RenameBegins, SvLeaves, SvTypeOK
  <2>3. op' \in [SvOp -> {NoOp} \cup OnBranch \cup OnAll]
    BY <1>3, <2>1, <2>2, OpTyped
  <2> QED
    BY <1>4, <2>3 DEF RenameBegins, SvTypeOK, OnBranch, OnAll
<1>5. CASE RenameContainer(o, b)
  <2>1. /\ [op[o] EXCEPT !.todo = @ \ {b}, !.done = @ \cup {b}] \in OnAll
        /\ [op[o] EXCEPT !.todo = @ \ {b}] \in OnAll
    BY <1>1 DEF OnAll, Ops
  <2>2. \/ op' = [op EXCEPT ![o] = [op[o] EXCEPT !.todo = @ \ {b}, !.done = @ \cup {b}]]
        \/ op' = [op EXCEPT ![o] = [op[o] EXCEPT !.todo = @ \ {b}]]
    BY <1>5 DEF RenameContainer, SvTypeOK
  <2>3. op' \in [SvOp -> {NoOp} \cup OnBranch \cup OnAll]
    BY <2>1, <2>2, OpTyped
  <2>4. cont' = cont \/ cont' = Moved(b, n, m)
    BY <1>5 DEF RenameContainer
  <2> QED
    BY <1>5, <1>3, <2>3, <2>4 DEF RenameContainer, SvTypeOK, OnBranch, OnAll
<1>6. CASE RenameFails(o, b, landed)
  <2>1. [op[o] EXCEPT !.at = "undo"] \in OnAll
    BY <1>1 DEF OnAll, Ops, AtRename
  <2>2. op' = [op EXCEPT ![o] = [op[o] EXCEPT !.at = "undo"]]
    BY <1>6 DEF RenameFails, SvAt, SvTypeOK
  <2>3. op' \in [SvOp -> {NoOp} \cup OnBranch \cup OnAll]
    BY <2>1, <2>2, OpTyped
  <2>4. /\ cont' = cont \/ cont' = Moved(b, n, m)
        /\ stuck' \subseteq stuck \cup {<<b, n>>}
        /\ faults' = faults \/ Fault
    BY <1>6 DEF RenameFails
  <2>5. faults' \in 0..MaxFaults
    BY <2>4, SvAssumption DEF Fault, SvTypeOK
  <2>6. stuck' \subseteq SvBranch \X SvName
    BY <1>2, <2>4 DEF SvTypeOK
  <2> QED
    BY <1>6, <1>3, <2>3, <2>4, <2>5, <2>6 DEF RenameFails, SvTypeOK, OnBranch, OnAll
<1>7. CASE UndoRename(o, b)
  <2>1. [op[o] EXCEPT !.done = @ \ {b}] \in OnAll
    BY <1>1 DEF OnAll, Ops
  <2>2. op' = [op EXCEPT ![o] = [op[o] EXCEPT !.done = @ \ {b}]] /\ cont' = Moved(b, m, n)
    BY <1>7 DEF UndoRename, SvTypeOK
  <2>3. op' \in [SvOp -> {NoOp} \cup OnBranch \cup OnAll]
    BY <2>1, <2>2, OpTyped
  <2> QED
    BY <1>7, <1>3, <2>2, <2>3 DEF UndoRename, SvTypeOK, OnBranch, OnAll
<1>8. CASE UndoFails(o, b)
  <2>1. [op[o] EXCEPT !.done = @ \ {b}] \in OnAll
    BY <1>1 DEF OnAll, Ops
  <2>2. op' = [op EXCEPT ![o] = [op[o] EXCEPT !.done = @ \ {b}]] /\ stuck' = stuck \cup {<<b, n>>} /\ Fault
    BY <1>8 DEF UndoFails, SvTypeOK
  <2>3. op' \in [SvOp -> {NoOp} \cup OnBranch \cup OnAll]
    BY <2>1, <2>2, OpTyped
  <2>4. faults' \in 0..MaxFaults /\ stuck' \subseteq SvBranch \X SvName
    BY <1>2, <2>2, SvAssumption DEF Fault, SvTypeOK
  <2> QED
    BY <1>8, <2>3, <2>4 DEF UndoFails, SvTypeOK, OnBranch, OnAll
<1>9. CASE RenameFailure(o)
  <2>1. op' \in [SvOp -> {NoOp} \cup OnBranch \cup OnAll]
    BY <1>9, <1>3, OpTyped DEF RenameFailure, SvLeaves
  <2> QED
    BY <1>9, <2>1 DEF RenameFailure, SvTypeOK, OnBranch, OnAll
<1>10. CASE RenameCommits(o)
  <2>1. op' \in [SvOp -> {NoOp} \cup OnBranch \cup OnAll]
    BY <1>10, <1>3, OpTyped DEF RenameCommits, SvLeaves
  <2>2. reg' \in [SvName -> 0..MaxId]
    BY <1>10, <1>2 DEF RenameCommits, SvTypeOK
  <2>3. svRow' \in [SvBranch -> [SvName -> 0..MaxId]]
    <3>1. \A c \in SvBranch : svRow[c] \in [SvName -> 0..MaxId] /\ svRow[c][n] \in 0..MaxId
      BY <1>2 DEF SvTypeOK
    <3>2. \A c \in SvBranch : [svRow[c] EXCEPT ![m] = svRow[c][n], ![n] = 0] \in [SvName -> 0..MaxId]
      BY <1>2, <3>1
    <3> QED
      BY <1>10, <3>1, <3>2 DEF RenameCommits
  <2>4. torn' \subseteq SvBranch \X SvName /\ stuck' \subseteq SvBranch \X SvName
    BY <1>10, <1>2 DEF RenameCommits, Renamed, SvTypeOK
  <2> QED
    BY <1>10, <2>1, <2>2, <2>3, <2>4 DEF RenameCommits, SvTypeOK, OnBranch, OnAll
<1> QED
  BY <1>4, <1>5, <1>6, <1>7, <1>8, <1>9, <1>10

LEMMA SvTypeDies ==
  ASSUME SvTypeOK, SvDies
  PROVE  SvTypeOK'
<1>1. faults' \in 0..MaxFaults
  BY SvAssumption DEF SvDies, Fault, SvTypeOK
<1>2. stuck' \subseteq SvBranch \X SvName
  <2>1. ASSUME NEW o \in SvOp, Within(o), op[o].done # {}
        PROVE  op[o].done \subseteq SvBranch /\ op[o].name \in SvName
    BY <2>1, OpKinds DEF Within, InBody, OnBranch, OnAll, Ops
  <2>2. stuck \subseteq SvBranch \X SvName
    BY DEF SvTypeOK
  <2>3. \A o \in {p \in SvOp : Within(p)} : op[o].done \X {op[o].name} \subseteq SvBranch \X SvName
    BY <2>1
  <2> QED
    BY <2>2, <2>3 DEF SvDies
<1> QED
  BY <1>1, <1>2 DEF SvDies, SvTypeOK, keptVars, diskVars

LEMMA SvTypeStep == SvTypeOK /\ [SvNext]_svVars => SvTypeOK'
<1>1. SvTypeOK /\ UNCHANGED svVars => SvTypeOK'
  BY DEF SvTypeOK, svVars
<1> QED
  BY <1>1, SvTypeAsk, SvTypeAdd, SvTypeRemove, SvTypeRename, SvTypeDies, SvAssumption DEF SvNext

(* The state of the managed services keeps its type.                       *)
THEOREM SvTypesHold == SvSpec => []SvTypeOK
BY SvTypeInit, SvTypeStep, PTL DEF SvSpec
-----------------------------------------------------------------------------
(* Managed services: what the lock and the invariant rule out.             *)

LEMMA Stages ==
  /\ AtAdd \cap AtRemove = {} /\ AtAdd \cap AtRename = {} /\ AtRemove \cap AtRename = {}
  /\ {"idle", "add?", "remove?", "rename?"} \cap InBody = {}
  /\ AtAdd \subseteq InBody /\ AtRemove \subseteq InBody /\ AtRename \subseteq InBody
BY DEF AtAdd, AtRemove, AtRename, InBody

LEMMA KeysOf ==
  ASSUME NEW o \in SvOp
  PROVE  /\ op[o].at \in AtAdd \cup {"add?"} => SvKeys(o) = {<<op[o].br, "*">>}
         /\ op[o].at \in AtRemove \cup {"remove?"} => SvKeys(o) = {<<op[o].br, op[o].name>>}
         /\ op[o].at \in AtRename \cup {"rename?"} => SvKeys(o) = SvBranch \X {"*", op[o].name}
BY DEF SvKeys, AtAdd, AtRemove, AtRename

(* A rename shuts out adds and renames, and removals of its own service.   *)
LEMMA Exclusion ==
  ASSUME SvTypeOK, OpsApart, NEW o \in SvOp, NEW p \in SvOp \ {o}
  PROVE  /\ op[o].at \in AtRename => op[p].at \notin AtRename /\ op[p].at \notin AtAdd
         /\ op[o].at \in AtRename /\ op[p].at \in AtRemove => op[p].name # op[o].name
         /\ op[o].at \in AtAdd => op[p].at \notin AtAdd
         /\ op[o].at \in AtRemove /\ op[p].at \in AtRemove
              => <<op[o].br, op[o].name>> # <<op[p].br, op[p].name>>
<1>1. /\ op[p].at \in AtAdd \cup AtRemove => op[p].br \in SvBranch
      /\ op[o].at \in AtAdd \cup AtRemove => op[o].br \in SvBranch
  BY OpKinds DEF OnBranch, Ops
<1>2. op[o].at \in InBody /\ op[p].at \in InBody => SvKeys(o) \cap SvKeys(p) = {}
  BY DEF OpsApart, Within
<1>3. PICK c \in SvBranch : TRUE
  BY SvAssumption
<1>4. CASE op[o].at \in AtRename
  <2>1. SvKeys(o) = SvBranch \X {"*", op[o].name}
    BY <1>4, KeysOf
  <2>2. CASE op[p].at \in AtRename
    <3>1. SvKeys(p) = SvBranch \X {"*", op[p].name}
      BY <2>2, KeysOf
    <3>2. <<c, "*">> \in SvKeys(o) \cap SvKeys(p)
      BY <1>3, <2>1, <3>1
    <3> QED
      BY <1>2, <1>4, <2>2, <3>2, Stages
  <2>3. CASE op[p].at \in AtAdd
    <3>1. <<op[p].br, "*">> \in SvKeys(o) \cap SvKeys(p)
      BY <1>1, <2>1, <2>3, KeysOf
    <3> QED
      BY <1>2, <1>4, <2>3, <3>1, Stages
  <2>4. CASE op[p].at \in AtRemove /\ op[p].name = op[o].name
    <3>1. <<op[p].br, op[p].name>> \in SvKeys(o) \cap SvKeys(p)
      BY <1>1, <2>1, <2>4, KeysOf
    <3> QED
      BY <1>2, <1>4, <2>4, <3>1, Stages
  <2> QED
    BY <1>4, <2>2, <2>3, <2>4, Stages
<1>5. CASE op[o].at \in AtAdd
  BY <1>5, Stages DEF OpsApart, Within
<1>6. CASE op[o].at \in AtRemove
  <2>1. SvKeys(o) = {<<op[o].br, op[o].name>>}
    BY <1>6, KeysOf
  <2> QED
    BY <1>2, <1>6, <2>1, KeysOf, Stages
<1> QED
  BY <1>4, <1>5, <1>6, Stages

(* An operation that goes on in its kind, or leaves, stays apart.          *)
LEMMA StaysApart ==
  ASSUME SvTypeOK, OpsApart, NEW o \in SvOp, NEW r, op' = [op EXCEPT ![o] = r],
         \/ r.at \notin InBody
         \/ /\ \/ op[o].at \in AtAdd /\ r.at \in AtAdd
               \/ op[o].at \in AtRemove /\ r.at \in AtRemove
               \/ op[o].at \in AtRename /\ r.at \in AtRename
            /\ r.br = op[o].br /\ r.name = op[o].name
  PROVE  OpsApart'
<1>1. op'[o] = r /\ \A p \in SvOp \ {o} : op'[p] = op[p]
  BY DEF SvTypeOK
<1>2. \A p \in SvOp \ {o} : SvKeys(p)' = SvKeys(p) /\ Within(p)' = Within(p)
  BY <1>1 DEF SvKeys, Within
<1>3. CASE r.at \notin InBody
  BY <1>1, <1>2, <1>3 DEF OpsApart, Within
<1>4. CASE /\ \/ op[o].at \in AtAdd /\ r.at \in AtAdd
              \/ op[o].at \in AtRemove /\ r.at \in AtRemove
              \/ op[o].at \in AtRename /\ r.at \in AtRename
           /\ r.br = op[o].br /\ r.name = op[o].name
  <2>1. Within(o) /\ (op'[o].at \in AtAdd => op[o].at \in AtAdd)
    BY <1>1, <1>4, Stages DEF Within
  <2>2. SvKeys(o)' = SvKeys(o)
    BY <1>1, <1>4 DEF SvKeys, AtAdd, AtRemove, AtRename
  <2> QED
    BY <1>1, <1>2, <2>1, <2>2 DEF OpsApart
<1> QED
  BY <1>3, <1>4

(* An operation that the lock lets in is apart from those that are in.     *)
LEMMA EntersApart ==
  ASSUME SvTypeOK, OpsApart, NEW o \in SvOp, NEW r, op' = [op EXCEPT ![o] = r], LockFree(o),
         \/ op[o].at = "add?" /\ r.at \in AtAdd /\ ChainFree
         \/ op[o].at = "remove?" /\ r.at \in AtRemove
         \/ op[o].at = "rename?" /\ r.at \in AtRename,
         r.br = op[o].br, r.name = op[o].name
  PROVE  OpsApart'
<1>1. op'[o] = r /\ \A p \in SvOp \ {o} : op'[p] = op[p]
  BY DEF SvTypeOK
<1>2. \A p \in SvOp \ {o} : SvKeys(p)' = SvKeys(p) /\ Within(p)' = Within(p)
  BY <1>1 DEF SvKeys, Within
<1>3. SvKeys(o)' = SvKeys(o)
  BY <1>1 DEF SvKeys, AtAdd, AtRemove, AtRename
<1>4. \A p \in SvOp \ {o} : Within(p) => SvKeys(p) \cap SvKeys(o) = {}
  BY DEF LockFree
<1>5. r.at \in AtAdd => \A p \in SvOp \ {o} : op'[p].at \notin AtAdd
  BY <1>1, Stages DEF ChainFree, AtAdd, AtRemove, AtRename
<1> QED
  BY <1>1, <1>2, <1>3, <1>4, <1>5 DEF OpsApart

(* What one operation owns, another's step that changes none of it keeps.  *)
LEMMA OwnsKept ==
  ASSUME SvTypeOK, NEW p \in SvOp, Owns(p), op'[p] = op[p], ids' \in Nat, ids <= ids',
         UNCHANGED <<reg, svRow, cont, torn, stuck>>, \A c \in SvBranch : bytes[c] \subseteq bytes'[c]
  PROVE  Owns(p)'
<1>1. CASE op[p].at \in AtAdd
  <2>1. op[p] \in OnBranch
    BY <1>1, OpKinds
  <2>2. op[p].id \in 0..MaxId /\ ids \in 0..MaxId /\ op[p].br \in SvBranch
    BY <2>1 DEF OnBranch, Ops, SvTypeOK
  <2>3. AddOwns(p)'
    BY <1>1, <2>2, SvAssumption DEF Owns, AddOwns
  <2> QED
    BY <1>1, <2>3, Stages DEF Owns, AtAdd
<1>2. CASE op[p].at \in AtRemove
  <2>1. RemovalOwns(p)'
    BY <1>2 DEF Owns, RemovalOwns
  <2> QED
    BY <1>2, <2>1, Stages DEF Owns, AtRemove
<1>3. CASE op[p].at \in AtRename
  <2>1. RenameOwns(p)'
    BY <1>3 DEF Owns, RenameOwns, Carriers, Mars
  <2> QED
    BY <1>3, <2>1, Stages DEF Owns, AtRename
<1>4. CASE op[p].at \notin AtAdd \cup AtRemove \cup AtRename
  BY <1>4 DEF Owns
<1> QED
  BY <1>1, <1>2, <1>3, <1>4

(* A step that changes operation o and perhaps mints an id.                *)
LEMMA QuietStep ==
  ASSUME SvIInv, NEW o \in SvOp, NEW r, op' = [op EXCEPT ![o] = r], ids' \in Nat, ids <= ids',
         UNCHANGED <<reg, svRow, cont, torn, stuck, bytes>>,
         \A b \in SvBranch, n \in SvName : Moving(b, n) => Moving(b, n)'
  PROVE  IdsApart' /\ RowsWhole' /\ op'[o] = r /\ \A p \in SvOp \ {o} : Owns(p)'
<1>1. op'[o] = r /\ \A p \in SvOp \ {o} : op'[p] = op[p]
  BY DEF SvIInv, SvTypeOK
<1>2. \A p \in SvOp \ {o} : Owns(p)'
  BY <1>1, OwnsKept DEF SvIInv, OpsOwn
<1>3. IdsApart'
  <2>1. /\ reg \in [SvName -> 0..MaxId] /\ svRow \in [SvBranch -> [SvName -> 0..MaxId]]
        /\ ids \in 0..MaxId /\ MaxId \in Nat
    BY SvAssumption DEF SvIInv, SvTypeOK
  <2> QED
    BY <2>1 DEF SvIInv, IdsApart
<1>4. RowsWhole'
  BY DEF SvIInv, RowsWhole
<1> QED
  BY <1>1, <1>2, <1>3, <1>4

(* An operation that is not in a rename, or goes on in it, moves no row.   *)
LEMMA MovingKept ==
  ASSUME SvTypeOK, NEW o \in SvOp, NEW r, op' = [op EXCEPT ![o] = r],
         \/ op[o].at \notin AtRename
         \/ op[o].done = {}
         \/ r.at \in AtRename /\ r.name = op[o].name /\ op[o].done \subseteq r.done
  PROVE  \A b \in SvBranch, n \in SvName : Moving(b, n) => Moving(b, n)'
<1>1. op'[o] = r /\ \A p \in SvOp \ {o} : op'[p] = op[p]
  BY DEF SvTypeOK
<1> SUFFICES ASSUME NEW b \in SvBranch, NEW n \in SvName, Moving(b, n) PROVE Moving(b, n)'
  OBVIOUS
<1>2. PICK p \in SvOp : op[p].at \in AtRename /\ op[p].name = n /\ b \in op[p].done
  BY DEF Moving
<1>3. op'[p].at \in AtRename /\ op'[p].name = n /\ b \in op'[p].done
  BY <1>1, <1>2
<1> QED
  BY <1>3 DEF Moving, AtRename

(* The same for steps of the other kind: what moved, other than at o.      *)
LEMMA OwnsDone ==
  ASSUME SvTypeOK, NEW o \in SvOp, NEW r, op' = [op EXCEPT ![o] = r],
         \A p \in SvOp \ {o} : Owns(p)', Owns(o)'
  PROVE  OpsOwn'
BY DEF OpsOwn

LEMMA NoOpOwns ==
  ASSUME NEW o \in SvOp, op'[o] = NoOp
  PROVE  Owns(o)'
BY DEF Owns, NoOp, AtAdd, AtRemove, AtRename

LEMMA FromInv ==
  ASSUME SvIInv
  PROVE  /\ SvTypeOK /\ OpsApart /\ IdsApart /\ OpsOwn /\ RowsWhole
         /\ ids \in Nat /\ ids <= ids
         /\ \A n \in SvName : reg[n] \in Nat
         /\ \A c \in SvBranch, n \in SvName : svRow[c][n] \in Nat /\ cont[c][n] \in Nat
<1>1. SvTypeOK /\ OpsApart /\ IdsApart /\ OpsOwn /\ RowsWhole
  BY DEF SvIInv
<1>2. 0..MaxId \subseteq Nat
  BY SvAssumption
<1>3. /\ ids \in Nat /\ \A n \in SvName : reg[n] \in Nat
      /\ \A c \in SvBranch, n \in SvName : svRow[c][n] \in Nat /\ cont[c][n] \in Nat
  BY <1>1, <1>2 DEF SvTypeOK
<1> QED
  BY <1>1, <1>3

LEMMA InvAsk ==
  ASSUME SvIInv, NEW o \in SvOp, NEW b \in SvBranch, NEW n \in SvName, NEW m \in SvName,
         AskAdd(o, b, n) \/ AskRemove(o, b, n) \/ AskRename(o, n, m)
  PROVE  SvIInv'
<1> DEFINE r == op'[o]
<1>1. /\ op[o].at = "idle" /\ op' = [op EXCEPT ![o] = r]
      /\ \/ r = Asked("add?", b, n, n)
         \/ r = Asked("remove?", b, n, n)
         \/ r = Asked("rename?", "all", n, m) /\ m # n
  BY DEF AskAdd, AskRemove, AskRename, SvIInv, SvTypeOK
<1>2. UNCHANGED <<reg, svRow, cont, torn, stuck, bytes, ids>>
  BY DEF AskAdd, AskRemove, AskRename, keptVars, diskVars
<1>3. r.at \notin InBody /\ op[o].at \notin AtRename
  BY <1>1 DEF Asked, InBody, AtAdd, AtRemove, AtRename
<1>4. Owns(o)'
  BY <1>1 DEF Owns, Asked, AtAdd, AtRemove, AtRename
<1>5. SvTypeOK /\ OpsApart /\ ids \in Nat /\ ids <= ids
  BY FromInv
<1>6. SvTypeOK'
  BY <1>5, SvTypeAsk
<1> HIDE DEF r
<1>7. OpsApart'
  BY <1>1, <1>3, <1>5, StaysApart
<1>8. \A c \in SvBranch, k \in SvName : Moving(c, k) => Moving(c, k)'
  BY <1>1, <1>3, <1>5, MovingKept
<1>9. IdsApart' /\ RowsWhole' /\ \A p \in SvOp \ {o} : Owns(p)'
  BY <1>1, <1>2, <1>5, <1>8, QuietStep
<1> QED
  BY <1>4, <1>6, <1>7, <1>9 DEF SvIInv, OpsOwn

LEMMA InvAddBegins ==
  ASSUME SvIInv, NEW o \in SvOp, AddBegins(o)
  PROVE  SvIInv'
<1> DEFINE b == op[o].br
           n == op[o].name
           r == op'[o]
<1>1. /\ op[o].at = "add?" /\ LockFree(o) /\ ChainFree /\ op' = [op EXCEPT ![o] = r]
      /\ UNCHANGED <<reg, svRow, cont, torn, stuck, bytes>>
  BY DEF AddBegins, SvLeaves, keptVars, diskVars, SvIInv, SvTypeOK
<1>2. op[o] \in OnBranch /\ b \in SvBranch /\ n \in SvName
  BY <1>1, OpKinds DEF SvIInv, OnBranch, Ops
<1>3. SvTypeOK /\ OpsApart /\ ids \in Nat /\ ids <= ids
  BY FromInv
<1>a. op[o].at \notin AtRename /\ ~op[o].had
  BY <1>1 DEF AtRename, SvIInv, OpsOwn, Owns
<1>b. SvTypeOK'
  BY <1>3, SvTypeAdd
<1>c. \A c \in SvBranch, k \in SvName : Moving(c, k) => Moving(c, k)'
  BY <1>1, <1>3, <1>a, MovingKept
<1>4. CASE r = NoOp /\ ids' = ids
  <2>1. r.at \notin InBody
    BY <1>4 DEF NoOp, InBody, AtAdd, AtRemove, AtRename
  <2>2. Owns(o)'
    BY <1>4, NoOpOwns
  <2> HIDE DEF r
  <2>3. OpsApart'
    BY <1>1, <1>3, <2>1, StaysApart
  <2>4. IdsApart' /\ RowsWhole' /\ \A p \in SvOp \ {o} : Owns(p)'
    BY <1>1, <1>3, <1>4, <1>c, QuietStep
  <2> QED
    BY <1>b, <2>2, <2>3, <2>4 DEF SvIInv, OpsOwn
<1>5. CASE /\ reg[n] = 0 /\ ids' = ids + 1
           /\ r = [op[o] EXCEPT !.at = "mkdir", !.id = ids + 1]
  <2>1. /\ r.at = "mkdir" /\ r.br = b /\ r.name = n /\ r.id = ids + 1 /\ r.had = FALSE
        /\ "mkdir" \in AtAdd
    BY <1>2, <1>a, <1>5 DEF OnBranch, Ops, AtAdd
  <2> HIDE DEF r
  <2>2. OpsApart'
    BY <1>1, <1>3, <2>1, EntersApart
  <2>3. IdsApart' /\ RowsWhole' /\ op'[o] = r /\ \A p \in SvOp \ {o} : Owns(p)'
    <3>1. ids' \in Nat /\ ids <= ids'
      BY <1>3, <1>5
    <3> QED
      BY <1>1, <1>c, <3>1, QuietStep
  <2>4. /\ \A k \in SvName : reg[k] # ids + 1
        /\ \A c \in SvBranch, k \in SvName : svRow[c][k] # ids + 1
    <3>1. /\ \A k \in SvName : reg[k] <= ids /\ reg[k] \in Nat
          /\ \A c \in SvBranch, k \in SvName : svRow[c][k] <= ids /\ svRow[c][k] \in Nat
      BY FromInv DEF IdsApart
    <3> QED
      BY <1>3, <3>1
  <2>5. AddOwns(o)'
    <3>1. /\ op'[o].at = "mkdir" /\ op'[o].br = b /\ op'[o].name = n /\ op'[o].id = ids + 1 /\ ~op'[o].had
          /\ ids + 1 # 0 /\ ids + 1 <= ids'
      BY <1>3, <1>5, <2>1, <2>3
    <3> QED
      BY <1>1, <1>5, <2>4, <3>1 DEF AddOwns
  <2>6. Owns(o)'
    BY <2>1, <2>3, <2>5, Stages DEF Owns, AtAdd, AtRemove, AtRename
  <2> QED
    BY <1>b, <2>2, <2>3, <2>6 DEF SvIInv, OpsOwn
<1>6. CASE /\ reg[n] # 0 /\ svRow[b][n] = 0 /\ ids' = ids
           /\ r = [op[o] EXCEPT !.at = "mkdir", !.id = reg[n], !.had = TRUE]
  <2>1. /\ r.at = "mkdir" /\ r.br = b /\ r.name = n /\ r.id = reg[n] /\ r.had = TRUE
        /\ "mkdir" \in AtAdd
    BY <1>2, <1>6 DEF OnBranch, Ops, AtAdd
  <2> HIDE DEF r
  <2>2. OpsApart'
    BY <1>1, <1>3, <2>1, EntersApart
  <2>3. IdsApart' /\ RowsWhole' /\ op'[o] = r /\ \A p \in SvOp \ {o} : Owns(p)'
    BY <1>1, <1>3, <1>6, <1>c, QuietStep
  <2>4. AddOwns(o)'
    <3>1. /\ op'[o].at = "mkdir" /\ op'[o].br = b /\ op'[o].name = n /\ op'[o].id = reg[n] /\ op'[o].had
      BY <2>1, <2>3
    <3>2. /\ reg[n] <= ids
          /\ \A k \in SvName : reg[k] = reg[n] => k = n
          /\ \A c \in SvBranch, k \in SvName : svRow[c][k] = reg[n] => k = n
      BY <1>2, <1>6 DEF SvIInv, IdsApart
    <3> QED
      BY <1>1, <1>6, <3>1, <3>2 DEF AddOwns
  <2>5. Owns(o)'
    BY <2>1, <2>3, <2>4, Stages DEF Owns, AtAdd, AtRemove, AtRename
  <2> QED
    BY <1>b, <2>2, <2>3, <2>5 DEF SvIInv, OpsOwn
<1>7. \/ r = NoOp /\ ids' = ids
      \/ /\ reg[n] = 0 /\ ids' = ids + 1
         /\ r = [op[o] EXCEPT !.at = "mkdir", !.id = ids + 1]
      \/ /\ reg[n] # 0 /\ svRow[b][n] = 0 /\ ids' = ids
         /\ r = [op[o] EXCEPT !.at = "mkdir", !.id = reg[n], !.had = TRUE]
  BY DEF AddBegins, SvLeaves, SvIInv, SvTypeOK
<1> QED
  BY <1>4, <1>5, <1>6, <1>7

(* No other operation has to do with the row of an add or of a removal,    *)
(* but a removal on the same row as an add, which cannot be.               *)
LEMMA AddAlone ==
  ASSUME SvIInv, NEW o \in SvOp, op[o].at \in AtAdd, NEW p \in SvOp \ {o}
  PROVE  /\ op[p].at \notin AtRename /\ op[p].at \notin AtAdd
         /\ op[p].at \in AtRemove => <<op[p].br, op[p].name>> # <<op[o].br, op[o].name>>
<1>1. SvTypeOK /\ OpsApart
  BY FromInv
<1>2. op[p].at \notin AtRename /\ op[p].at \notin AtAdd
  BY <1>1, Exclusion
<1>3. ASSUME op[p].at \in AtRemove, op[p].br = op[o].br, op[p].name = op[o].name PROVE FALSE
  <2>1. RemovalOwns(p) /\ AddOwns(o)
    BY <1>3 DEF SvIInv, OpsOwn, Owns
  <2> QED
    BY <1>3, <2>1 DEF RemovalOwns, AddOwns
<1> QED
  BY <1>2, <1>3

LEMMA RemovalAlone ==
  ASSUME SvIInv, NEW o \in SvOp, op[o].at \in AtRemove, NEW p \in SvOp \ {o}
  PROVE  /\ op[p].at \in AtRename => op[p].name # op[o].name /\ op[p].to # op[o].name
         /\ op[p].at \in AtRemove \cup AtAdd => <<op[p].br, op[p].name>> # <<op[o].br, op[o].name>>
<1>1. SvTypeOK /\ OpsApart
  BY FromInv
<1>2. ASSUME op[p].at \in AtRename PROVE op[p].name # op[o].name /\ op[p].to # op[o].name
  <2>1. op[p].name # op[o].name
    BY <1>1, <1>2, Exclusion
  <2>2. RemovalOwns(o) /\ RenameOwns(p)
    BY <1>2 DEF SvIInv, OpsOwn, Owns
  <2> QED
    BY <2>1, <2>2 DEF RemovalOwns, RenameOwns
<1>3. op[p].at \in AtRemove => <<op[p].br, op[p].name>> # <<op[o].br, op[o].name>>
  BY <1>1, Exclusion
<1>4. op[p].at \in AtAdd => <<op[p].br, op[p].name>> # <<op[o].br, op[o].name>>
  BY AddAlone, Stages
<1> QED
  BY <1>2, <1>3, <1>4

LEMMA RenameAlone ==
  ASSUME SvIInv, NEW o \in SvOp, op[o].at \in AtRename, NEW p \in SvOp \ {o}
  PROVE  /\ op[p].at \notin AtRename /\ op[p].at \notin AtAdd
         /\ op[p].at \in AtRemove => op[p].name # op[o].name /\ op[p].name # op[o].to
<1>1. SvTypeOK /\ OpsApart
  BY FromInv
<1> QED
  BY <1>1, Exclusion, RemovalAlone

(* While an add is under way nothing is moving.                            *)
LEMMA NothingMoves ==
  ASSUME SvIInv, NEW o \in SvOp, op[o].at \in AtAdd, NEW b \in SvBranch, NEW n \in SvName
  PROVE  ~Moving(b, n)
BY AddAlone, Stages DEF Moving

LEMMA InvAddMakes ==
  ASSUME SvIInv, NEW o \in SvOp, NEW left \in BOOLEAN,
         EnsureManagedDirs(o) \/ ManagedProvision(o) \/ AddFails(o, left)
  PROVE  SvIInv'
<1> DEFINE b == op[o].br
           n == op[o].name
           i == op[o].id
           r == op'[o]
<1>1. /\ op[o].at \in AtAdd /\ op' = [op EXCEPT ![o] = r]
      /\ UNCHANGED <<reg, svRow, torn, stuck, ids>>
      /\ \/ /\ r = [op[o] EXCEPT !.at = "run"] /\ op[o].at = "mkdir"
            /\ bytes' = [bytes EXCEPT ![b] = @ \cup {i}] /\ cont' = cont
         \/ /\ r = [op[o] EXCEPT !.at = "row"] /\ op[o].at = "run"
            /\ cont[b][n] = 0 /\ cont' = [cont EXCEPT ![b][n] = i] /\ bytes' = bytes
         \/ r = NoOp /\ bytes' = bytes /\ cont' = cont
         \/ r = NoOp /\ bytes' = bytes /\ cont[b][n] = 0 /\ cont' = [cont EXCEPT ![b][n] = IF left THEN i ELSE 0]
  BY DEF EnsureManagedDirs, ManagedProvision, AddFails, SvAt, SvLeaves, keptVars, diskVars, SvIInv, SvTypeOK, AtAdd
<1>2. op[o] \in OnBranch /\ b \in SvBranch /\ n \in SvName
  BY <1>1, OpKinds DEF SvIInv, OnBranch, Ops
<1>3. SvTypeOK /\ OpsApart /\ IdsApart /\ RowsWhole /\ AddOwns(o)
  BY <1>1, FromInv DEF OpsOwn, Owns
<1>4. SvTypeOK'
  BY <1>3, SvTypeAdd
<1>5. /\ r.at = "run" \/ r.at = "row" \/ r = NoOp
      /\ r # NoOp => r.br = b /\ r.name = n /\ r.id = i /\ r.had = op[o].had
  BY <1>1, <1>2 DEF OnBranch, Ops
<1>6. OpsApart'
  <2>1. r.at \notin InBody \/ (r.at \in AtAdd /\ r.br = op[o].br /\ r.name = op[o].name)
    BY <1>5 DEF NoOp, InBody, AtAdd, AtRemove, AtRename
  <2> HIDE DEF r
  <2> QED
    BY <1>1, <1>3, <2>1, StaysApart
<1>7. IdsApart'
  BY <1>1, <1>3 DEF IdsApart
<1>8. /\ \A c \in SvBranch : bytes[c] \subseteq bytes'[c]
      /\ \A c \in SvBranch, k \in SvName : cont'[c][k] = cont[c][k] \/ (c = b /\ k = n /\ cont[c][k] = 0)
  <2>1. bytes \in [SvBranch -> SUBSET (0..MaxId)] /\ cont \in [SvBranch -> [SvName -> 0..MaxId]]
    BY <1>3 DEF SvTypeOK
  <2>2. \A c \in SvBranch : bytes[c] \subseteq bytes'[c]
    <3>1. bytes' = bytes \/ bytes' = [bytes EXCEPT ![b] = @ \cup {i}]
      BY <1>1
    <3> HIDE DEF b, i
    <3> QED
      BY <2>1, <3>1
  <2>3. \A c \in SvBranch, k \in SvName : cont'[c][k] = cont[c][k] \/ (c = b /\ k = n /\ cont[c][k] = 0)
    <3>1. \/ cont' = cont
          \/ cont[b][n] = 0 /\ \E j : cont' = [cont EXCEPT ![b][n] = j]
      BY <1>1
    <3> HIDE DEF b, n
    <3> QED
      BY <1>2, <2>1, <3>1
  <2> QED
    BY <2>2, <2>3
<1>9. RowsWhole'
  <2> SUFFICES ASSUME NEW c \in SvBranch, NEW k \in SvName, svRow[c][k] # 0, <<c, k>> \notin torn
               PROVE  /\ svRow[c][k] \in bytes'[c]
                      /\ <<c, k>> \notin stuck => cont'[c][k] = svRow[c][k]
    BY <1>1 DEF RowsWhole
  <2>1. ~Moving(c, k)
    BY <1>1, NothingMoves
  <2>2. svRow[c][k] \in bytes[c] /\ (<<c, k>> \notin stuck => cont[c][k] = svRow[c][k])
    BY <1>3, <2>1 DEF RowsWhole
  <2> QED
    BY <1>8, <2>2
<1>10. \A p \in SvOp \ {o} : Owns(p)'
  <2> SUFFICES ASSUME NEW p \in SvOp \ {o} PROVE Owns(p)'
    OBVIOUS
  <2>1. op'[p] = op[p] /\ Owns(p) /\ op[p].at \notin AtAdd \cup AtRename
    BY <1>1, AddAlone DEF SvIInv, SvTypeOK, OpsOwn
  <2> QED
    BY <1>1, <2>1 DEF Owns, RemovalOwns
<1>11. Owns(o)'
  <2>1. CASE r = NoOp
    BY <2>1, NoOpOwns
  <2>2. CASE r # NoOp
    <3>1. r.at \in {"run", "row"} /\ r.br = b /\ r.name = n /\ r.id = i /\ r.had = op[o].had
      BY <1>5, <2>2
    <3>2. i \in bytes'[b] /\ (r.at = "row" => cont'[b][n] = i)
      <4>1. bytes \in [SvBranch -> SUBSET (0..MaxId)] /\ cont \in [SvBranch -> [SvName -> 0..MaxId]]
        BY <1>3 DEF SvTypeOK
      <4>2. CASE op[o].at = "mkdir"
        <5>1. bytes' = [bytes EXCEPT ![b] = @ \cup {i}] /\ r.at = "run"
          BY <1>1, <1>2, <2>2, <4>2 DEF OnBranch, Ops
        <5> QED
          BY <1>2, <4>1, <5>1
      <4>3. CASE op[o].at # "mkdir"
        <5>1. bytes' = bytes /\ cont' = [cont EXCEPT ![b][n] = i] /\ i \in bytes[b]
          BY <1>1, <1>3, <2>2, <4>3 DEF AddOwns
        <5> QED
          BY <1>2, <4>1, <5>1
      <4> QED
        BY <4>2, <4>3
    <3> HIDE DEF r
    <3>3. AddOwns(o)'
      BY <1>1, <1>3, <3>1, <3>2 DEF AddOwns, r
    <3> QED
      BY <3>1, <3>3, Stages DEF Owns, AtAdd, AtRemove, AtRename, r
  <2> QED
    BY <2>1, <2>2
<1> QED
  BY <1>4, <1>6, <1>7, <1>9, <1>10, <1>11 DEF SvIInv, OpsOwn

LEMMA InvAddCommits ==
  ASSUME SvIInv, NEW o \in SvOp, AddCommits(o)
  PROVE  SvIInv'
<1> DEFINE b == op[o].br
           n == op[o].name
           i == op[o].id
<1>1. /\ op[o].at = "row" /\ op' = [op EXCEPT ![o] = NoOp] /\ UNCHANGED <<cont, bytes, ids>>
      /\ reg' = IF op[o].had THEN reg ELSE [reg EXCEPT ![n] = i]
      /\ svRow' = [svRow EXCEPT ![b][n] = i]
      /\ torn' = torn \ {<<b, n>>} /\ stuck' = stuck \ {<<b, n>>}
  BY DEF AddCommits, SvLeaves, diskVars
<1>2. op[o] \in OnBranch /\ b \in SvBranch /\ n \in SvName /\ op[o].at \in AtAdd
  BY <1>1, OpKinds DEF SvIInv, OnBranch, Ops, AtAdd
<1>3. SvTypeOK /\ OpsApart /\ IdsApart /\ RowsWhole /\ AddOwns(o)
  BY <1>2, FromInv DEF OpsOwn, Owns
<1>4. SvTypeOK'
  BY <1>3, SvTypeAdd, SvAssumption
<1>5. OpsApart'
  BY <1>1, <1>3, StaysApart DEF NoOp, InBody, AtAdd, AtRemove, AtRename
<1>6. /\ \A c \in SvBranch, k \in SvName : svRow'[c][k] = IF c = b /\ k = n THEN i ELSE svRow[c][k]
      /\ \A k \in SvName : reg'[k] = reg[k] \/ (k = n /\ reg'[k] = i)
  BY <1>1, <1>2, <1>3 DEF SvTypeOK
<1>7. /\ i # 0 /\ i <= ids /\ i \in bytes[b] /\ cont[b][n] = i
      /\ \A k \in SvName : reg[k] = i => k = n
      /\ \A c \in SvBranch, k \in SvName : svRow[c][k] = i => k = n
  BY <1>1, <1>3 DEF AddOwns
<1>8. IdsApart'
  <2> HIDE DEF b, n, i
  <2> QED
    BY <1>1, <1>2, <1>3, <1>6, <1>7 DEF IdsApart
<1>9. RowsWhole'
  <2> SUFFICES ASSUME NEW c \in SvBranch, NEW k \in SvName, svRow'[c][k] # 0, <<c, k>> \notin torn'
               PROVE  /\ svRow'[c][k] \in bytes'[c]
                      /\ <<c, k>> \notin stuck' => cont'[c][k] = svRow'[c][k]
    BY DEF RowsWhole
  <2>1. CASE c = b /\ k = n
    BY <1>1, <1>6, <1>7, <2>1
  <2>2. CASE ~(c = b /\ k = n)
    <3>1. ~Moving(c, k)
      BY <1>2, NothingMoves
    <3>2. svRow[c][k] # 0 /\ <<c, k>> \notin torn /\ (<<c, k>> \notin stuck' => <<c, k>> \notin stuck)
      BY <1>1, <1>6, <2>2
    <3> QED
      BY <1>1, <1>3, <1>6, <2>2, <3>1, <3>2 DEF RowsWhole
  <2> QED
    BY <2>1, <2>2
<1>10. \A p \in SvOp \ {o} : Owns(p)'
  <2> SUFFICES ASSUME NEW p \in SvOp \ {o} PROVE Owns(p)'
    OBVIOUS
  <2>1. op'[p] = op[p] /\ Owns(p) /\ op[p].at \notin AtAdd \cup AtRename
    BY <1>1, <1>2, AddAlone DEF SvIInv, SvTypeOK, OpsOwn
  <2>2. ASSUME op[p].at \in AtRemove PROVE RemovalOwns(p)'
    <3>1. <<op[p].br, op[p].name>> # <<b, n>> /\ RemovalOwns(p) /\ op[p].br \in SvBranch /\ op[p].name \in SvName
      BY <1>2, <1>3, <2>1, <2>2, AddAlone, OpKinds DEF Owns, OnBranch, Ops
    <3>2. reg'[op[p].name] = reg[op[p].name]
      <4>1. CASE op[o].had
        BY <1>1, <4>1
      <4>2. CASE ~op[o].had
        <5>1. reg[n] = 0
          BY <1>3, <4>2 DEF AddOwns
        <5> QED
          BY <1>1, <1>2, <1>3, <3>1, <4>2, <5>1 DEF SvTypeOK, RemovalOwns
      <4> QED
        BY <4>1, <4>2
    <3>3. svRow'[op[p].br][op[p].name] = svRow[op[p].br][op[p].name]
      BY <1>6, <3>1
    <3> QED
      BY <1>1, <2>1, <3>1, <3>2, <3>3 DEF RemovalOwns
  <2> QED
    BY <1>1, <2>1, <2>2 DEF Owns
<1>11. Owns(o)'
  BY <1>1, <1>3, NoOpOwns DEF SvTypeOK
<1> QED
  BY <1>4, <1>5, <1>8, <1>9, <1>10, <1>11 DEF SvIInv, OpsOwn

LEMMA InvRemoveBegins ==
  ASSUME SvIInv, NEW o \in SvOp, RemoveBegins(o)
  PROVE  SvIInv'
<1> DEFINE b == op[o].br
           n == op[o].name
           r == op'[o]
<1>1. /\ op[o].at = "remove?" /\ LockFree(o) /\ op' = [op EXCEPT ![o] = r]
      /\ UNCHANGED <<reg, svRow, cont, torn, stuck, bytes, ids>>
      /\ \/ r = NoOp
         \/ reg[n] # 0 /\ svRow[b][n] # 0 /\ r = [op[o] EXCEPT !.at = "rm", !.id = reg[n]]
  BY DEF RemoveBegins, SvLeaves, keptVars, diskVars, SvIInv, SvTypeOK
<1>2. op[o] \in OnBranch /\ b \in SvBranch /\ n \in SvName
  BY <1>1, OpKinds DEF SvIInv, OnBranch, Ops
<1>3. SvTypeOK /\ OpsApart /\ ids \in Nat /\ ids <= ids
  BY FromInv
<1>4. SvTypeOK'
  BY <1>3, SvTypeRemove, SvAssumption
<1>5. \/ r = NoOp
      \/ /\ reg[n] # 0 /\ svRow[b][n] # 0
         /\ r.at = "rm" /\ r.br = b /\ r.name = n /\ r.id = reg[n]
  BY <1>1, <1>2 DEF OnBranch, Ops
<1>6. Owns(o)'
  <2>1. CASE r = NoOp
    BY <2>1, NoOpOwns
  <2>2. CASE r # NoOp
    <3>1. RemovalOwns(o)'
      BY <1>1, <1>5, <2>2 DEF RemovalOwns
    <3> QED
      BY <1>5, <2>2, <3>1 DEF Owns, AtAdd, AtRemove, AtRename
  <2> QED
    BY <2>1, <2>2
<1>7. r.at \notin InBody \/ (r.at \in AtRemove /\ r.br = b /\ r.name = n)
  BY <1>5 DEF NoOp, InBody, AtAdd, AtRemove, AtRename
<1>8. op[o].at \notin AtRename
  BY <1>1 DEF AtRename
<1> HIDE DEF r
<1>9. OpsApart'
  BY <1>1, <1>3, <1>7, StaysApart, EntersApart
<1>10. \A c \in SvBranch, k \in SvName : Moving(c, k) => Moving(c, k)'
  BY <1>1, <1>3, <1>8, MovingKept
<1>11. IdsApart' /\ RowsWhole' /\ \A p \in SvOp \ {o} : Owns(p)'
  BY <1>1, <1>3, <1>10, QuietStep
<1> QED
  BY <1>4, <1>6, <1>9, <1>11 DEF SvIInv, OpsOwn

(* The removal takes the container, or fails, perhaps having taken it.     *)
LEMMA InvDestroy ==
  ASSUME SvIInv, NEW o \in SvOp, NEW landed \in BOOLEAN, ManagedDestroy(o) \/ RemovalFails(o, landed)
  PROVE  SvIInv'
<1> DEFINE b == op[o].br
           n == op[o].name
           r == op'[o]
<1>1. /\ op[o].at \in AtRemove /\ op' = [op EXCEPT ![o] = r]
      /\ UNCHANGED <<reg, svRow, stuck, bytes, ids>>
      /\ r = NoOp \/ (r = [op[o] EXCEPT !.at = "rmdir"] /\ torn' = torn \cup {<<b, n>>})
      /\ \/ cont' = cont /\ torn' = torn
         \/ cont' = [cont EXCEPT ![b][n] = 0] /\ torn' = torn \cup {<<b, n>>}
  BY DEF ManagedDestroy, RemovalFails, SvAt, SvLeaves, keptVars, SvIInv, SvTypeOK, AtRemove
<1>2. op[o] \in OnBranch /\ b \in SvBranch /\ n \in SvName
  BY <1>1, OpKinds DEF SvIInv, OnBranch, Ops
<1>3. SvTypeOK /\ OpsApart /\ IdsApart /\ RowsWhole /\ RemovalOwns(o)
  BY <1>1, FromInv DEF OpsOwn, Owns
<1>4. SvTypeOK'
  BY <1>3, SvTypeRemove
<1>5. r = NoOp \/ (r.at = "rmdir" /\ r.br = b /\ r.name = n /\ r.id = op[o].id /\ torn' = torn \cup {<<b, n>>})
  BY <1>1, <1>2 DEF OnBranch, Ops
<1>6. OpsApart'
  <2>1. r.at \notin InBody \/ (r.at \in AtRemove /\ r.br = op[o].br /\ r.name = op[o].name)
    BY <1>5 DEF NoOp, InBody, AtAdd, AtRemove, AtRename
  <2> HIDE DEF r
  <2> QED
    BY <1>1, <1>3, <2>1, StaysApart
<1>7. IdsApart'
  BY <1>1, <1>3 DEF IdsApart
<1>8. /\ torn \subseteq torn'
      /\ \A c \in SvBranch, k \in SvName : cont'[c][k] = cont[c][k] \/ (c = b /\ k = n /\ <<c, k>> \in torn')
  <2>1. cont \in [SvBranch -> [SvName -> 0..MaxId]]
    BY <1>3 DEF SvTypeOK
  <2> HIDE DEF b, n
  <2> QED
    BY <1>1, <1>2, <2>1
<1>9. \A c \in SvBranch, k \in SvName : Moving(c, k) => Moving(c, k)'
  <2>1. op[o].at \notin AtRename
    BY <1>1, Stages
  <2> HIDE DEF r
  <2> QED
    BY <1>1, <1>3, <2>1, MovingKept
<1>10. RowsWhole'
  BY <1>1, <1>3, <1>8, <1>9 DEF RowsWhole
<1>11. \A p \in SvOp \ {o} : Owns(p)'
  <2> SUFFICES ASSUME NEW p \in SvOp \ {o} PROVE Owns(p)'
    OBVIOUS
  <2>1. op'[p] = op[p] /\ Owns(p)
    BY <1>1 DEF SvIInv, SvTypeOK, OpsOwn
  <2>2. ASSUME op[p].at \in AtRemove PROVE RemovalOwns(p)'
    BY <1>1, <1>8, <2>1, <2>2 DEF Owns, RemovalOwns
  <2>3. ASSUME op[p].at \in AtAdd PROVE AddOwns(p)'
    <3>1. <<op[p].br, op[p].name>> # <<b, n>> /\ op[p].br \in SvBranch /\ op[p].name \in SvName
      BY <1>1, <1>3, <2>3, RemovalAlone, OpKinds DEF OnBranch, Ops
    <3>2. cont'[op[p].br][op[p].name] = cont[op[p].br][op[p].name] /\ AddOwns(p)
      BY <1>8, <2>1, <2>3, <3>1 DEF Owns
    <3> QED
      BY <1>1, <2>1, <3>2 DEF AddOwns
  <2>4. ASSUME op[p].at \in AtRename PROVE RenameOwns(p)'
    <3>1. op[p].name # n /\ op[p].to # n /\ op[p].name \in SvName /\ op[p].to \in SvName
      BY <1>1, <1>3, <2>4, RemovalAlone, OpKinds DEF OnAll, Ops
    <3>2. \A c \in SvBranch : cont'[c][op[p].name] = cont[c][op[p].name] /\ cont'[c][op[p].to] = cont[c][op[p].to]
      BY <1>8, <3>1
    <3>3. \A c \in SvBranch, k \in SvName : Mars(c, k) => Mars(c, k)'
      BY <1>1, <1>8 DEF Mars
    <3>4. RenameOwns(p)
      BY <2>1, <2>4 DEF Owns
    <3>5. \A k \in SvName : Carriers(k)' = Carriers(k)
      BY <1>1 DEF Carriers
    <3>6. Carriers(op[p].name) \subseteq SvBranch
      BY DEF Carriers
    <3> QED
      BY <1>1, <2>1, <3>1, <3>2, <3>3, <3>4, <3>5, <3>6 DEF RenameOwns
  <2> QED
    BY <2>1, <2>2, <2>3, <2>4 DEF Owns
<1>12. Owns(o)'
  <2>1. CASE r = NoOp
    BY <2>1, NoOpOwns
  <2>2. CASE r # NoOp
    <3>1. RemovalOwns(o)'
      BY <1>1, <1>3, <1>5, <2>2 DEF RemovalOwns
    <3> QED
      BY <1>5, <2>2, <3>1 DEF Owns, AtAdd, AtRemove, AtRename
  <2> QED
    BY <2>1, <2>2
<1> QED
  BY <1>4, <1>6, <1>7, <1>10, <1>11, <1>12 DEF SvIInv, OpsOwn

LEMMA InvRemoveDirectory ==
  ASSUME SvIInv, NEW o \in SvOp, RemoveDirectory(o)
  PROVE  SvIInv'
<1> DEFINE b == op[o].br
           n == op[o].name
           i == op[o].id
           r == op'[o]
<1>1. /\ op[o].at = "rmdir" /\ op' = [op EXCEPT ![o] = r] /\ r = [op[o] EXCEPT !.at = "drop"]
      /\ UNCHANGED <<reg, svRow, cont, torn, stuck, ids>>
      /\ bytes' = [bytes EXCEPT ![b] = @ \ {i}]
  BY DEF RemoveDirectory, SvAt, keptVars, SvIInv, SvTypeOK
<1>2. op[o] \in OnBranch /\ b \in SvBranch /\ n \in SvName /\ op[o].at \in AtRemove
  BY <1>1, OpKinds DEF SvIInv, OnBranch, Ops, AtRemove
<1>3. SvTypeOK /\ OpsApart /\ IdsApart /\ RowsWhole /\ RemovalOwns(o)
  BY <1>2, FromInv DEF OpsOwn, Owns
<1>4. SvTypeOK'
  BY <1>3, SvTypeRemove, SvAssumption
<1>5. r.at = "drop" /\ r.br = b /\ r.name = n /\ r.id = i /\ "drop" \in AtRemove
  BY <1>1, <1>2 DEF OnBranch, Ops, AtRemove
<1>6. svRow[b][n] # 0 /\ reg[n] # 0 /\ i = reg[n] /\ <<b, n>> \in torn
  BY <1>1, <1>3 DEF RemovalOwns
<1>7. Owns(o)'
  <2>1. RemovalOwns(o)'
    BY <1>1, <1>5, <1>6 DEF RemovalOwns
  <2> QED
    BY <1>5, <2>1, Stages DEF Owns, AtRemove
<1>8. /\ \A c \in SvBranch : c # b => bytes'[c] = bytes[c]
      /\ \A j \in bytes[b] : j # i => j \in bytes'[b]
  <2>1. bytes \in [SvBranch -> SUBSET (0..MaxId)]
    BY <1>3 DEF SvTypeOK
  <2> HIDE DEF b, i
  <2> QED
    BY <1>1, <1>2, <2>1
<1> HIDE DEF r
<1>9. OpsApart'
  BY <1>1, <1>2, <1>3, <1>5, StaysApart
<1>10. IdsApart'
  BY <1>1, <1>3 DEF IdsApart
<1>11. \A c \in SvBranch, k \in SvName : Moving(c, k) => Moving(c, k)'
  <2>1. op[o].at \notin AtRename
    BY <1>2, Stages
  <2> QED
    BY <1>1, <1>3, <2>1, MovingKept
<1>12. RowsWhole'
  <2> SUFFICES ASSUME NEW c \in SvBranch, NEW k \in SvName, svRow[c][k] # 0, <<c, k>> \notin torn
               PROVE  svRow[c][k] \in bytes'[c]
    BY <1>1, <1>3, <1>11 DEF RowsWhole
  <2>1. svRow[c][k] \in bytes[c]
    BY <1>3 DEF RowsWhole
  <2>2. c = b => svRow[c][k] # i
    BY <1>2, <1>3, <1>6 DEF IdsApart
  <2> QED
    BY <1>8, <2>1, <2>2
<1>13. \A p \in SvOp \ {o} : Owns(p)'
  <2> SUFFICES ASSUME NEW p \in SvOp \ {o} PROVE Owns(p)'
    OBVIOUS
  <2>1. op'[p] = op[p] /\ Owns(p)
    BY <1>1 DEF SvIInv, SvTypeOK, OpsOwn
  <2>2. ASSUME op[p].at \in AtRemove PROVE RemovalOwns(p)'
    BY <1>1, <2>1, <2>2 DEF Owns, RemovalOwns
  <2>3. ASSUME op[p].at \in AtAdd PROVE AddOwns(p)'
    <3>1. <<op[p].br, op[p].name>> # <<b, n>> /\ op[p].br \in SvBranch /\ AddOwns(p)
      BY <1>2, <1>3, <2>1, <2>3, RemovalAlone, OpKinds DEF OnBranch, Ops, Owns
    <3>2. op[p].br = b => op[p].id # i
      BY <1>2, <1>6, <3>1 DEF AddOwns
    <3>3. op[p].id \in bytes[op[p].br] => op[p].id \in bytes'[op[p].br]
      BY <1>8, <3>1, <3>2
    <3> QED
      BY <1>1, <2>1, <3>1, <3>3 DEF AddOwns
  <2>4. ASSUME op[p].at \in AtRename PROVE RenameOwns(p)'
    BY <1>1, <2>1, <2>4 DEF Owns, RenameOwns, Carriers, Mars
  <2> QED
    BY <2>1, <2>2, <2>3, <2>4 DEF Owns
<1> QED
  BY <1>4, <1>7, <1>9, <1>10, <1>12, <1>13 DEF SvIInv, OpsOwn

LEMMA InvRemoveCommits ==
  ASSUME SvIInv, NEW o \in SvOp, RemoveCommits(o)
  PROVE  SvIInv'
<1> DEFINE b == op[o].br
           n == op[o].name
<1>1. /\ op[o].at = "drop" /\ op' = [op EXCEPT ![o] = NoOp]
      /\ UNCHANGED <<cont, bytes, stuck, ids>>
      /\ svRow' = [svRow EXCEPT ![b][n] = 0] /\ torn' = torn \ {<<b, n>>}
      /\ reg' = IF Carriers(n) \subseteq {b} THEN [reg EXCEPT ![n] = 0] ELSE reg
  BY DEF RemoveCommits, SvLeaves, RetireRegistration, diskVars
<1>2. op[o] \in OnBranch /\ b \in SvBranch /\ n \in SvName /\ op[o].at \in AtRemove
  BY <1>1, OpKinds DEF SvIInv, OnBranch, Ops, AtRemove
<1>3. SvTypeOK /\ OpsApart /\ IdsApart /\ RowsWhole
  BY FromInv
<1>4. SvTypeOK'
  BY <1>3, SvTypeRemove, SvAssumption
<1>5. OpsApart'
  BY <1>1, <1>3, StaysApart DEF NoOp, InBody, AtAdd, AtRemove, AtRename
<1>6. /\ \A c \in SvBranch, k \in SvName : svRow'[c][k] = IF c = b /\ k = n THEN 0 ELSE svRow[c][k]
      /\ \A k \in SvName : reg'[k] = reg[k] \/ (k = n /\ reg'[k] = 0 /\ Carriers(n) \subseteq {b})
      /\ \A c \in SvBranch, k \in SvName : ~(c = b /\ k = n) => (<<c, k>> \in torn <=> <<c, k>> \in torn')
  <2>1. reg \in [SvName -> 0..MaxId] /\ svRow \in [SvBranch -> [SvName -> 0..MaxId]]
    BY <1>3 DEF SvTypeOK
  <2> HIDE DEF b, n
  <2> QED
    BY <1>1, <1>2, <2>1
<1>7. IdsApart'
  <2>1. 0 <= ids
    BY FromInv
  <2> HIDE DEF b, n
  <2> QED
    BY <1>1, <1>3, <1>6, <2>1 DEF IdsApart
<1>8. \A c \in SvBranch, k \in SvName : Moving(c, k) => Moving(c, k)'
  <2>1. op[o].at \notin AtRename
    BY <1>2, Stages
  <2> QED
    BY <1>1, <1>3, <2>1, MovingKept
<1>9. RowsWhole'
  <2> SUFFICES ASSUME NEW c \in SvBranch, NEW k \in SvName, svRow'[c][k] # 0, <<c, k>> \notin torn'
               PROVE  /\ svRow'[c][k] \in bytes'[c]
                      /\ <<c, k>> \notin stuck' /\ ~Moving(c, k)' => cont'[c][k] = svRow'[c][k]
    BY DEF RowsWhole
  <2>1. svRow'[c][k] = svRow[c][k] /\ <<c, k>> \notin torn
    BY <1>6
  <2> QED
    BY <1>1, <1>3, <1>8, <2>1 DEF RowsWhole
<1>10. \A p \in SvOp \ {o} : Owns(p)'
  <2> SUFFICES ASSUME NEW p \in SvOp \ {o} PROVE Owns(p)'
    OBVIOUS
  <2>1. op'[p] = op[p] /\ Owns(p)
    BY <1>1 DEF SvIInv, SvTypeOK, OpsOwn
  <2>2. ASSUME op[p].at \in AtRemove PROVE RemovalOwns(p)'
    <3>1. /\ <<op[p].br, op[p].name>> # <<b, n>> /\ op[p].br \in SvBranch /\ op[p].name \in SvName
          /\ RemovalOwns(p)
      BY <1>2, <1>3, <2>1, <2>2, RemovalAlone, OpKinds DEF OnBranch, Ops, Owns
    <3>2. reg'[op[p].name] = reg[op[p].name]
      <4>1. op[p].name = n => op[p].br \in Carriers(n) /\ op[p].br # b
        BY <3>1 DEF RemovalOwns, Carriers
      <4> QED
        BY <1>6, <3>1, <4>1
    <3> QED
      BY <1>6, <2>1, <3>1, <3>2 DEF RemovalOwns
  <2>3. ASSUME op[p].at \in AtAdd PROVE AddOwns(p)'
    <3>1. AddOwns(p) /\ op[p].br \in SvBranch /\ op[p].name \in SvName /\ op[p].id # 0
      BY <1>3, <2>1, <2>3, OpKinds DEF OnBranch, Ops, Owns, AddOwns
    <3>2. /\ \A k \in SvName : reg'[k] = reg[k] \/ reg'[k] = 0
          /\ \A c \in SvBranch, k \in SvName : svRow'[c][k] = svRow[c][k] \/ svRow'[c][k] = 0
      BY <1>6
    <3> HIDE DEF b, n
    <3> QED
      BY <1>1, <2>1, <3>1, <3>2 DEF AddOwns
  <2>4. ASSUME op[p].at \in AtRename PROVE RenameOwns(p)'
    <3>1. /\ op[p].name # n /\ op[p].to # n /\ op[p].name \in SvName /\ op[p].to \in SvName
          /\ RenameOwns(p)
      BY <1>2, <1>3, <2>1, <2>4, RemovalAlone, OpKinds DEF OnAll, Ops, Owns
    <3>2. reg'[op[p].name] = reg[op[p].name] /\ reg'[op[p].to] = reg[op[p].to]
      BY <1>6, <3>1
    <3>3. Carriers(op[p].name)' = Carriers(op[p].name) /\ Carriers(op[p].name) \subseteq SvBranch
      BY <1>6, <2>1, <3>1 DEF Carriers
    <3>4. \A c \in SvBranch :
            /\ Mars(c, op[p].name)' = Mars(c, op[p].name) /\ Mars(c, op[p].to)' = Mars(c, op[p].to)
            /\ svRow'[c][op[p].name] = svRow[c][op[p].name] /\ svRow'[c][op[p].to] = svRow[c][op[p].to]
      BY <1>1, <1>6, <2>1, <3>1 DEF Mars
    <3> QED
      BY <1>1, <2>1, <3>1, <3>2, <3>3, <3>4 DEF RenameOwns
  <2> QED
    BY <2>1, <2>2, <2>3, <2>4 DEF Owns
<1>11. Owns(o)'
  BY <1>1, <1>3, NoOpOwns DEF SvTypeOK
<1> QED
  BY <1>4, <1>5, <1>7, <1>9, <1>10, <1>11 DEF SvIInv, OpsOwn

LEMMA InvRenameBegins ==
  ASSUME SvIInv, NEW o \in SvOp, RenameBegins(o)
  PROVE  SvIInv'
<1> DEFINE n == op[o].name
           r == op'[o]
<1>1. /\ op[o].at = "rename?" /\ LockFree(o) /\ op' = [op EXCEPT ![o] = r]
      /\ UNCHANGED <<reg, svRow, cont, torn, stuck, bytes, ids>>
      /\ \/ r = NoOp
         \/ reg[n] # 0 /\ reg[op[o].to] = 0 /\ r = [op[o] EXCEPT !.at = "move", !.todo = Carriers(n)]
  BY DEF RenameBegins, SvLeaves, keptVars, diskVars, SvIInv, SvTypeOK
<1>2. op[o] \in OnAll
  BY <1>1, OpKinds DEF SvIInv
<1>3. SvTypeOK /\ OpsApart /\ ids \in Nat /\ ids <= ids /\ n # op[o].to /\ op[o].done = {}
  BY <1>1, FromInv DEF OpsOwn, Owns
<1>4. SvTypeOK'
  BY <1>3, SvTypeRename, SvAssumption
<1>5. \/ r = NoOp
      \/ /\ reg[n] # 0 /\ reg[op[o].to] = 0
         /\ r.at = "move" /\ r.br = op[o].br /\ r.name = n /\ r.to = op[o].to /\ r.done = {} /\ r.todo = Carriers(n)
  BY <1>1, <1>2, <1>3 DEF OnAll, Ops
<1>6. Owns(o)'
  <2>1. CASE r = NoOp
    BY <2>1, NoOpOwns
  <2>2. CASE r # NoOp
    <3>1. \A k \in SvName : Carriers(k)' = Carriers(k)
      BY <1>1 DEF Carriers
    <3>2. RenameOwns(o)'
      BY <1>1, <1>2, <1>3, <1>5, <2>2, <3>1 DEF RenameOwns, OnAll, Ops
    <3> QED
      BY <1>5, <2>2, <3>2 DEF Owns, AtAdd, AtRemove, AtRename
  <2> QED
    BY <2>1, <2>2
<1>7. r.at \notin InBody \/ (r.at \in AtRename /\ r.br = op[o].br /\ r.name = n)
  BY <1>5 DEF NoOp, InBody, AtAdd, AtRemove, AtRename
<1> HIDE DEF r
<1>8. OpsApart'
  BY <1>1, <1>3, <1>7, StaysApart, EntersApart
<1>9. \A c \in SvBranch, k \in SvName : Moving(c, k) => Moving(c, k)'
  BY <1>1, <1>3, MovingKept
<1>10. IdsApart' /\ RowsWhole' /\ \A p \in SvOp \ {o} : Owns(p)'
  BY <1>1, <1>3, <1>9, QuietStep
<1> QED
  BY <1>4, <1>6, <1>8, <1>10 DEF SvIInv, OpsOwn

(* A rename moves the container of one row, whose name is then free.       *)
LEMMA MovedContainers ==
  ASSUME SvTypeOK, NEW b \in SvBranch, NEW n \in SvName, NEW m \in SvName, n # m, cont' = Moved(b, n, m)
  PROVE  /\ \A c \in SvBranch, k \in SvName : ~(c = b /\ k \in {n, m}) => cont'[c][k] = cont[c][k]
         /\ cont'[b][n] = 0 /\ cont'[b][m] = cont[b][n]
<1>1. cont \in [SvBranch -> [SvName -> 0..MaxId]]
  BY DEF SvTypeOK
<1>2. cont' = [cont EXCEPT ![b] = [cont[b] EXCEPT ![n] = 0, ![m] = cont[b][n]]]
  BY <1>1 DEF Moved
<1> QED
  BY <1>1, <1>2

(* A row under a name that no container has is no row, or not clear.       *)
LEMMA NameFree ==
  ASSUME SvIInv, NEW o \in SvOp, op[o].at \in AtRename, NEW b \in SvBranch, NEW k \in SvName,
         cont[b][k] = 0, k # op[o].name \/ b \notin op[o].done
  PROVE  svRow[b][k] = 0 \/ Mars(b, k)
<1>1. ~Moving(b, k)
  BY RenameAlone DEF Moving
<1> QED
  BY <1>1, FromInv DEF RowsWhole, Mars

(* What the steps of a rename that touch no record have in common.         *)
LEMMA RenameStep ==
  ASSUME SvIInv, NEW o \in SvOp, op[o].at \in AtRename, NEW r, op' = [op EXCEPT ![o] = r],
         r.at \in AtRename, r.name = op[o].name, r.br = op[o].br,
         UNCHANGED <<reg, svRow, torn, bytes, ids>>, stuck \subseteq stuck'
  PROVE  /\ OpsApart' /\ IdsApart' /\ \A p \in SvOp \ {o} : Owns(p)'
         /\ op'[o] = r
         /\ \A c \in SvBranch, k \in SvName : Moving(c, k)' <=> (k = op[o].name /\ c \in r.done)
         /\ \A c \in SvBranch, k \in SvName : Moving(c, k) <=> (k = op[o].name /\ c \in op[o].done)
         /\ \A c \in SvBranch, k \in SvName : Mars(c, k) => Mars(c, k)'
         /\ \A k \in SvName : Carriers(k)' = Carriers(k)
<1>1. op'[o] = r /\ \A p \in SvOp \ {o} : op'[p] = op[p]
  BY DEF SvIInv, SvTypeOK
<1>2. SvTypeOK /\ OpsApart /\ IdsApart
  BY FromInv
<1>3. OpsApart'
  BY <1>2, StaysApart
<1>4. IdsApart'
  BY <1>2 DEF IdsApart
<1>5. \A p \in SvOp \ {o} : op[p].at \notin AtAdd \cup AtRename
  BY RenameAlone
<1>6. \A p \in SvOp \ {o} : Owns(p)'
  <2> SUFFICES ASSUME NEW p \in SvOp \ {o} PROVE Owns(p)'
    OBVIOUS
  <2>1. op'[p] = op[p] /\ Owns(p) /\ op[p].at \notin AtAdd \cup AtRename
    BY <1>1, <1>5 DEF SvIInv, OpsOwn
  <2> QED
    BY <2>1 DEF Owns, RemovalOwns
<1>7. /\ \A c \in SvBranch, k \in SvName : Moving(c, k) <=> (k = op[o].name /\ c \in op[o].done)
      /\ \A c \in SvBranch, k \in SvName : Moving(c, k)' <=> (k = op[o].name /\ c \in r.done)
  BY <1>1, <1>5 DEF Moving
<1>8. /\ \A c \in SvBranch, k \in SvName : Mars(c, k) => Mars(c, k)'
      /\ \A k \in SvName : Carriers(k)' = Carriers(k)
  BY DEF Mars, Carriers
<1> QED
  BY <1>1, <1>3, <1>4, <1>6, <1>7, <1>8

LEMMA InvRenameContainer ==
  ASSUME SvIInv, NEW o \in SvOp, NEW b \in SvBranch, RenameContainer(o, b)
  PROVE  SvIInv'
<1> DEFINE n == op[o].name
           m == op[o].to
           r == op'[o]
<1>1. /\ op[o].at = "move" /\ op' = [op EXCEPT ![o] = r] /\ b \in op[o].todo
      /\ UNCHANGED <<reg, svRow, torn, stuck, bytes, ids>>
      /\ \/ /\ cont[b][m] = 0 /\ cont' = Moved(b, n, m)
            /\ r = [op[o] EXCEPT !.todo = @ \ {b}, !.done = @ \cup {b}]
         \/ /\ cont[b][n] = 0 /\ cont' = cont
            /\ r = [op[o] EXCEPT !.todo = @ \ {b}]
  BY DEF RenameContainer, RenameNeeded, keptVars, SvIInv, SvTypeOK
<1>2. op[o] \in OnAll /\ n \in SvName /\ m \in SvName /\ op[o].at \in AtRename
  BY <1>1, OpKinds DEF SvIInv, OnAll, Ops, AtRename
<1>3. SvTypeOK /\ RowsWhole /\ RenameOwns(o) /\ n # m
  BY <1>2, FromInv DEF OpsOwn, Owns, RenameOwns
<1>4. SvTypeOK'
  BY <1>3, SvTypeRename, SvAssumption
<1>5. /\ r.at = "move" /\ r.br = op[o].br /\ r.name = n /\ r.to = m /\ r.todo = op[o].todo \ {b}
      /\ \/ /\ cont[b][m] = 0 /\ cont' = Moved(b, n, m) /\ r.done = op[o].done \cup {b}
         \/ cont[b][n] = 0 /\ cont' = cont /\ r.done = op[o].done
  BY <1>1, <1>2 DEF OnAll, Ops
<1> HIDE DEF r
<1>6. /\ OpsApart' /\ IdsApart' /\ \A p \in SvOp \ {o} : Owns(p)'
      /\ op'[o] = r
      /\ \A c \in SvBranch, k \in SvName : Moving(c, k)' <=> (k = n /\ c \in r.done)
      /\ \A c \in SvBranch, k \in SvName : Moving(c, k) <=> (k = n /\ c \in op[o].done)
      /\ \A c \in SvBranch, k \in SvName : Mars(c, k)' = Mars(c, k)
      /\ \A k \in SvName : Carriers(k)' = Carriers(k)
  <2>1. r.at \in AtRename /\ stuck \subseteq stuck'
    BY <1>1, <1>5 DEF AtRename
  <2>2. \A c \in SvBranch, k \in SvName : Mars(c, k)' = Mars(c, k)
    BY <1>1 DEF Mars
  <2> QED
    BY <1>1, <1>2, <1>5, <2>1, <2>2, RenameStep
<1>7. b \notin op[o].done /\ b \in Carriers(n)
  BY <1>1, <1>3 DEF RenameOwns
<1>8. RowsWhole' /\ RenameOwns(o)'
  <2>1. CASE cont[b][m] = 0 /\ cont' = Moved(b, n, m) /\ r.done = op[o].done \cup {b}
    <3>1. /\ \A c \in SvBranch, k \in SvName : ~(c = b /\ k \in {n, m}) => cont'[c][k] = cont[c][k]
          /\ cont'[b][n] = 0 /\ cont'[b][m] = cont[b][n]
      BY <1>2, <1>3, <2>1, MovedContainers
    <3>2. svRow[b][m] = 0 \/ Mars(b, m)
      BY <1>2, <1>3, <2>1, NameFree
    <3>3. Mars(b, n) \/ cont[b][n] = svRow[b][n]
      BY <1>2, <1>3, <1>6, <1>7 DEF RowsWhole, Mars, Carriers
    <3>4. RowsWhole'
      <4> SUFFICES ASSUME NEW c \in SvBranch, NEW k \in SvName, svRow[c][k] # 0, <<c, k>> \notin torn
                   PROVE  /\ svRow[c][k] \in bytes[c]
                          /\ <<c, k>> \notin stuck /\ ~Moving(c, k)' => cont'[c][k] = svRow[c][k]
        BY <1>1 DEF RowsWhole
      <4>1. CASE c = b /\ k = n
        BY <1>3, <1>6, <2>1, <4>1 DEF RowsWhole
      <4>2. CASE c = b /\ k = m
        BY <1>3, <3>2, <4>2 DEF RowsWhole, Mars
      <4>3. CASE ~(c = b /\ k \in {n, m})
        BY <1>3, <1>6, <2>1, <3>1, <4>3 DEF RowsWhole
      <4> QED
        BY <4>1, <4>2, <4>3
    <3>5. RenameOwns(o)'
      <4>1. \A c \in r.done : svRow[c][m] = 0 \/ Mars(c, m)
        BY <1>3, <2>1, <3>2 DEF RenameOwns
      <4>2. \A c \in r.done : Mars(c, n) \/ cont'[c][m] = svRow[c][n]
        BY <1>2, <1>3, <1>7, <2>1, <3>1, <3>3 DEF RenameOwns, Carriers
      <4>3. \A c \in Carriers(n) \ r.todo : cont'[c][n] = 0
        BY <1>1, <1>2, <1>3, <1>5, <3>1 DEF RenameOwns, Carriers
      <4>4. /\ r.todo \subseteq Carriers(n) /\ r.done \subseteq Carriers(n) /\ r.todo \cap r.done = {}
            /\ r.done \subseteq SvBranch
        BY <1>3, <1>5, <1>7, <2>1 DEF RenameOwns, Carriers
      <4>5. n # m /\ reg[n] # 0 /\ reg[m] = 0
        BY <1>3 DEF RenameOwns
      <4> HIDE DEF n, m
      <4> QED
        BY <1>1, <1>2, <1>5, <1>6, <4>1, <4>2, <4>3, <4>4, <4>5 DEF RenameOwns
    <3> QED
      BY <3>4, <3>5
  <2>2. CASE cont[b][n] = 0 /\ cont' = cont /\ r.done = op[o].done
    <3>1. RowsWhole'
      BY <1>1, <1>3, <1>6, <2>2 DEF RowsWhole
    <3>2. \A c \in Carriers(n) \ r.todo : cont[c][n] = 0
      BY <1>1, <1>3, <1>5, <2>2 DEF RenameOwns
    <3>3. /\ r.todo \subseteq Carriers(n) /\ r.done \subseteq Carriers(n) /\ r.todo \cap r.done = {}
          /\ r.done \subseteq SvBranch /\ n # m /\ reg[n] # 0 /\ reg[m] = 0
          /\ \A c \in r.done : (svRow[c][m] = 0 \/ Mars(c, m)) /\ (Mars(c, n) \/ cont[c][m] = svRow[c][n])
      BY <1>3, <1>5, <2>2 DEF RenameOwns, Carriers
    <3>4. RenameOwns(o)'
      <4> HIDE DEF n, m
      <4> QED
        BY <1>1, <1>2, <1>5, <1>6, <2>2, <3>2, <3>3 DEF RenameOwns
    <3> QED
      BY <3>1, <3>4
  <2> QED
    BY <1>5, <2>1, <2>2
<1>9. Owns(o)'
  BY <1>5, <1>6, <1>8 DEF Owns, AtAdd, AtRemove, AtRename
<1> QED
  BY <1>4, <1>6, <1>8, <1>9 DEF SvIInv, OpsOwn

(* A rename fails on a branch, perhaps after it was done.                  *)
LEMMA InvRenameFails ==
  ASSUME SvIInv, NEW o \in SvOp, NEW b \in SvBranch, NEW landed \in BOOLEAN, RenameFails(o, b, landed)
  PROVE  SvIInv'
<1> DEFINE n == op[o].name
           m == op[o].to
           r == op'[o]
<1>1. /\ op[o].at = "move" /\ op' = [op EXCEPT ![o] = r] /\ b \in op[o].todo
      /\ UNCHANGED <<reg, svRow, torn, bytes, ids>> /\ r = [op[o] EXCEPT !.at = "undo"]
      /\ \/ cont[b][m] = 0 /\ cont' = Moved(b, n, m) /\ stuck' = stuck \cup {<<b, n>>}
         \/ cont' = cont /\ stuck' = stuck
  BY DEF RenameFails, SvAt, keptVars, SvIInv, SvTypeOK
<1>2. op[o] \in OnAll /\ n \in SvName /\ m \in SvName /\ op[o].at \in AtRename
  BY <1>1, OpKinds DEF SvIInv, OnAll, Ops, AtRename
<1>3. SvTypeOK /\ RowsWhole /\ RenameOwns(o) /\ n # m
  BY <1>2, FromInv DEF OpsOwn, Owns, RenameOwns
<1>4. SvTypeOK'
  BY <1>3, SvTypeRename
<1>5. r.at = "undo" /\ r.br = op[o].br /\ r.name = n /\ r.to = m /\ r.todo = op[o].todo /\ r.done = op[o].done
  BY <1>1, <1>2 DEF OnAll, Ops
<1> HIDE DEF r
<1>6. /\ OpsApart' /\ IdsApart' /\ \A p \in SvOp \ {o} : Owns(p)'
      /\ op'[o] = r
      /\ \A c \in SvBranch, k \in SvName : Moving(c, k)' <=> (k = n /\ c \in r.done)
      /\ \A c \in SvBranch, k \in SvName : Moving(c, k) <=> (k = n /\ c \in op[o].done)
      /\ \A c \in SvBranch, k \in SvName : Mars(c, k) => Mars(c, k)'
      /\ \A k \in SvName : Carriers(k)' = Carriers(k)
  <2>1. r.at \in AtRename /\ stuck \subseteq stuck'
    BY <1>1, <1>5 DEF AtRename
  <2>2. op' = [op EXCEPT ![o] = r] /\ UNCHANGED <<reg, svRow, torn, bytes, ids>>
    BY <1>1
  <2> QED
    BY <1>2, <1>5, <2>1, <2>2, RenameStep
<1>7. b \notin op[o].done
  BY <1>1, <1>3 DEF RenameOwns
<1>8. /\ op[o].done \subseteq Carriers(n) /\ op[o].todo \subseteq Carriers(n) /\ op[o].todo \cap op[o].done = {}
      /\ Carriers(n) \subseteq SvBranch /\ reg[n] # 0 /\ reg[m] = 0
      /\ \A c \in op[o].done : (svRow[c][m] = 0 \/ Mars(c, m)) /\ (Mars(c, n) \/ cont[c][m] = svRow[c][n])
  BY <1>3 DEF RenameOwns, Carriers
<1>9. RowsWhole' /\ \A c \in op[o].done : cont'[c][m] = cont[c][m]
  <2>1. CASE cont[b][m] = 0 /\ cont' = Moved(b, n, m) /\ stuck' = stuck \cup {<<b, n>>}
    <3>1. \A c \in SvBranch, k \in SvName : ~(c = b /\ k \in {n, m}) => cont'[c][k] = cont[c][k]
      BY <1>2, <1>3, <2>1, MovedContainers
    <3>2. svRow[b][m] = 0 \/ Mars(b, m)
      BY <1>2, <1>3, <2>1, NameFree
    <3>3. RowsWhole'
      <4> SUFFICES ASSUME NEW c \in SvBranch, NEW k \in SvName, svRow[c][k] # 0, <<c, k>> \notin torn
                   PROVE  /\ svRow[c][k] \in bytes[c]
                          /\ <<c, k>> \notin stuck' /\ ~Moving(c, k)' => cont'[c][k] = svRow[c][k]
        BY <1>1 DEF RowsWhole
      <4>1. CASE c = b /\ k = n
        BY <1>3, <2>1, <4>1 DEF RowsWhole
      <4>2. CASE c = b /\ k = m
        BY <1>3, <2>1, <3>2, <4>2 DEF RowsWhole, Mars
      <4>3. CASE ~(c = b /\ k \in {n, m})
        BY <1>3, <1>5, <1>6, <2>1, <3>1, <4>3 DEF RowsWhole
      <4> QED
        BY <4>1, <4>2, <4>3
    <3> QED
      BY <1>2, <1>7, <1>8, <3>1, <3>3
  <2>2. CASE cont' = cont /\ stuck' = stuck
    BY <1>1, <1>3, <1>5, <1>6, <2>2 DEF RowsWhole
  <2> QED
    BY <1>1, <2>1, <2>2
<1>10. RenameOwns(o)'
  <2>1. \A c \in r.done : (svRow[c][m] = 0 \/ Mars(c, m)') /\ (Mars(c, n)' \/ cont'[c][m] = svRow[c][n])
    BY <1>2, <1>5, <1>6, <1>8, <1>9
  <2>2. UNCHANGED <<reg, svRow>> /\ Carriers(n)' = Carriers(n)
    BY <1>1, <1>2, <1>5, <1>6
  <2>3. op'[o].name = n /\ op'[o].to = m /\ op'[o].todo = op[o].todo /\ op'[o].done = op[o].done /\ op'[o].at = "undo"
    BY <1>5, <1>6
  <2> QED
    BY <1>3, <1>5, <1>8, <2>1, <2>2, <2>3 DEF RenameOwns
<1>11. Owns(o)'
  BY <1>5, <1>6, <1>10 DEF Owns, AtAdd, AtRemove, AtRename
<1> QED
  BY <1>4, <1>6, <1>9, <1>11 DEF SvIInv, OpsOwn

(* Undoing it: the container goes back, or its row is noted.               *)
LEMMA InvUndo ==
  ASSUME SvIInv, NEW o \in SvOp, NEW b \in SvBranch, UndoRename(o, b) \/ UndoFails(o, b)
  PROVE  SvIInv'
<1> DEFINE n == op[o].name
           m == op[o].to
           r == op'[o]
<1>1. /\ op[o].at = "undo" /\ op' = [op EXCEPT ![o] = r] /\ b \in op[o].done
      /\ UNCHANGED <<reg, svRow, torn, bytes, ids>> /\ r = [op[o] EXCEPT !.done = @ \ {b}]
      /\ \/ cont' = Moved(b, m, n) /\ stuck' = stuck
         \/ cont' = cont /\ stuck' = stuck \cup {<<b, n>>}
  BY DEF UndoRename, UndoFails, keptVars, diskVars, SvIInv, SvTypeOK
<1>2. op[o] \in OnAll /\ n \in SvName /\ m \in SvName /\ op[o].at \in AtRename
  BY <1>1, OpKinds DEF SvIInv, OnAll, Ops, AtRename
<1>3. SvTypeOK /\ RowsWhole /\ RenameOwns(o) /\ n # m
  BY <1>2, FromInv DEF OpsOwn, Owns, RenameOwns
<1>4. SvTypeOK'
  BY <1>3, SvTypeRename, SvAssumption
<1>5. r.at = "undo" /\ r.br = op[o].br /\ r.name = n /\ r.to = m /\ r.todo = op[o].todo /\ r.done = op[o].done \ {b}
  BY <1>1, <1>2 DEF OnAll, Ops
<1> HIDE DEF r
<1>6. /\ OpsApart' /\ IdsApart' /\ \A p \in SvOp \ {o} : Owns(p)'
      /\ op'[o] = r
      /\ \A c \in SvBranch, k \in SvName : Moving(c, k)' <=> (k = n /\ c \in r.done)
      /\ \A c \in SvBranch, k \in SvName : Moving(c, k) <=> (k = n /\ c \in op[o].done)
      /\ \A c \in SvBranch, k \in SvName : Mars(c, k) => Mars(c, k)'
      /\ \A k \in SvName : Carriers(k)' = Carriers(k)
  <2>1. r.at \in AtRename /\ stuck \subseteq stuck'
    BY <1>1, <1>5 DEF AtRename
  <2>2. op' = [op EXCEPT ![o] = r] /\ UNCHANGED <<reg, svRow, torn, bytes, ids>>
    BY <1>1
  <2> QED
    BY <1>2, <1>5, <2>1, <2>2, RenameStep
<1>7. /\ op[o].done \subseteq Carriers(n) /\ op[o].todo \subseteq Carriers(n) /\ op[o].todo \cap op[o].done = {}
      /\ Carriers(n) \subseteq SvBranch /\ reg[n] # 0 /\ reg[m] = 0
      /\ \A c \in op[o].done : (svRow[c][m] = 0 \/ Mars(c, m)) /\ (Mars(c, n) \/ cont[c][m] = svRow[c][n])
  BY <1>3 DEF RenameOwns, Carriers
<1>8. RowsWhole' /\ \A c \in r.done : cont'[c][m] = cont[c][m]
  <2>1. CASE cont' = Moved(b, m, n) /\ stuck' = stuck
    <3>1. /\ \A c \in SvBranch, k \in SvName : ~(c = b /\ k \in {n, m}) => cont'[c][k] = cont[c][k]
          /\ cont'[b][n] = cont[b][m]
      BY <1>2, <1>3, <2>1, MovedContainers
    <3>2. /\ svRow[b][m] = 0 \/ Mars(b, m)
          /\ Mars(b, n) \/ cont[b][m] = svRow[b][n]
      BY <1>1, <1>7
    <3>3. RowsWhole'
      <4> SUFFICES ASSUME NEW c \in SvBranch, NEW k \in SvName, svRow[c][k] # 0, <<c, k>> \notin torn
                   PROVE  /\ svRow[c][k] \in bytes[c]
                          /\ <<c, k>> \notin stuck /\ ~Moving(c, k)' => cont'[c][k] = svRow[c][k]
        BY <1>1, <2>1 DEF RowsWhole
      <4>1. CASE c = b /\ k = n
        BY <1>3, <3>1, <3>2, <4>1 DEF RowsWhole, Mars
      <4>2. CASE c = b /\ k = m
        BY <1>3, <3>2, <4>2 DEF RowsWhole, Mars
      <4>3. CASE ~(c = b /\ k \in {n, m})
        BY <1>3, <1>5, <1>6, <3>1, <4>3 DEF RowsWhole
      <4> QED
        BY <4>1, <4>2, <4>3
    <3> QED
      BY <1>2, <1>5, <1>7, <3>1, <3>3
  <2>2. CASE cont' = cont /\ stuck' = stuck \cup {<<b, n>>}
    BY <1>1, <1>3, <1>5, <1>6, <2>2 DEF RowsWhole
  <2> QED
    BY <1>1, <2>1, <2>2
<1>9. RenameOwns(o)'
  <2>1. \A c \in r.done : (svRow[c][m] = 0 \/ Mars(c, m)') /\ (Mars(c, n)' \/ cont'[c][m] = svRow[c][n])
    BY <1>2, <1>5, <1>6, <1>7, <1>8
  <2>2. r.todo \subseteq Carriers(n) /\ r.done \subseteq Carriers(n) /\ r.todo \cap r.done = {} /\ n # m
    BY <1>3, <1>5, <1>7
  <2>3. UNCHANGED <<reg, svRow>> /\ Carriers(n)' = Carriers(n)
    BY <1>1, <1>2, <1>5, <1>6
  <2>4. op'[o].name = n /\ op'[o].to = m /\ op'[o].todo = r.todo /\ op'[o].done = r.done /\ op'[o].at = "undo"
    BY <1>5, <1>6
  <2> QED
    BY <1>7, <2>1, <2>2, <2>3, <2>4 DEF RenameOwns
<1>10. Owns(o)'
  BY <1>5, <1>6, <1>9 DEF Owns, AtAdd, AtRemove, AtRename
<1> QED
  BY <1>4, <1>6, <1>8, <1>10 DEF SvIInv, OpsOwn

LEMMA InvRenameFailure ==
  ASSUME SvIInv, NEW o \in SvOp, RenameFailure(o)
  PROVE  SvIInv'
<1>1. /\ op[o].at = "undo" /\ op[o].done = {} /\ op' = [op EXCEPT ![o] = NoOp]
      /\ UNCHANGED <<reg, svRow, cont, torn, stuck, bytes, ids>>
  BY DEF RenameFailure, SvLeaves, keptVars, diskVars
<1>2. SvTypeOK /\ OpsApart /\ ids \in Nat /\ ids <= ids
  BY FromInv
<1>3. SvTypeOK'
  BY <1>2, SvTypeRename, SvAssumption
<1>4. OpsApart'
  BY <1>1, <1>2, StaysApart DEF NoOp, InBody, AtAdd, AtRemove, AtRename
<1>5. \A c \in SvBranch, k \in SvName : Moving(c, k) => Moving(c, k)'
  BY <1>1, <1>2, MovingKept
<1>6. IdsApart' /\ RowsWhole' /\ op'[o] = NoOp /\ \A p \in SvOp \ {o} : Owns(p)'
  BY <1>1, <1>2, <1>5, QuietStep
<1>7. Owns(o)'
  BY <1>6, NoOpOwns
<1> QED
  BY <1>3, <1>4, <1>6, <1>7 DEF SvIInv, OpsOwn

(* Where a rename commits, no container of its rows is left under the old  *)
(* name, and each that is not marred stands under the new one.             *)
LEMMA AllMoved ==
  ASSUME SvIInv, NEW o \in SvOp, op[o].at = "move", op[o].todo = {}, NEW c \in Carriers(op[o].name)
  PROVE  /\ cont[c][op[o].name] = 0
         /\ Mars(c, op[o].name) \/ cont[c][op[o].to] = svRow[c][op[o].name]
<1>1. op[o].at \in AtRename /\ op[o].name \in SvName /\ c \in SvBranch /\ svRow[c][op[o].name] # 0
  BY OpKinds DEF SvIInv, OnAll, Ops, AtRename, Carriers
<1>2. RenameOwns(o)
  BY <1>1 DEF SvIInv, OpsOwn, Owns
<1>3. cont[c][op[o].name] = 0
  BY <1>2 DEF RenameOwns
<1>4. CASE c \in op[o].done
  BY <1>2, <1>3, <1>4 DEF RenameOwns
<1>5. CASE c \notin op[o].done
  BY <1>1, <1>3, <1>5, NameFree
<1> QED
  BY <1>3, <1>4, <1>5

LEMMA InvRenameCommits ==
  ASSUME SvIInv, NEW o \in SvOp, RenameCommits(o)
  PROVE  SvIInv'
<1> DEFINE n == op[o].name
           m == op[o].to
<1>1. /\ op[o].at = "move" /\ op[o].todo = {} /\ op' = [op EXCEPT ![o] = NoOp]
      /\ UNCHANGED <<cont, bytes, ids>>
      /\ reg' = [reg EXCEPT ![m] = reg[n], ![n] = 0]
      /\ svRow' = [b \in SvBranch |-> IF svRow[b][n] = 0 THEN svRow[b]
                                      ELSE [svRow[b] EXCEPT ![m] = svRow[b][n], ![n] = 0]]
      /\ torn' = Renamed(torn, n, m)
      /\ stuck' = Renamed(stuck, n, m) \ {r \in Carriers(n) \X {m} : cont[r[1]][m] = svRow[r[1]][n]}
  BY DEF RenameCommits, AllRenamed, SvLeaves, diskVars
<1>2. n \in SvName /\ m \in SvName /\ op[o].at \in AtRename
  BY <1>1, OpKinds DEF SvIInv, OnAll, Ops, AtRename
<1>3. SvTypeOK /\ OpsApart /\ IdsApart /\ RowsWhole /\ n # m /\ reg[n] # 0 /\ reg[m] = 0
  BY <1>2, FromInv DEF OpsOwn, Owns, RenameOwns
<1>4. SvTypeOK'
  BY <1>3, SvTypeRename, SvAssumption
<1>5. OpsApart'
  BY <1>1, <1>3, StaysApart DEF NoOp, InBody, AtAdd, AtRemove, AtRename
<1>6. /\ reg'[n] = 0 /\ reg'[m] = reg[n] /\ \A k \in SvName \ {n, m} : reg'[k] = reg[k]
      /\ \A c \in SvBranch :
           /\ svRow'[c][n] = 0 /\ svRow'[c][m] = IF svRow[c][n] = 0 THEN svRow[c][m] ELSE svRow[c][n]
           /\ \A k \in SvName \ {n, m} : svRow'[c][k] = svRow[c][k]
  <2>1. reg \in [SvName -> 0..MaxId] /\ \A c \in SvBranch : svRow[c] \in [SvName -> 0..MaxId]
    BY <1>3 DEF SvTypeOK
  <2>2. reg'[n] = 0 /\ reg'[m] = reg[n] /\ \A k \in SvName \ {n, m} : reg'[k] = reg[k]
    BY <1>1, <1>2, <1>3, <2>1
  <2>3. ASSUME NEW c \in SvBranch
        PROVE  /\ svRow'[c][n] = 0 /\ svRow'[c][m] = IF svRow[c][n] = 0 THEN svRow[c][m] ELSE svRow[c][n]
               /\ \A k \in SvName \ {n, m} : svRow'[c][k] = svRow[c][k]
    <3>1. svRow'[c] = IF svRow[c][n] = 0 THEN svRow[c] ELSE [svRow[c] EXCEPT ![m] = svRow[c][n], ![n] = 0]
      BY <1>1
    <3> HIDE DEF n, m
    <3> QED
      BY <1>2, <1>3, <2>1, <3>1
  <2> QED
    BY <2>2, <2>3
<1>7. IdsApart'
  <2>1. /\ \A k \in SvName : k = n \/ k = m \/ k \in SvName \ {n, m}
        /\ 0 <= ids
    BY FromInv
  <2>2. \A k \in SvName : reg'[k] <= ids
    BY <1>2, <1>3, <1>6, <2>1 DEF IdsApart
  <2>3. \A c \in SvBranch, k \in SvName : svRow'[c][k] <= ids
    BY <1>2, <1>3, <1>6, <2>1 DEF IdsApart
  <2> HIDE DEF n, m
  <2>4. \A k, j \in SvName : reg'[k] # 0 /\ reg'[k] = reg'[j] => k = j
    BY <1>2, <1>3, <1>6, <2>1 DEF IdsApart
  <2>5. \A c \in SvBranch, k, j \in SvName : svRow'[c][k] # 0 /\ svRow'[c][k] = reg'[j] => k = j
    <3> SUFFICES ASSUME NEW c \in SvBranch, NEW k \in SvName, NEW j \in SvName,
                        svRow'[c][k] # 0, svRow'[c][k] = reg'[j]
                 PROVE  k = j
      OBVIOUS
    <3>1. k # n /\ j # n
      BY <1>6
    <3>2. CASE k = m
      BY <1>2, <1>3, <1>6, <3>1, <3>2 DEF IdsApart
    <3>3. CASE k # m
      BY <1>2, <1>3, <1>6, <3>1, <3>3 DEF IdsApart
    <3> QED
      BY <3>2, <3>3
  <2>6. \A b, c \in SvBranch, k, j \in SvName : svRow'[b][k] # 0 /\ svRow'[b][k] = svRow'[c][j] => k = j
    <3> SUFFICES ASSUME NEW b \in SvBranch, NEW c \in SvBranch, NEW k \in SvName, NEW j \in SvName,
                        svRow'[b][k] # 0, svRow'[b][k] = svRow'[c][j]
                 PROVE  k = j
      OBVIOUS
    <3>1. k # n /\ j # n
      BY <1>6
    <3>2. /\ \A a \in SvBranch, l, q \in SvName : svRow[a][l] # 0 /\ svRow[a][l] = svRow[b][q] => l = q
          /\ \A a \in SvBranch, l, q \in SvName : svRow[a][l] # 0 /\ svRow[a][l] = svRow[c][q] => l = q
      BY <1>3 DEF IdsApart
    <3>3. /\ k # m => svRow'[b][k] = svRow[b][k]
          /\ j # m => svRow'[c][j] = svRow[c][j]
      BY <1>6, <3>1
    <3>4. /\ k = m => \E l \in {n, m} : svRow'[b][k] = svRow[b][l]
          /\ j = m => \E l \in {n, m} : svRow'[c][j] = svRow[c][l]
      BY <1>6
    <3> QED
      BY <1>2, <3>1, <3>2, <3>3, <3>4
  <2>7. ids' = ids
    BY <1>1
  <2> QED
    BY <2>2, <2>3, <2>4, <2>5, <2>6, <2>7 DEF IdsApart
<1>8. \A c \in SvBranch, k \in SvName : k = n \/ ~Moving(c, k)
  BY <1>2, RenameAlone DEF Moving
<1>9. /\ \A c \in SvBranch, k \in SvName \ {n, m} :
           /\ <<c, k>> \in torn <=> <<c, k>> \in torn'
           /\ <<c, k>> \in stuck <=> <<c, k>> \in stuck'
      /\ \A c \in SvBranch : <<c, n>> \in torn \/ <<c, m>> \in torn => <<c, m>> \in torn'
      /\ \A c \in SvBranch : <<c, n>> \in stuck \/ <<c, m>> \in stuck
           => <<c, m>> \in stuck' \/ (c \in Carriers(n) /\ cont[c][m] = svRow[c][n])
  <2>1. torn \subseteq SvBranch \X SvName /\ stuck \subseteq SvBranch \X SvName
    BY <1>3 DEF SvTypeOK
  <2>2. ASSUME NEW R, R \subseteq SvBranch \X SvName
        PROVE  /\ \A c \in SvBranch, k \in SvName \ {n, m} : <<c, k>> \in R <=> <<c, k>> \in Renamed(R, n, m)
               /\ \A c \in SvBranch : <<c, n>> \in R \/ <<c, m>> \in R => <<c, m>> \in Renamed(R, n, m)
    <3> HIDE DEF n, m
    <3>1. \A c \in SvBranch, k \in SvName \ {n, m} : <<c, k>> \in R <=> <<c, k>> \in Renamed(R, n, m)
      BY DEF Renamed
    <3>2. ASSUME NEW c \in SvBranch, <<c, n>> \in R PROVE <<c, m>> \in Renamed(R, n, m)
      <4>1. <<c, n>> \in {q \in R : q[2] = n} /\ <<c, m>> = <<(<<c, n>>)[1], m>>
        BY <3>2
      <4> QED
        BY <4>1 DEF Renamed
    <3>3. ASSUME NEW c \in SvBranch, <<c, m>> \in R PROVE <<c, m>> \in Renamed(R, n, m)
      BY <1>3, <3>3 DEF Renamed
    <3> QED
      BY <3>1, <3>2, <3>3
  <2>3. \A c \in SvBranch, k \in SvName : <<c, k>> \in Renamed(stuck, n, m)
          => <<c, k>> \in stuck' \/ (k = m /\ c \in Carriers(n) /\ cont[c][m] = svRow[c][n])
    BY <1>1
  <2>4. \A c \in SvBranch, k \in SvName \ {n, m} : <<c, k>> \in stuck' => <<c, k>> \in Renamed(stuck, n, m)
    BY <1>1
  <2> QED
    BY <1>1, <1>2, <2>1, <2>2, <2>3, <2>4
<1>10. RowsWhole'
  <2> SUFFICES ASSUME NEW c \in SvBranch, NEW k \in SvName, svRow'[c][k] # 0, <<c, k>> \notin torn'
               PROVE  /\ svRow'[c][k] \in bytes[c]
                      /\ <<c, k>> \notin stuck' => cont[c][k] = svRow'[c][k]
    BY <1>1 DEF RowsWhole
  <2>1. k # n
    BY <1>6
  <2>2. CASE k # m
    BY <1>3, <1>6, <1>8, <1>9, <2>1, <2>2 DEF RowsWhole
  <2>3. CASE k = m /\ svRow[c][n] = 0
    <3>1. svRow'[c][m] = svRow[c][m] /\ svRow[c][m] # 0
      BY <1>6, <2>1, <2>3
    <3>2. <<c, m>> \notin torn /\ ~Moving(c, m)
      BY <1>8, <1>9, <2>1, <2>3
    <3>3. <<c, m>> \notin stuck' => <<c, m>> \notin stuck
      BY <1>9, <2>3 DEF Carriers
    <3> QED
      BY <1>2, <1>3, <2>3, <3>1, <3>2, <3>3 DEF RowsWhole
  <2>4. CASE k = m /\ svRow[c][n] # 0
    <3>1. c \in Carriers(n) /\ svRow'[c][k] = svRow[c][n] /\ <<c, n>> \notin torn
      BY <1>6, <1>9, <2>4 DEF Carriers
    <3>2. svRow[c][n] \in bytes[c]
      BY <1>2, <1>3, <2>4, <3>1 DEF RowsWhole
    <3>3. <<c, m>> \notin stuck' => cont[c][m] = svRow[c][n]
      BY <1>1, <1>9, <3>1, AllMoved DEF Mars
    <3> QED
      BY <2>4, <3>1, <3>2, <3>3
  <2> QED
    BY <2>2, <2>3, <2>4
<1>11. \A p \in SvOp \ {o} : Owns(p)'
  <2> SUFFICES ASSUME NEW p \in SvOp \ {o} PROVE Owns(p)'
    OBVIOUS
  <2>1. op'[p] = op[p] /\ Owns(p) /\ op[p].at \notin AtAdd \cup AtRename
    BY <1>1, <1>2, RenameAlone DEF SvIInv, SvTypeOK, OpsOwn
  <2>2. ASSUME op[p].at \in AtRemove PROVE RemovalOwns(p)'
    <3>1. /\ op[p].br \in SvBranch /\ op[p].name \in SvName \ {n, m} /\ RemovalOwns(p)
      BY <1>2, <1>3, <2>1, <2>2, RenameAlone, OpKinds DEF OnBranch, Ops, Owns
    <3> QED
      BY <1>6, <1>9, <2>1, <3>1 DEF RemovalOwns
  <2> QED
    BY <2>1, <2>2 DEF Owns
<1>12. Owns(o)'
  BY <1>1, <1>3, NoOpOwns DEF SvTypeOK
<1> QED
  BY <1>4, <1>5, <1>7, <1>10, <1>11, <1>12 DEF SvIInv, OpsOwn

LEMMA InvDies ==
  ASSUME SvIInv, SvDies
  PROVE  SvIInv'
<1>1. /\ op' = [o \in SvOp |-> NoOp] /\ UNCHANGED <<reg, svRow, cont, bytes, ids, torn>>
      /\ stuck' = stuck \cup UNION {op[o].done \X {op[o].name} : o \in {p \in SvOp : Within(p)}}
  BY DEF SvDies, keptVars, diskVars
<1>2. SvTypeOK /\ IdsApart /\ RowsWhole
  BY FromInv
<1>3. SvTypeOK'
  BY <1>2, SvTypeDies
<1>4. OpsApart'
  BY <1>1 DEF OpsApart, Within, NoOp, InBody, AtAdd, AtRemove, AtRename
<1>5. IdsApart'
  BY <1>1, <1>2 DEF IdsApart
<1>6. OpsOwn'
  BY <1>1, NoOpOwns DEF OpsOwn
<1>7. \A c \in SvBranch, k \in SvName : Moving(c, k) => <<c, k>> \in stuck'
  <2> SUFFICES ASSUME NEW c \in SvBranch, NEW k \in SvName, Moving(c, k) PROVE <<c, k>> \in stuck'
    OBVIOUS
  <2>1. PICK o \in SvOp : op[o].at \in AtRename /\ op[o].name = k /\ c \in op[o].done
    BY DEF Moving
  <2>2. Within(o) /\ <<c, k>> \in op[o].done \X {op[o].name}
    BY <2>1, Stages DEF Within
  <2> QED
    BY <1>1, <2>2
<1>8. RowsWhole'
  BY <1>1, <1>2, <1>7 DEF RowsWhole
<1> QED
  BY <1>3, <1>4, <1>5, <1>6, <1>8 DEF SvIInv
-----------------------------------------------------------------------------
(* Managed services: the theorems.                                         *)

LEMMA SvInvInit == SvInit => SvIInv
<1> SUFFICES ASSUME SvInit PROVE SvIInv
  OBVIOUS
<1>1. SvTypeOK
  BY SvTypeInit
<1>2. \A o \in SvOp : op[o] = NoOp /\ op[o].at = "idle"
  BY DEF SvInit, NoOp
<1>3. OpsApart /\ OpsOwn
  BY <1>2 DEF OpsApart, OpsOwn, Owns, Within, InBody, AtAdd, AtRemove, AtRename
<1>4. IdsApart /\ RowsWhole
  BY DEF SvInit, IdsApart, RowsWhole
<1> QED
  BY <1>1, <1>3, <1>4 DEF SvIInv

LEMMA SvInvStep == SvIInv /\ [SvNext]_svVars => SvIInv'
<1> SUFFICES ASSUME SvIInv, [SvNext]_svVars PROVE SvIInv'
  OBVIOUS
<1>1. CASE UNCHANGED svVars
  <2>1. UNCHANGED <<reg, svRow, cont, bytes, op, ids, faults, torn, stuck>>
    BY <1>1 DEF svVars
  <2>2. SvTypeOK' /\ IdsApart' /\ RowsWhole'
    <3>1. SvTypeOK'
      BY <2>1 DEF SvIInv, SvTypeOK
    <3>2. IdsApart'
      BY <2>1 DEF SvIInv, IdsApart
    <3>3. RowsWhole'
      BY <2>1 DEF SvIInv, RowsWhole, Moving
    <3> QED
      BY <3>1, <3>2, <3>3
  <2>3. OpsApart'
    BY <2>1 DEF SvIInv, OpsApart, Within, SvKeys
  <2>5. ASSUME NEW o \in SvOp PROVE Owns(o)'
    <3>1. Owns(o)
      BY DEF SvIInv, OpsOwn
    <3>2. op'[o] = op[o]
      BY <2>1
    <3>3. /\ AddOwns(o) => AddOwns(o)'
          /\ RemovalOwns(o) => RemovalOwns(o)'
          /\ RenameOwns(o) => RenameOwns(o)'
      BY <2>1 DEF AddOwns, RemovalOwns, RenameOwns, Carriers, Mars
    <3> QED
      BY <3>1, <3>2, <3>3 DEF Owns
  <2> QED
    BY <2>2, <2>3, <2>5 DEF SvIInv, OpsOwn
<1>2. CASE SvDies
  BY <1>2, InvDies
<1>3. ASSUME NEW o \in SvOp, NEW b \in SvBranch, NEW n \in SvName, NEW m \in SvName,
             AskAdd(o, b, n) \/ AskRemove(o, b, n) \/ AskRename(o, n, m)
      PROVE  SvIInv'
  BY <1>3, InvAsk
<1>4. ASSUME NEW o \in SvOp, NEW yes \in BOOLEAN,
             \/ AddBegins(o) \/ EnsureManagedDirs(o) \/ ManagedProvision(o) \/ AddFails(o, yes) \/ AddCommits(o)
             \/ RemoveBegins(o) \/ ManagedDestroy(o) \/ RemoveDirectory(o) \/ RemovalFails(o, yes) \/ RemoveCommits(o)
             \/ RenameBegins(o) \/ RenameFailure(o) \/ RenameCommits(o)
      PROVE  SvIInv'
  BY <1>4, InvAddBegins, InvAddMakes, InvAddCommits, InvRemoveBegins, InvDestroy, InvRemoveDirectory,
     InvRemoveCommits, InvRenameBegins, InvRenameFailure, InvRenameCommits
<1>5. ASSUME NEW o \in SvOp, NEW b \in SvBranch, NEW yes \in BOOLEAN,
             RenameContainer(o, b) \/ UndoRename(o, b) \/ UndoFails(o, b) \/ RenameFails(o, b, yes)
      PROVE  SvIInv'
  BY <1>5, InvRenameContainer, InvUndo, InvRenameFails
<1> QED
  BY <1>1, <1>2, <1>3, <1>4, <1>5, SvAssumption DEF SvNext

(* A managed service's row finds its container and its bytes, unless a     *)
(* removal, a failed undo or a death has left it named as one to mend.     *)
THEOREM RowsStayWhole == SvSpec => []RowsFindTheirContainers
<1>1. SvIInv => RowsFindTheirContainers
  BY DEF SvIInv, RowsWhole, RowsFindTheirContainers
<1> QED
  BY <1>1, SvInvInit, SvInvStep, PTL DEF SvSpec

(* Only the commit of a rename gives a name's id to another name.          *)
LEMMA OnlyRenamesRename ==
  ASSUME SvIInv, SvNext, NEW n \in SvName, NEW m \in SvName, n # m, reg[n] # 0, reg'[m] = reg[n], reg'[n] = 0
  PROVE  \E o \in SvOp : RenameCommits(o) /\ op[o].name = n /\ op[o].to = m
<1>1. reg \in [SvName -> 0..MaxId] /\ reg[m] # reg[n]
  BY DEF SvIInv, SvTypeOK, IdsApart
<1>2. reg' # reg
  BY <1>1
<1>3. \E o \in SvOp : AddCommits(o) \/ RemoveCommits(o) \/ RenameCommits(o)
  <2>1. ~SvDies
    BY <1>2 DEF SvDies, keptVars
  <2>2. ASSUME NEW o \in SvOp, NEW b \in SvBranch, NEW k \in SvName, NEW l \in SvName,
               AskAdd(o, b, k) \/ AskRemove(o, b, k) \/ AskRename(o, k, l)
        PROVE  FALSE
    BY <1>2, <2>2 DEF AskAdd, AskRemove, AskRename, keptVars
  <2>3. ASSUME NEW o \in SvOp, NEW yes \in BOOLEAN,
               \/ AddBegins(o) \/ EnsureManagedDirs(o) \/ ManagedProvision(o) \/ AddFails(o, yes)
               \/ RemoveBegins(o) \/ ManagedDestroy(o) \/ RemoveDirectory(o) \/ RemovalFails(o, yes)
               \/ RenameBegins(o) \/ RenameFailure(o)
        PROVE  FALSE
    BY <1>2, <2>3 DEF AddBegins, EnsureManagedDirs, ManagedProvision, AddFails, RemoveBegins, ManagedDestroy,
                      RemoveDirectory, RemovalFails, RenameBegins, RenameFailure, keptVars
  <2>4. ASSUME NEW o \in SvOp, NEW b \in SvBranch, NEW yes \in BOOLEAN,
               RenameContainer(o, b) \/ UndoRename(o, b) \/ UndoFails(o, b) \/ RenameFails(o, b, yes)
        PROVE  FALSE
    BY <1>2, <2>4 DEF RenameContainer, UndoRename, UndoFails, RenameFails, keptVars
  <2> QED
    BY <2>1, <2>2, <2>3, <2>4, SvAssumption DEF SvNext
<1>4. PICK o \in SvOp : AddCommits(o) \/ RemoveCommits(o) \/ RenameCommits(o)
  BY <1>3
<1>5. ASSUME AddCommits(o) PROVE FALSE
  <2>1. reg' = reg \/ reg' = [reg EXCEPT ![op[o].name] = op[o].id]
    BY <1>5 DEF AddCommits
  <2>2. op[o].id # 0 /\ op[o].at \in AtAdd
    BY <1>5 DEF AddCommits, SvIInv, OpsOwn, Owns, AddOwns, AtAdd
  <2> QED
    BY <1>1, <2>1, <2>2
<1>6. ASSUME RemoveCommits(o) PROVE FALSE
  <2>1. reg' = reg \/ reg' = [reg EXCEPT ![op[o].name] = 0]
    BY <1>6 DEF RemoveCommits, RetireRegistration
  <2> QED
    BY <1>1, <2>1
<1>7. ASSUME RenameCommits(o) PROVE op[o].name = n /\ op[o].to = m
  <2>1. reg' = [reg EXCEPT ![op[o].to] = reg[op[o].name], ![op[o].name] = 0] /\ op[o].at = "move"
    BY <1>7 DEF RenameCommits
  <2>2. op[o].name \in SvName /\ op[o].to \in SvName /\ RenameOwns(o)
    BY <2>1, OpKinds DEF SvIInv, OnAll, Ops, OpsOwn, Owns, AtRename
  <2> QED
    BY <1>1, <2>1, <2>2 DEF RenameOwns
<1> QED
  BY <1>4, <1>5, <1>6, <1>7

(* A rename that commits has moved every row and every container.          *)
THEOREM RenamesAreWhole == SvSpec => RenameIsWhole
<1> DEFINE Whole == \A n, m \in SvName :
       n # m /\ reg[n] # 0 /\ reg'[m] = reg[n] /\ reg'[n] = 0
         => \A b \in SvBranch :
              /\ svRow'[b][n] = 0
              /\ svRow[b][n] # 0
                   => cont[b][n] = 0 /\ (<<b, n>> \in torn \cup stuck \/ cont[b][m] = svRow[b][n])
<1>1. ASSUME SvIInv, SvNext PROVE Whole
  <2> SUFFICES ASSUME NEW n \in SvName, NEW m \in SvName, n # m, reg[n] # 0, reg'[m] = reg[n], reg'[n] = 0,
                      NEW b \in SvBranch
               PROVE  /\ svRow'[b][n] = 0
                      /\ svRow[b][n] # 0
                           => cont[b][n] = 0 /\ (<<b, n>> \in torn \cup stuck \/ cont[b][m] = svRow[b][n])
    OBVIOUS
  <2>1. PICK o \in SvOp : RenameCommits(o) /\ op[o].name = n /\ op[o].to = m
    BY <1>1, OnlyRenamesRename
  <2>2. svRow'[b][n] = 0
    <3>1. svRow[b] \in [SvName -> 0..MaxId]
      BY <1>1 DEF SvIInv, SvTypeOK
    <3>2. svRow'[b] = IF svRow[b][n] = 0 THEN svRow[b] ELSE [svRow[b] EXCEPT ![m] = svRow[b][n], ![n] = 0]
      BY <2>1 DEF RenameCommits
    <3> QED
      BY <3>1, <3>2
  <2>3. ASSUME svRow[b][n] # 0
        PROVE  cont[b][n] = 0 /\ (<<b, n>> \in torn \cup stuck \/ cont[b][m] = svRow[b][n])
    <3>1. op[o].at = "move" /\ op[o].todo = {} /\ b \in Carriers(op[o].name)
      BY <2>1, <2>3 DEF RenameCommits, AllRenamed, Carriers
    <3> QED
      BY <1>1, <2>1, <3>1, AllMoved DEF Mars
  <2> QED
    BY <2>2, <2>3
<1>2. SvIInv /\ [SvNext]_svVars => [Whole]_svVars
  BY <1>1
<1> QED
  BY <1>2, SvInvInit, SvInvStep, PTL DEF SvSpec, RenameIsWhole
-----------------------------------------------------------------------------
(* The composition.                                                        *)

LEMMA GitSteps == WorkNext => [GitNext]_gitVars
BY DEF WorkNext, AtGit, AtTpl, AtBr, AtSv, AtLn, GitNext, RunnerSteps

LEMMA TplSteps == WorkNext => [TplNext]_tplVars
BY DEF WorkNext, AtGit, AtTpl, AtBr, AtSv, AtLn, TplNext, TplStep

LEMMA BrSteps == WorkNext => [BrNext]_brVars
BY DEF WorkNext, AtGit, AtTpl, AtBr, AtSv, AtLn, BrNext, BrCreateStep, BrTeardownStep

LEMMA SvSteps == WorkNext => [SvNext]_svVars
BY DEF WorkNext, AtGit, AtTpl, AtBr, AtSv, AtLn, SvNext

LEMMA LnSteps == WorkNext => [LnNext]_lnVars
BY DEF WorkNext, AtGit, AtTpl, AtBr, AtSv, AtLn, LnNext, PassStep

(* Every step of the daemon is a step of each part or leaves it alone.     *)
THEOREM WorkImplementsParts == WorkSpec => GitSpec /\ TplSpec /\ BrSpec /\ SvSpec /\ LnSpec
<1>1. WorkInit => GitInit /\ TplInit /\ BrInit /\ SvInit /\ LnInit
  BY DEF WorkInit
<1>2. [WorkNext]_workVars => /\ [GitNext]_gitVars /\ [TplNext]_tplVars /\ [BrNext]_brVars
                             /\ [SvNext]_svVars /\ [LnNext]_lnVars
  BY GitSteps, TplSteps, BrSteps, SvSteps, LnSteps DEF workVars
<1> QED
  BY <1>1, <1>2, PTL DEF WorkSpec, GitSpec, TplSpec, BrSpec, SvSpec, LnSpec

(* The state of every desk keeps its type.                                 *)
THEOREM WorkTypesHold == WorkSpec => []WorkTypeOK
<1>1. WorkInit => desk \in Desks
  BY DEF WorkInit
<1>2. desk \in Desks /\ [WorkNext]_workVars => (desk \in Desks)'
  BY DEF WorkNext, workVars, AtGit, AtTpl, AtBr, AtSv, AtLn
<1>3. WorkSpec => [](desk \in Desks)
  BY <1>1, <1>2, PTL DEF WorkSpec
<1>4. desk \in Desks /\ GitTypeOK /\ TplTypeOK /\ BrTypeOK /\ SvTypeOK /\ LnTypeOK => WorkTypeOK
  BY DEF WorkTypeOK
<1> QED
  BY <1>3, <1>4, WorkImplementsParts, GitTypesHold, TplTypesHold, BrTypesHold, SvTypesHold, LnTypesHold, PTL
=============================================================================
