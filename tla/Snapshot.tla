------------------------------ MODULE Snapshot ------------------------------
(***************************************************************************)
(* The scheduler's snapshot of container states (src/scheduler.ts).  A     *)
(* docker ps -a says what docker saw at some time after it was issued, and *)
(* may be answered long after; meanwhile the operations, one at a time per *)
(* container, record what they did.  The readers that stop containers ask  *)
(* for an observation that is recent enough.                               *)
(*                                                                         *)
(* A container's history is counted in versions: whatever changes its      *)
(* state makes the next one.                                               *)
(***************************************************************************)
EXTENDS Naturals

CONSTANTS Ctr,
          Listing, \* the listings under way at a time
          MaxVer,  \* bound on a container's versions
          MaxTick  \* bound on the clock

ASSUME SnapshotAssumption == MaxVer \in Nat /\ MaxTick \in Nat

VARIABLES
  tick,
  docker,   \* each container's state and version
  verb,     \* the operation on it: what it has done, and when
  snapshot, \* stateCache
  listing,  \* docker ps -a under way
  outcome   \* history: the last outcome recorded, and whether its entry has been dropped since

snapVars == <<tick, docker, verb, snapshot, listing, outcome>>

Ver == 0..MaxVer
CtrState == {"running", "exited", "gone"}
CtrType == [state : CtrState, ver : Ver]
NoVerb == [busy |-> FALSE, state |-> "gone", ver |-> 0, at |-> 0]
NoEntry == [state |-> "gone", ver |-> 0, at |-> 0]
NoListing == [pc |-> "none", at |-> 0, seen |-> [c \in Ctr |-> [state |-> "gone", ver |-> 0]]]

SnapTypeOK ==
  /\ tick \in 0..MaxTick
  /\ docker \in [Ctr -> CtrType]
  /\ verb \in [Ctr -> [busy : BOOLEAN, state : CtrState, ver : Ver, at : 0..MaxTick]]
  /\ snapshot \in [Ctr -> [state : CtrState, ver : Ver, at : 0..MaxTick]]
  /\ listing \in [Listing -> [pc : {"none", "issued", "seen"}, at : 0..MaxTick, seen : [Ctr -> CtrType]]]
  /\ outcome \in [Ctr -> [ver : Ver, stands : BOOLEAN]]

SnapInit ==
  /\ tick = 0
  /\ docker \in [Ctr -> {[state |-> st, ver |-> 0] : st \in CtrState}]
  /\ verb = [c \in Ctr |-> NoVerb]
  /\ snapshot = [c \in Ctr |-> NoEntry]
  /\ listing = [r \in Listing |-> NoListing]
  /\ outcome = [c \in Ctr |-> [ver |-> 0, stands |-> FALSE]]
-----------------------------------------------------------------------------
Tick ==
  /\ tick < MaxTick /\ tick' = tick + 1
  /\ UNCHANGED <<docker, verb, snapshot, listing, outcome>>

Becomes(c, state) ==
  /\ docker[c].ver < MaxVer /\ docker[c].state # state
  /\ docker' = [docker EXCEPT ![c] = [state |-> state, ver |-> @.ver + 1]]

(* It exits, is started again, or is removed by others.                    *)
ByItself(c, state) ==
  /\ docker[c].state # "gone" /\ Becomes(c, state)
  /\ UNCHANGED <<tick, verb, snapshot, listing, outcome>>

(* An operation starts, stops, removes or runs a container.                *)
VerbActs(c, state) ==
  /\ Becomes(c, state)
  /\ verb' = [verb EXCEPT ![c] = [busy |-> TRUE, state |-> state, ver |-> docker[c].ver + 1, at |-> tick]]
  /\ UNCHANGED <<tick, snapshot, listing, outcome>>

(* onUp, onAsleep, onStopped, onPaused.  A docker call takes a while, so   *)
(* the outcome is recorded at a later time than it happened.               *)
SetCached(c) ==
  /\ verb[c].busy /\ verb[c].state # "gone" /\ tick > verb[c].at
  /\ verb' = [verb EXCEPT ![c] = NoVerb]
  /\ snapshot' = [snapshot EXCEPT ![c] = [state |-> verb[c].state, ver |-> verb[c].ver, at |-> tick]]
  /\ outcome' = [outcome EXCEPT ![c] = [ver |-> verb[c].ver, stands |-> TRUE]]
  /\ UNCHANGED <<tick, docker, listing>>

(* It fails, or has nothing to record.                                     *)
VerbEnds(c) ==
  /\ verb[c].busy
  /\ verb' = [verb EXCEPT ![c] = NoVerb]
  /\ UNCHANGED <<tick, docker, snapshot, listing, outcome>>

(* A sleep whose stop failed may still land: its entry is dropped.         *)
StopFails(c) ==
  /\ snapshot' = [snapshot EXCEPT ![c] = NoEntry]
  /\ verb' = [verb EXCEPT ![c] = NoVerb]
  /\ outcome' = [outcome EXCEPT ![c].stands = FALSE]
  /\ UNCHANGED <<tick, docker, listing>>
-----------------------------------------------------------------------------
(* One full read, dated from when it was issued.                           *)

ReadContainers(r) ==
  /\ listing[r].pc = "none"
  /\ listing' = [listing EXCEPT ![r] = [NoListing EXCEPT !.pc = "issued", !.at = tick]]
  /\ UNCHANGED <<tick, docker, verb, snapshot, outcome>>

DockerLists(r) ==
  /\ listing[r].pc = "issued"
  /\ listing' = [listing EXCEPT ![r].pc = "seen", ![r].seen = docker]
  /\ UNCHANGED <<tick, docker, verb, snapshot, outcome>>

ListingFails(r) ==
  /\ listing[r].pc # "none"
  /\ listing' = [listing EXCEPT ![r] = NoListing]
  /\ UNCHANGED <<tick, docker, verb, snapshot, outcome>>

\* variant: a listing replaces what is known
Replaced(c, seen, at) ==
  IF seen.state = "gone" THEN NoEntry ELSE [state |-> seen.state, ver |-> seen.ver, at |-> at]

(* What has been learned since the listing was issued stays.               *)
Absorbed(c, seen, at) ==
  IF snapshot[c].state # "gone" /\ snapshot[c].at > at THEN snapshot[c]
  ELSE IF seen.state = "gone" THEN NoEntry
  ELSE [state |-> seen.state, ver |-> seen.ver, at |-> at]

Absorb(r) ==
  /\ listing[r].pc = "seen"
  /\ snapshot' = [c \in Ctr |-> Absorbed(c, listing[r].seen[c], listing[r].at)]
  /\ outcome' = [c \in Ctr |-> [outcome[c] EXCEPT !.stands = @ /\ snapshot'[c].state # "gone"]]
  /\ listing' = [listing EXCEPT ![r] = NoListing]
  /\ UNCHANGED <<tick, docker, verb>>
-----------------------------------------------------------------------------
SnapNext ==
  \/ Tick
  \/ \E c \in Ctr :
       \/ \E st \in CtrState : ByItself(c, st) \/ VerbActs(c, st)
       \/ SetCached(c) \/ VerbEnds(c) \/ StopFails(c)
  \/ \E r \in Listing : ReadContainers(r) \/ DockerLists(r) \/ ListingFails(r) \/ Absorb(r)

SnapSpec == SnapInit /\ [][SnapNext]_snapVars
-----------------------------------------------------------------------------
(* A late listing puts back nothing older than the last outcome recorded,  *)
(* as long as the entry has not been dropped since.                        *)
ListingsRespectOutcomes ==
  \A c \in Ctr : outcome[c].stands => snapshot[c].ver >= outcome[c].ver
=============================================================================
