------------------------------ MODULE Metrics ------------------------------
(***************************************************************************)
(* The history of a container's readings (src/metrics-sampler.ts,          *)
(* src/metrics-history.ts) and what is charted of it (engine.ts,           *)
(* observedTargets).  A sample is stamped before docker ps, which tells    *)
(* the container's state and id, and docker stats, which tells its         *)
(* counters: those of the container's run, zero when it has none.          *)
(* Meanwhile the container is stopped, paused or replaced; its service may *)
(* be removed and another take its name.  The history is saved now and     *)
(* then, and a kill loses what came after.                                 *)
(*                                                                         *)
(* One counter stands for all, one name for all names.                     *)
(***************************************************************************)
EXTENDS Naturals

CONSTANTS MaxGap,   \* the widest gap a rate is taken across, in seconds
          Retention,
          MaxSec,   \* bound on the clock
          MaxBytes, \* bound on the traffic
          MaxGen    \* bound on the containers

ASSUME MetricsAssumption == {MaxGap, Retention, MaxSec, MaxBytes, MaxGen} \subseteq Nat

VARIABLES
  sec,
  vessel,  \* the container of the name: its state, id, counter; history: which service's
  traffic, \* history: the bytes that all of them have received
  since,   \* the row's: its samples begin then; 0 without a row
  sampler, \* the tick under way
  history, \* per second: a sample or none
  saved    \* the file has its samples of the seconds before this

metVars == <<sec, vessel, traffic, since, sampler, history, saved>>

Sec == 0..MaxSec
NoSample == [taken |-> FALSE, rx |-> 0, gen |-> 0, running |-> FALSE, traffic |-> 0, life |-> 0]
Sample == [taken : BOOLEAN, rx : 0..MaxBytes, gen : 0..MaxGen, running : BOOLEAN, traffic : 0..MaxBytes, life : 0..MaxGen]
SamplerAt(pc) == [pc |-> pc, t |-> 0, sample |-> NoSample]
Empty == [t \in Sec |-> NoSample]
VesselState == {"running", "paused", "exited", "none"}

MetTypeOK ==
  /\ sec \in Sec
  /\ vessel \in [state : VesselState, gen : 0..MaxGen, count : 0..MaxBytes, life : 0..MaxGen]
  /\ traffic \in 0..MaxBytes
  /\ since \in 0..(MaxSec + 1)
  /\ sampler \in [pc : {"off", "idle", "ps", "stats", "read"}, t : Sec, sample : Sample]
  /\ history \in [Sec -> Sample] /\ saved \in 0..(MaxSec + 1)

MetInit ==
  /\ sec = 0
  /\ vessel = [state |-> "none", gen |-> 0, count |-> 0, life |-> 0]
  /\ traffic = 0 /\ since = 0
  /\ sampler = SamplerAt("off") /\ history = Empty /\ saved = 0
-----------------------------------------------------------------------------
(* The container, and the row.                                             *)

Second ==
  /\ sec < MaxSec /\ sec' = sec + 1
  /\ UNCHANGED <<vessel, traffic, since, sampler, history, saved>>

Receives ==
  /\ vessel.state = "running" /\ traffic < MaxBytes
  /\ traffic' = traffic + 1 /\ vessel' = [vessel EXCEPT !.count = @ + 1]
  /\ UNCHANGED <<sec, since, sampler, history, saved>>

(* A run's counter starts at zero; a pause keeps it.                       *)
Turns(from, to) ==
  /\ vessel.state = from
  /\ vessel' = [vessel EXCEPT !.state = to, !.count = IF "exited" \in {from, to} THEN 0 ELSE @]
  /\ UNCHANGED <<sec, traffic, since, sampler, history, saved>>

(* A redeploy keeps the service, its row and its name.                     *)
Redeployed ==
  /\ vessel.state # "none" /\ vessel.gen < MaxGen
  /\ vessel' = [vessel EXCEPT !.state = "running", !.gen = @ + 1, !.count = 0]
  /\ UNCHANGED <<sec, traffic, since, sampler, history, saved>>

RowRemoved ==
  /\ vessel.state # "none"
  /\ vessel' = [vessel EXCEPT !.state = "none", !.count = 0] /\ since' = 0
  /\ UNCHANGED <<sec, traffic, sampler, history, saved>>

ContainerAdded ==
  /\ vessel.state = "none" /\ vessel.gen < MaxGen
  /\ vessel' = [state |-> "running", gen |-> vessel.gen + 1, count |-> 0, life |-> vessel.gen + 1]
  /\ UNCHANGED <<sec, traffic, since, sampler, history, saved>>

(* The first whole second after the row's createdAt, addedAt or renamedAt. *)
Since == sec + 1

RowWritten ==
  /\ vessel.state # "none" /\ since = 0
  /\ since' = Since
  /\ UNCHANGED <<sec, vessel, traffic, sampler, history, saved>>
-----------------------------------------------------------------------------
(* The sampler: one tick at a time.                                        *)

Pruned(h, t) == [u \in Sec |-> IF u + Retention < t THEN NoSample ELSE h[u]]

Load ==
  /\ sampler.pc = "off" /\ sampler' = SamplerAt("idle") /\ history' = Pruned(history, sec)
  /\ UNCHANGED <<sec, vessel, traffic, since, saved>>

TickBegins ==
  /\ sampler.pc = "idle"
  /\ sampler' = [SamplerAt("ps") EXCEPT !.t = sec]
  /\ UNCHANGED <<sec, vessel, traffic, since, history, saved>>

(* One that does not run is recorded as zero.                              *)
Ps ==
  /\ sampler.pc = "ps" /\ vessel.state # "none"
  /\ sampler' = [sampler EXCEPT !.pc = IF vessel.state = "running" THEN "stats" ELSE "read",
       !.sample = [taken |-> TRUE, rx |-> 0, gen |-> vessel.gen, running |-> vessel.state = "running",
                   traffic |-> IF vessel.state = "running" THEN 0 ELSE traffic, life |-> vessel.life]]
  /\ UNCHANGED <<sec, vessel, traffic, since, history, saved>>

Stats ==
  /\ sampler.pc = "stats" /\ vessel.state # "none"
  /\ sampler' = [sampler EXCEPT !.pc = "read", !.sample.rx = vessel.count, !.sample.traffic = traffic,
                                !.sample.life = vessel.life]
  /\ UNCHANGED <<sec, vessel, traffic, since, history, saved>>

(* docker ps failed or did not list it, or docker stats failed.            *)
NothingRead ==
  /\ sampler.pc \in {"ps", "stats"} /\ sampler' = SamplerAt("idle")
  /\ UNCHANGED <<sec, vessel, traffic, since, history, saved>>

(* A clock step back or a duplicate tick records nothing.                  *)
HistoryWith ==
  Pruned(IF \E u \in Sec : u >= sampler.t /\ history[u].taken THEN history
         ELSE [history EXCEPT ![sampler.t] = sampler.sample], sampler.t)

Record(persists) ==
  /\ sampler.pc = "read" /\ sampler' = SamplerAt("idle")
  /\ history' = HistoryWith
  /\ saved' = IF persists THEN sampler.t + 1 ELSE saved
  /\ UNCHANGED <<sec, vessel, traffic, since>>

(* A stop saves what is recorded, and drops a tick under way.              *)
SamplerStops ==
  /\ sampler.pc # "off" /\ sampler' = SamplerAt("off") /\ saved' = sec + 1
  /\ UNCHANGED <<sec, vessel, traffic, since, history>>

(* A kill loses what the file lacks.                                       *)
SamplerDies ==
  /\ sampler.pc # "off" /\ sampler' = SamplerAt("off")
  /\ history' = [u \in Sec |-> IF u < saved THEN history[u] ELSE NoSample]
  /\ UNCHANGED <<sec, vessel, traffic, since, saved>>

MetNext ==
  \/ Second \/ Receives \/ Redeployed \/ RowRemoved \/ ContainerAdded \/ RowWritten
  \/ Turns("running", "paused") \/ Turns("paused", "running") \/ Turns("running", "exited")
  \/ Turns("paused", "exited") \/ Turns("exited", "running")
  \/ Load \/ TickBegins \/ Ps \/ Stats \/ NothingRead \/ SamplerStops \/ SamplerDies
  \/ \E b \in BOOLEAN : Record(b)

MetSpec == MetInit /\ [][MetNext]_metVars
-----------------------------------------------------------------------------
(* The query: a service's samples, and the rates between two of them.      *)

Charted(t) == since # 0 /\ t >= since /\ history[t].taken

Adjacent(u, t) == u < t /\ \A v \in Sec : u < v /\ v < t => ~history[v].taken

\* variant: across a change between running and not
CountersOnly(u, t) ==
  LET p == history[u]
      q == history[t] IN
  Adjacent(u, t) /\ q.gen = p.gen /\ t - u <= MaxGap /\ q.rx >= p.rx

Differenceable(u, t) ==
  LET p == history[u]
      q == history[t] IN
  Adjacent(u, t) /\ q.gen = p.gen /\ q.running = p.running /\ t - u <= MaxGap /\ q.rx >= p.rx

(* A chart shows only readings of the service it is of; and a difference   *)
(* that is charted as a rate is not more than what has really been         *)
(* received between the two readings, whatever was stopped, paused,        *)
(* replaced or lost in between.                                            *)
ChartsAreTraffic ==
  \A t \in Sec : Charted(t) =>
    /\ history[t].life = vessel.life
    /\ \A u \in Sec : Charted(u) /\ Differenceable(u, t) =>
         history[t].rx - history[u].rx <= history[t].traffic - history[u].traffic
=============================================================================
