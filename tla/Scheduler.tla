------------------------------ MODULE Scheduler ------------------------------
(***************************************************************************)
(* Sleep, wake, eviction and the developer's verbs, over the operation     *)
(* lock: src/scheduler.ts with lifecycleLocked and deployLocked of         *)
(* src/engine.ts, the compute adapter's verbs and the HTTP lane's use of   *)
(* them.  The lock is FifoMutex, which OpLock shows scheduler.ts to be.    *)
(*                                                                         *)
(* Every await is a step boundary; what lies between two awaits is one     *)
(* step.  Time is abstract: an idle clock with three readings, a wake      *)
(* protection that ends, deadlines that may pass at any point.  Memory is  *)
(* abstract too: whether there is room is a choice at each look.           *)
(***************************************************************************)
EXTENDS Naturals, FiniteSets

CONSTANTS Service,    \* the compute services of one branch
          Client,     \* requests in flight at once on a service
          Branch,     \* branchOp: the key of the branch itself
          Verbs,      \* the developer verbs that are called
          Switched,   \* the services whose always-on setting is flipped
          MaxFaults   \* bound on failing docker calls, crashes and restarts

ASSUME SchedulerAssumption ==
  /\ Branch \notin Service
  /\ Verbs \subseteq {"start", "stop", "suspend", "deploy"}
  /\ Switched \subseteq Service
  /\ MaxFaults \in Nat

Key == Service \cup {Branch}
Op == {"sleep", "wake", "on", "api"} \X Service
Tick == <<"tick", Branch>>    \* the sweep, as the caller of a sleep

VARIABLES need, inside, older,  \* the operation lock
          pc,        \* where each operation stands
          verb,      \* what the developer's operation on a service is
          caller,    \* the wake an eviction's sleep runs under, or Tick
          tried,     \* the victims one eviction loop has tried
          wakes,     \* the singleflight map: "no", "work" or "inline"
          ctr,       \* docker: the container of each service
          late,      \* a stop dockerd accepted whose command failed
          seen,      \* stateCache; "none" when there is no entry
          age,       \* time since lastActiveAt: hot | warm | idle
          young,     \* inside wakeProtectSec of wokeAt
          desired, slept, always,  \* the state.json row
          req,       \* HTTP requests by service and client
          booted,    \* the boot reconcile has run
          blamed,    \* history: an operation failed, or docker moved by itself,
                     \* since the last operation that went through
          faults

lockVars == <<need, inside, older>>
opVars == <<lockVars, pc, verb, caller, tried, wakes>>
dockerVars == <<ctr, late>>
viewVars == <<seen, age, young>>
rowVars == <<desired, slept, always>>
vars == <<opVars, dockerVars, viewVars, rowVars, req, booted, blamed, faults>>

Lock == INSTANCE FifoMutex

ContainerState == {"none", "created", "running", "paused", "restarting", "exited"}
(* queued and granted belong to the lock; the next two rows are the awaits *)
(* of sleep and wakeLocked; the last two those of the adapter's verbs.     *)
Pc == {"idle", "queued", "granted", "reading", "stopping",
       "check", "probe", "unpause", "room", "evicting", "start", "await",
       "hint", "thaw", "halt", "pause",
       "remove", "create", "run", "reassert"}

WakeBody == {"check", "probe", "unpause", "room", "evicting", "start", "await"}
(* The places from which the next step is a docker command that changes it.*)
Mutating(o) == pc[o] \in {"stopping", "unpause", "start", "hint", "thaw", "halt",
                         "pause", "remove", "create", "run", "reassert"}

TypeOK ==
  /\ Lock!LockTypeOK
  /\ pc \in [Op -> Pc]
  /\ verb \in [Service -> Verbs \cup {"none"}]
  /\ caller \in [Service -> Op \cup {Tick}]
  /\ tried \in [Op -> SUBSET Service]
  /\ wakes \in [Service -> {"no", "work", "inline"}]
  /\ ctr \in [Service -> ContainerState]
  /\ late \in [Service -> BOOLEAN]
  /\ seen \in [Service -> ContainerState]
  /\ age \in [Service -> {"hot", "warm", "idle"}]
  /\ young \in [Service -> BOOLEAN]
  /\ desired \in [Service -> {"running", "stopped", "suspended"}]
  /\ slept \in [Service -> BOOLEAN]
  /\ always \in [Service -> BOOLEAN]
  /\ req \in [Service \X Client -> {"none", "resolving", "waiting", "woken", "served"}]
  /\ booted \in BOOLEAN
  /\ blamed \in [Service -> BOOLEAN]
  /\ faults \in 0..MaxFaults

Init ==
  /\ Lock!LockInit
  /\ pc = [o \in Op |-> "idle"]
  /\ verb = [k \in Service |-> "none"]
  /\ caller = [k \in Service |-> Tick]
  /\ tried = [o \in Op |-> {}]
  /\ wakes = [k \in Service |-> "no"]
  /\ ctr = [k \in Service |-> "running"]
  /\ late = [k \in Service |-> FALSE]
  /\ seen = [k \in Service |-> "none"]
  /\ age = [k \in Service |-> "hot"]
  /\ young = [k \in Service |-> FALSE]
  /\ desired = [k \in Service |-> "running"]
  /\ slept = [k \in Service |-> FALSE]
  /\ always = [k \in Service |-> FALSE]
  /\ req = [r \in Service \X Client |-> "none"]
  /\ booted = FALSE
  /\ blamed = [k \in Service |-> FALSE]
  /\ faults = 0

-----------------------------------------------------------------------------
(* What the scheduler's decisions read.                                    *)

Sleeping(k) == pc[<<"sleep", k>>] \in {"reading", "stopping"}

StateOf(k) ==
  CASE Sleeping(k) -> "asleep"
    [] ~Sleeping(k) /\ wakes[k] # "no" -> "starting"
    [] OTHER ->
         CASE seen[k] \in {"none", "running", "paused"} -> seen[k]
           [] seen[k] = "restarting" -> "starting"
           [] OTHER -> IF slept[k] /\ desired[k] = "running" THEN "asleep" ELSE "stopped"

Busy(k) == Lock!Taken(k) \/ wakes[k] # "no" \/ Sleeping(k)

Held(k) == \E c \in Client : req[<<k, c>>] # "none"

(* The freshness of the observation, the create grace and idleSec = 0 only *)
(* veto more: they are the freedom not to take a step this enables.        *)
Sleepable(k) ==
  /\ seen[k] = "running"
  /\ ~always[k]
  /\ desired[k] = "running"
  /\ ~Busy(k)

IsIdleCandidate(k) == Sleepable(k) /\ age[k] = "idle"

(* Mutant: the pool is drawn from the ledger's order alone. *)
IsVictimByOrder(k) == Sleepable(k) /\ ~young[k]

IsVictim(k) == Sleepable(k) /\ ~Held(k) /\ age[k] # "hot" /\ ~young[k]

(* Mutant: the traffic door is checked at the request only. *)
NeverRefuses(o) == FALSE

(* Traffic is refused a service the developer stopped or suspended. *)
Refuses(o) == o[1] = "wake" /\ desired[o[2]] # "running"

-----------------------------------------------------------------------------
(* Bookkeeping shared by the steps.                                        *)

(* A full docker ps folded into the snapshot. *)
Refresh == seen' = ctr

Saw(k, s) == seen' = [seen EXCEPT ![k] = s]
Becomes(k, s) == ctr' = [ctr EXCEPT ![k] = s]
Goto(o, l) == pc' = [pc EXCEPT ![o] = l]
Mark(k, b) == slept' = [slept EXCEPT ![k] = b]
Touch(k) == age' = [age EXCEPT ![k] = "hot"]
Blame(k, b) == blamed' = [blamed EXCEPT ![k] = b]

Fault == faults < MaxFaults /\ faults' = faults + 1

(* onUp: a fresh stamp, no sleep mark, running in the snapshot. *)
OnUp(k) ==
  /\ Touch(k)
  /\ young' = [young EXCEPT ![k] = TRUE]
  /\ Mark(k, FALSE)
  /\ Saw(k, "running")

(* The wake registered for k settles: the entry goes, whoever joined it    *)
(* is told.  Joined callers that gave up earlier are no longer waiting.    *)
Settle(k, ok) ==
  /\ wakes' = [wakes EXCEPT ![k] = "no"]
  /\ req' = [r \in DOMAIN req |->
               IF r[1] = k /\ req[r] = "waiting"
               THEN (IF ok THEN "woken" ELSE "none") ELSE req[r]]

Registered(o) ==
  \/ o[1] = "wake"
  \/ o[1] # "sleep" /\ wakes[o[2]] = "inline"

(* Mutant: the clean-up of an inline wake does not ask whose entry it is. *)
EndWakeAnyEntry(o, joined) ==
  /\ IF Registered(o) THEN Settle(o[2], joined)
     ELSE wakes' = [wakes EXCEPT ![o[2]] = "no"] /\ UNCHANGED req
  /\ Lock!Leave(o)
  /\ Goto(o, "idle")
  /\ tried' = [tried EXCEPT ![o] = {}]
  /\ verb' = IF o[1] = "api" THEN [verb EXCEPT ![o[2]] = "none"] ELSE verb

(* The end of an operation that ran wakeLocked: joined tells how the wake  *)
(* settled for the requests that share it.                                 *)
EndWake(o, joined) ==
  /\ IF Registered(o) THEN Settle(o[2], joined) ELSE UNCHANGED <<wakes, req>>
  /\ Lock!Leave(o)
  /\ Goto(o, "idle")
  /\ tried' = [tried EXCEPT ![o] = {}]
  /\ verb' = IF o[1] = "api" THEN [verb EXCEPT ![o[2]] = "none"] ELSE verb

EndApi(k, ok) ==
  /\ Lock!Leave(<<"api", k>>)
  /\ Goto(<<"api", k>>, "idle")
  /\ Blame(k, ~ok)
  /\ verb' = [verb EXCEPT ![k] = "none"]
  /\ UNCHANGED <<tried, wakes, req>>

-----------------------------------------------------------------------------
(* sleep(key, reason): taken without waiting, marked before its first await.*)

BeginSleep(k, by) ==
  /\ Lock!Seize(<<"sleep", k>>, {k})
  /\ caller' = [caller EXCEPT ![k] = by]

(* The sweep's idle pass and its pressure pass. *)
SweepSleeps(k) ==
  /\ booted
  /\ IsIdleCandidate(k) \/ IsVictim(k)
  /\ BeginSleep(k, Tick)
  /\ Goto(<<"sleep", k>>, "reading")
  /\ UNCHANGED <<verb, tried, wakes, dockerVars, viewVars, rowVars, req, booted,
                 blamed, faults>>

(* sleep() settles: the lock goes and the eviction loop above looks again. *)
EndSleep(k, ok) ==
  LET o == <<"sleep", k>> by == caller[k] IN
  /\ Lock!Leave(o)
  /\ pc' = IF by = Tick THEN [pc EXCEPT ![o] = "idle"]
           ELSE [pc EXCEPT ![o] = "idle", ![by] = IF ok THEN "room" ELSE "evicting"]
  /\ caller' = [caller EXCEPT ![k] = Tick]
  /\ UNCHANGED <<verb, tried, wakes>>

SleepReads(k) ==
  /\ pc[<<"sleep", k>>] = "reading"
  /\ \/ /\ ctr[k] = "running"
        /\ seen' = ctr
        /\ Goto(<<"sleep", k>>, "stopping")
        /\ UNCHANGED <<lockVars, caller, verb, tried, wakes, slept>>
     \/ /\ ctr[k] = "created"
        /\ seen' = [ctr EXCEPT ![k] = "exited"]
        /\ Mark(k, TRUE)
        /\ EndSleep(k, TRUE)
     \/ /\ ctr[k] \notin {"running", "created"}
        /\ seen' = ctr
        /\ EndSleep(k, TRUE)
        /\ UNCHANGED slept
  /\ UNCHANGED <<ctr, late, age, young, desired, always, req, booted, blamed, faults>>

(* Mutant: the stop is not recorded in the row. *)
SleepStopsUnmarked(k) ==
  /\ pc[<<"sleep", k>>] = "stopping"
  /\ Becomes(k, "exited")
  /\ Saw(k, "exited")
  /\ EndSleep(k, TRUE)
  /\ Blame(k, FALSE)
  /\ UNCHANGED <<late, age, young, rowVars, req, booted, faults>>

SleepStops(k) ==
  /\ pc[<<"sleep", k>>] = "stopping"
  /\ Becomes(k, "exited")
  /\ Saw(k, "exited")
  /\ Mark(k, TRUE)
  /\ EndSleep(k, TRUE)
  /\ Blame(k, FALSE)
  /\ UNCHANGED <<late, age, young, desired, always, req, booted, faults>>

(* docker ps or docker stop failed; a stop may still land after its command *)
(* was killed, so what the snapshot says of the container is dropped.      *)
SleepFails(k) ==
  /\ Sleeping(k)
  /\ Fault
  /\ EndSleep(k, FALSE)
  /\ IF pc[<<"sleep", k>>] = "stopping"
     THEN /\ \E l \in BOOLEAN : late' = [late EXCEPT ![k] = l]
          /\ Saw(k, "none")
          /\ Blame(k, TRUE)
     ELSE UNCHANGED <<late, seen, blamed>>
  /\ UNCHANGED <<ctr, age, young, rowVars, req, booted>>

-----------------------------------------------------------------------------
(* wake(key, door) and wakeLocked.  The body runs under three owners: the  *)
(* singleflight's own acquisition ("wake", through the traffic door), the  *)
(* always-on pass ("on") and a developer's start ("api").                  *)

(* An inline wake is registered only when the map has no other. *)
RegisterInline(k) ==
  wakes' = IF wakes[k] = "no" THEN [wakes EXCEPT ![k] = "inline"] ELSE wakes

(* Traffic is refused again under the lock: a stop it queued behind wins. *)
WakeRefuses(o) ==
  /\ pc[o] = "check"
  /\ Refuses(o)
  /\ EndWake(o, FALSE)
  /\ UNCHANGED <<caller, dockerVars, viewVars, rowVars, booted, blamed, faults>>

(* The always-on pass of the sweep, and its second look under the lock. *)
SweepWakes(k) ==
  /\ booted
  /\ always[k] /\ desired[k] = "running" /\ ~Busy(k) /\ StateOf(k) = "asleep"
  /\ Lock!Arrive(<<"on", k>>, {k})
  /\ Goto(<<"on", k>>, "queued")
  /\ UNCHANGED <<verb, caller, tried, wakes, dockerVars, viewVars, rowVars, req,
                 booted, blamed, faults>>

(* Mutant: the wake is registered before the second look, which then reads *)
(* starting and gives up.                                                  *)
OnBeginsLate(k) ==
  /\ pc[<<"on", k>>] = "granted"
  /\ Lock!Leave(<<"on", k>>)
  /\ Goto(<<"on", k>>, "idle")
  /\ UNCHANGED <<wakes, verb, caller, tried, dockerVars, viewVars, rowVars, req, booted,
                 blamed, faults>>

OnBegins(k) ==
  LET o == <<"on", k>> wanted == always[k] /\ desired[k] = "running" IN
  /\ pc[o] = "granted"
  /\ IF wanted /\ StateOf(k) = "asleep"
     THEN RegisterInline(k) /\ Goto(o, "check") /\ UNCHANGED lockVars
     ELSE Lock!Leave(o) /\ Goto(o, "idle") /\ UNCHANGED wakes
  /\ UNCHANGED <<verb, caller, tried, dockerVars, viewVars, rowVars, req, booted,
                 blamed, faults>>

WakeBegins(k) ==
  /\ pc[<<"wake", k>>] = "granted"
  /\ Goto(<<"wake", k>>, "check")
  /\ UNCHANGED <<lockVars, verb, caller, tried, wakes, dockerVars, viewVars, rowVars,
                 req, booted, blamed, faults>>

(* readContainers, then the switch on the live state.  A start that finds  *)
(* no container keeps its intent and succeeds; whoever joined it does not. *)
WakeReads(o) ==
  LET k == o[2] IN
  /\ pc[o] = "check"
  /\ ~Refuses(o)
  /\ Refresh
  /\ \/ /\ ctr[k] = "none" \/ (ctr[k] = "paused" /\ o[1] = "wake")
        /\ EndWake(o, FALSE)
        /\ Blame(k, o[1] # "api")
     \/ /\ \/ ctr[k] = "running" /\ Goto(o, "probe")
           \/ ctr[k] = "paused" /\ o[1] # "wake" /\ Goto(o, "unpause")
           \/ ctr[k] = "restarting" /\ Goto(o, "await")
           \/ ctr[k] \in {"created", "exited"} /\ Goto(o, "room")
        /\ UNCHANGED <<lockVars, verb, tried, wakes, req, blamed>>
  /\ UNCHANGED <<caller, ctr, late, age, young, rowVars, booted, faults>>

(* A running container that answers its probe needs nothing else. *)
WakeProbes(o) ==
  LET k == o[2] IN
  /\ pc[o] = "probe"
  /\ \/ /\ ctr[k] = "running"
        /\ Touch(k)
        /\ Mark(k, FALSE)
        /\ EndWake(o, TRUE)
        /\ Blame(k, FALSE)
     \/ /\ Goto(o, "await")
        /\ UNCHANGED <<lockVars, verb, tried, wakes, req, blamed, age, slept>>
  /\ UNCHANGED <<caller, dockerVars, seen, young, desired, always, booted, faults>>

WakeUnpauses(o) ==
  /\ pc[o] = "unpause"
  /\ Becomes(o[2], IF ctr[o[2]] = "paused" THEN "running" ELSE ctr[o[2]])
  /\ Goto(o, "await")
  /\ UNCHANGED <<lockVars, verb, caller, tried, wakes, late, viewVars, rowVars,
                 req, booted, blamed, faults>>

(* Mutant: a victim may be drawn again. *)
WakeEvictsAgain(o, v) ==
  /\ pc[o] = "room"
  /\ v # o[2]
  /\ IsVictim(v)
  /\ BeginSleep(v, o)
  /\ pc' = [pc EXCEPT ![o] = "evicting", ![<<"sleep", v>>] = "reading"]
  /\ UNCHANGED <<tried, verb, wakes, dockerVars, viewVars, rowVars, req, booted, blamed,
                 faults>>

(* evictForRoom: one turn sleeps one victim it has not tried. *)
WakeEvicts(o, v) ==
  /\ pc[o] = "room"
  /\ v # o[2] /\ v \notin tried[o]
  /\ IsVictim(v)
  /\ BeginSleep(v, o)
  /\ pc' = [pc EXCEPT ![o] = "evicting", ![<<"sleep", v>>] = "reading"]
  /\ tried' = [tried EXCEPT ![o] = @ \cup {v}]
  /\ UNCHANGED <<verb, wakes, dockerVars, viewVars, rowVars, req, booted, blamed, faults>>

(* The loop returns: the floor is met, or the pool is empty. *)
WakeHasRoom(o) ==
  /\ pc[o] = "room"
  /\ Goto(o, "start")
  /\ UNCHANGED <<lockVars, verb, caller, tried, wakes, dockerVars, viewVars, rowVars,
                 req, booted, blamed, faults>>

WakeStarts(o) ==
  LET k == o[2] IN
  /\ pc[o] = "start"
  /\ Becomes(k, "running")
  /\ Goto(o, "await")
  /\ UNCHANGED <<lockVars, verb, caller, tried, wakes, late, viewVars, rowVars,
                 req, booted, blamed, faults>>

(* awaitReady, then onUp. *)
WakeIsReady(o) ==
  LET k == o[2] IN
  /\ pc[o] = "await"
  /\ ctr[k] = "running"
  /\ OnUp(k)
  /\ EndWake(o, TRUE)
  /\ Blame(k, FALSE)
  /\ UNCHANGED <<caller, dockerVars, desired, always, booted, faults>>

(* Mutant: the entry of a wake that failed is not taken out of the map. *)
WakeFailsUnsettled(o) ==
  /\ pc[o] = "await"
  /\ IF ctr[o[2]] = "exited" THEN UNCHANGED faults ELSE Fault
  /\ Blame(o[2], TRUE)
  /\ Lock!Leave(o)
  /\ Goto(o, "idle")
  /\ tried' = [tried EXCEPT ![o] = {}]
  /\ verb' = IF o[1] = "api" THEN [verb EXCEPT ![o[2]] = "none"] ELSE verb
  /\ UNCHANGED <<caller, wakes, dockerVars, viewVars, rowVars, req, booted>>

(* No room could be made (an eviction failed), a docker call failed (a     *)
(* failed start may land all the same), or the readiness wait ended: the   *)
(* container exited, or the deadline passed.  Nothing is recorded.  A wake *)
(* that found no room has touched nothing; a start has written its intent. *)
WakeFails(o) ==
  LET k == o[2] IN
  /\ \/ /\ pc[o] = "evicting"
        /\ \A v \in Service : caller[v] # o
        /\ Blame(k, blamed[k] \/ o[1] = "api")
        /\ UNCHANGED <<faults, ctr>>
     \/ /\ pc[o] \in {"check", "unpause", "start"} /\ ~Refuses(o)
        /\ Fault
        /\ ctr' \in {ctr, IF pc[o] = "start" THEN [ctr EXCEPT ![k] = "running"] ELSE ctr}
        /\ Blame(k, TRUE)
     \/ /\ pc[o] = "await"
        /\ IF ctr[k] = "exited" THEN UNCHANGED faults ELSE Fault
        /\ Blame(k, TRUE)
        /\ UNCHANGED ctr
  /\ EndWake(o, FALSE)
  /\ UNCHANGED <<caller, late, viewVars, rowVars, booted>>

WakeSteps(o) ==
  \/ WakeRefuses(o) \/ WakeReads(o) \/ WakeProbes(o) \/ WakeUnpauses(o)
  \/ \E v \in Service : WakeEvicts(o, v)
  \/ WakeHasRoom(o) \/ WakeStarts(o) \/ WakeIsReady(o)

-----------------------------------------------------------------------------
(* The developer's verbs.  Each takes the branch key and the service key.  *)

(* Mutant: the branch key alone, as if the sweep could not touch a service. *)
ApiCallsBranchOnly(k, v) ==
  LET o == <<"api", k>> IN
  /\ pc[o] = "idle"
  /\ Lock!Arrive(o, {Branch})
  /\ Goto(o, "queued")
  /\ verb' = [verb EXCEPT ![k] = v]
  /\ UNCHANGED <<caller, tried, wakes, dockerVars, viewVars, rowVars, req, booted,
                 blamed, faults>>

ApiCalls(k, v) ==
  LET o == <<"api", k>> IN
  /\ pc[o] = "idle"
  /\ Lock!Arrive(o, {Branch, k})
  /\ Goto(o, "queued")
  /\ verb' = [verb EXCEPT ![k] = v]
  /\ UNCHANGED <<caller, tried, wakes, dockerVars, viewVars, rowVars, req, booted,
                 blamed, faults>>

(* Mutant: the row is given the verb instead of the state it asks for. *)
ApiBeginsWithVerb(k) ==
  LET o == <<"api", k>> IN
  /\ pc[o] = "granted"
  /\ Goto(o, CASE verb[k] = "start" -> "hint" [] verb[k] = "stop" -> "thaw"
               [] verb[k] = "suspend" -> "pause" [] OTHER -> "remove")
  /\ desired' = IF verb[k] = "start" THEN [desired EXCEPT ![k] = verb[k]] ELSE desired
  /\ UNCHANGED <<lockVars, verb, caller, tried, wakes, dockerVars, viewVars, slept,
                 always, req, booted, blamed, faults>>

(* A start writes the intent before anything else; the others act first.   *)
(* A deploy begins with `rm -f`, whose failure is swallowed.               *)
ApiBegins(k) ==
  LET o == <<"api", k>> IN
  /\ pc[o] = "granted"
  /\ Goto(o, CASE verb[k] = "start" -> "hint" [] verb[k] = "stop" -> "thaw"
               [] verb[k] = "suspend" -> "pause" [] OTHER -> "remove")
  /\ desired' = IF verb[k] = "start" THEN [desired EXCEPT ![k] = "running"] ELSE desired
  /\ UNCHANGED <<lockVars, verb, caller, tried, wakes, dockerVars, viewVars, slept,
                 always, req, booted, blamed, faults>>

(* The adapter's start, unpause and start, is a hint whose outcome is not  *)
(* looked at; the inline wake that follows is the authority.               *)
StartHints(k) ==
  LET o == <<"api", k>> IN
  /\ pc[o] = "hint"
  /\ \/ Becomes(k, IF ctr[k] = "none" THEN "none" ELSE "running") /\ UNCHANGED faults
     \/ UNCHANGED ctr /\ Fault
  /\ RegisterInline(k)
  /\ Goto(o, "check")
  /\ UNCHANGED <<lockVars, verb, caller, tried, late, viewVars, rowVars, req,
                 booted, blamed>>

(* The adapter's stop: unpause first, its failure ignored. *)
StopThaws(k) ==
  /\ pc[<<"api", k>>] = "thaw"
  /\ Becomes(k, IF ctr[k] = "paused" THEN "running" ELSE ctr[k])
  /\ Goto(<<"api", k>>, "halt")
  /\ UNCHANGED <<lockVars, verb, caller, tried, wakes, late, viewVars, rowVars,
                 req, booted, blamed, faults>>

(* docker stop answered: the row and the snapshot are written from it. *)
StopHalts(k) ==
  /\ pc[<<"api", k>>] = "halt"
  /\ ctr[k] # "none"
  /\ Becomes(k, IF ctr[k] = "created" THEN "created" ELSE "exited")
  /\ desired' = [desired EXCEPT ![k] = "stopped"]
  /\ Mark(k, FALSE)
  /\ Saw(k, "exited")
  /\ EndApi(k, TRUE)
  /\ UNCHANGED <<caller, late, age, young, always, booted, faults>>

SuspendPauses(k) ==
  /\ pc[<<"api", k>>] = "pause"
  /\ ctr[k] = "running"
  /\ Becomes(k, "paused")
  /\ desired' = [desired EXCEPT ![k] = "suspended"]
  /\ Saw(k, "paused")
  /\ EndApi(k, TRUE)
  /\ UNCHANGED <<caller, late, age, young, slept, always, booted, faults>>

(* Mutant: best-effort, so the requested state is recorded all the same. *)
VerbFailsRecorded(k) ==
  LET at == pc[<<"api", k>>] IN
  /\ at \in {"halt", "pause"}
  /\ Fault
  /\ Saw(k, IF at = "halt" THEN "exited" ELSE "paused")
  /\ desired' = [desired EXCEPT ![k] = IF at = "halt" THEN "stopped" ELSE "suspended"]
  /\ EndApi(k, FALSE)
  /\ UNCHANGED <<caller, ctr, late, age, young, slept, always, booted>>

(* The adapter op failed: nothing is recorded.  A stop may yet land.  A    *)
(* pause needs a running container, a stop any container.                  *)
VerbFails(k) ==
  LET at == pc[<<"api", k>>] IN
  /\ at \in {"halt", "pause"}
  /\ IF \/ at = "halt" /\ ctr[k] = "none"
        \/ at = "pause" /\ ctr[k] # "running"
     THEN UNCHANGED <<faults, late>>
     ELSE Fault /\ \E l \in BOOLEAN : late' = [late EXCEPT ![k] = l /\ at = "halt"]
  /\ EndApi(k, FALSE)
  /\ UNCHANGED <<caller, ctr, viewVars, rowVars, booted>>

(* rm -f, create, start: the container is replaced in three commands, and  *)
(* is not started when the standing intent is stopped.                     *)
DeployRemoves(k) ==
  /\ pc[<<"api", k>>] = "remove"
  /\ \/ Becomes(k, "none") /\ UNCHANGED faults
     \/ UNCHANGED ctr /\ Fault
  /\ Goto(<<"api", k>>, "create")
  /\ UNCHANGED <<lockVars, verb, caller, tried, wakes, late, viewVars, rowVars,
                 req, booted, blamed>>

DeployCreates(k) ==
  /\ pc[<<"api", k>>] = "create"
  /\ ctr[k] = "none"
  /\ Becomes(k, "created")
  /\ Goto(<<"api", k>>, IF desired[k] = "stopped" THEN "reassert" ELSE "run")
  /\ UNCHANGED <<lockVars, verb, caller, tried, wakes, late, viewVars, rowVars,
                 req, booted, blamed, faults>>

DeployRuns(k) ==
  /\ pc[<<"api", k>>] = "run"
  /\ Becomes(k, "running")
  /\ IF desired[k] = "suspended"
     THEN /\ Goto(<<"api", k>>, "reassert")
          /\ UNCHANGED <<lockVars, verb, tried, wakes, req, blamed, seen, age, young, slept>>
     ELSE OnUp(k) /\ EndApi(k, TRUE)
  /\ UNCHANGED <<caller, late, desired, always, booted, faults>>

(* Mutant: the re-assert is skipped and the deploy reports success. *)
DeployReassertsNothing(k) ==
  /\ pc[<<"api", k>>] = "reassert"
  /\ Saw(k, IF desired[k] = "suspended" THEN "paused" ELSE "exited")
  /\ EndApi(k, TRUE)
  /\ UNCHANGED <<caller, dockerVars, age, young, rowVars, booted, faults>>

(* The standing intent is put on the replacement, by the same verb. *)
DeployReasserts(k) ==
  /\ pc[<<"api", k>>] = "reassert"
  /\ IF desired[k] = "suspended"
     THEN ctr[k] = "running" /\ Becomes(k, "paused") /\ Saw(k, "paused") /\ UNCHANGED slept
     ELSE UNCHANGED ctr /\ Saw(k, "exited") /\ Mark(k, FALSE)
  /\ EndApi(k, TRUE)
  /\ UNCHANGED <<caller, late, age, young, desired, always, booted, faults>>

(* A failed deploy may leave no container; a failed re-assert leaves the   *)
(* replacement up, and says so to the scheduler.                           *)
DeployFails(k) ==
  LET at == pc[<<"api", k>>] IN
  /\ at \in {"create", "run", "reassert"}
  /\ IF \/ at = "create" /\ ctr[k] # "none"
        \/ at = "reassert" /\ desired[k] = "suspended" /\ ctr[k] # "running"
     THEN UNCHANGED faults
     ELSE Fault
  /\ IF at = "reassert" /\ desired[k] = "suspended"
     THEN OnUp(k)
     ELSE UNCHANGED <<seen, age, young, slept>>
  /\ EndApi(k, FALSE)
  /\ UNCHANGED <<caller, ctr, late, desired, always, booted>>

ApiSteps(k) ==
  \/ ApiBegins(k) \/ StartHints(k) \/ StopThaws(k) \/ StopHalts(k) \/ SuspendPauses(k)
  \/ DeployRemoves(k) \/ DeployCreates(k) \/ DeployRuns(k) \/ DeployReasserts(k)

-----------------------------------------------------------------------------
(* The lock grants. *)
Granted(o) ==
  /\ pc[o] = "queued"
  /\ Lock!Enter(o)
  /\ Goto(o, "granted")
  /\ UNCHANGED <<verb, caller, tried, wakes, dockerVars, viewVars, rowVars, req, booted,
                 blamed, faults>>

-----------------------------------------------------------------------------
(* A request on the HTTP lane (handle, resolveOrWake, proxy).              *)

ReqSet(r, s) == req' = [req EXCEPT ![r] = s]

(* Mutant: the request is held but not stamped. *)
RequestArrivesUnstamped(k, c) ==
  /\ req[<<k, c>>] = "none"
  /\ desired[k] = "running"
  /\ ReqSet(<<k, c>>, "resolving")
  /\ UNCHANGED <<opVars, dockerVars, viewVars, rowVars, booted, blamed, faults>>

(* Stamp and hold, before the first await. *)
RequestArrives(k, c) ==
  /\ req[<<k, c>>] = "none"
  /\ desired[k] = "running"
  /\ Touch(k)
  /\ ReqSet(<<k, c>>, "resolving")
  /\ UNCHANGED <<opVars, dockerVars, seen, young, rowVars, booted, blamed, faults>>

(* wake(key, traffic): join the wake in the map or register a new one. *)
WakeByTraffic(k, c) ==
  IF wakes[k] # "no"
  THEN ReqSet(<<k, c>>, "waiting") /\ UNCHANGED <<lockVars, pc, wakes>>
  ELSE /\ ReqSet(<<k, c>>, "waiting")
       /\ Lock!Arrive(<<"wake", k>>, {k})
       /\ Goto(<<"wake", k>>, "queued")
       /\ wakes' = [wakes EXCEPT ![k] = "work"]

(* The address resolved (or not), and in the same step the state is read:  *)
(* dial what is running; wake what is not, or refuses the dial.            *)
RequestGoes(k, c) ==
  /\ req[<<k, c>>] = "resolving"
  /\ \/ /\ StateOf(k) = "running" /\ ctr[k] = "running"
        /\ ReqSet(<<k, c>>, "served")
        /\ UNCHANGED <<lockVars, pc, wakes>>
     \/ /\ StateOf(k) # "running" \/ ctr[k] # "running"
        /\ IF desired[k] = "running"
           THEN WakeByTraffic(k, c)
           ELSE ReqSet(<<k, c>>, "none") /\ UNCHANGED <<lockVars, pc, wakes>>
  /\ UNCHANGED <<verb, caller, tried, dockerVars, viewVars, rowVars, booted, blamed, faults>>

(* After the wake: a fresh address, a probe, the dial. *)
RequestWoken(k, c) ==
  /\ req[<<k, c>>] = "woken"
  /\ ReqSet(<<k, c>>, IF ctr[k] = "running" THEN "served" ELSE "none")
  /\ UNCHANGED <<opVars, dockerVars, viewVars, rowVars, booted, blamed, faults>>

(* The response closed, or the caller's own deadline passed; the wake it   *)
(* was waiting for goes on.                                                *)
RequestEnds(k, c) ==
  /\ req[<<k, c>>] \in {"served", "waiting"}
  /\ ReqSet(<<k, c>>, "none")
  /\ UNCHANGED <<opVars, dockerVars, viewVars, rowVars, booted, blamed, faults>>

-----------------------------------------------------------------------------
(* The sweep's read, time, settings, docker on its own, and restarts.      *)

Refreshes ==
  /\ Refresh
  /\ UNCHANGED <<opVars, ctr, late, age, young, rowVars, req, booted, blamed, faults>>

(* The router's ticker stamps a held key, so only an unheld one ages. *)
Ages(k) ==
  /\ ~Held(k)
  /\ \/ age[k] = "hot" /\ age' = [age EXCEPT ![k] = "warm"]
     \/ age[k] = "warm" /\ age' = [age EXCEPT ![k] = "idle"]
  /\ UNCHANGED <<opVars, dockerVars, seen, young, rowVars, req, booted, blamed, faults>>

ProtectionEnds(k) ==
  /\ young[k]
  /\ young' = [young EXCEPT ![k] = FALSE]
  /\ UNCHANGED <<opVars, dockerVars, seen, age, rowVars, req, booted, blamed, faults>>

SetAlwaysOn(k) ==
  /\ always' = [always EXCEPT ![k] = ~@]
  /\ UNCHANGED <<opVars, dockerVars, viewVars, desired, slept, req, booted, blamed, faults>>

LateStopLands(k) ==
  /\ late[k]
  /\ late' = [late EXCEPT ![k] = FALSE]
  /\ Becomes(k, IF ctr[k] \in {"running", "paused", "restarting"} THEN "exited" ELSE ctr[k])
  /\ Blame(k, TRUE)
  /\ UNCHANGED <<opVars, viewVars, rowVars, req, booted, faults>>

(* The process dies; `--restart unless-stopped` brings it back. *)
ContainerCrashes(k) ==
  /\ ctr[k] = "running"
  /\ Fault
  /\ Becomes(k, "restarting")
  /\ Blame(k, TRUE)
  /\ UNCHANGED <<opVars, late, viewVars, rowVars, req, booted>>

ContainerRevives(k) ==
  /\ ctr[k] = "restarting"
  /\ Becomes(k, "running")
  /\ Blame(k, TRUE)
  /\ UNCHANGED <<opVars, late, viewVars, rowVars, req, booted, faults>>

(* What a docker command in flight may have done when the daemon dies. *)
InFlight(k) ==
  {ctr[k]} \cup UNION {CASE pc[o] \in {"stopping", "halt"} -> {"exited"}
                         [] pc[o] \in {"start", "run", "hint"} -> {"running"}
                         [] pc[o] \in {"unpause", "thaw"} /\ ctr[k] = "paused" -> {"running"}
                         [] pc[o] \in {"pause", "reassert"} /\ ctr[k] = "running" -> {"paused"}
                         [] pc[o] = "remove" -> {"none"}
                         [] pc[o] = "create" /\ ctr[k] = "none" -> {"created"}
                         [] OTHER -> {} : o \in {x \in Op : x[2] = k}}

(* The daemon restarts: state.json and docker survive, memory does not. *)
DaemonRestarts ==
  /\ Fault
  /\ need' = [o \in Op |-> {}] /\ inside' = {} /\ older' = {}
  /\ pc' = [o \in Op |-> "idle"]
  /\ verb' = [k \in Service |-> "none"]
  /\ caller' = [k \in Service |-> Tick]
  /\ tried' = [o \in Op |-> {}]
  /\ wakes' = [k \in Service |-> "no"]
  /\ req' = [r \in DOMAIN req |-> "none"]
  /\ seen' = [k \in Service |-> "none"]
  /\ age' = [k \in Service |-> "hot"]
  /\ young' = [k \in Service |-> FALSE]
  /\ blamed' = [k \in Service |-> blamed[k] \/ Lock!Taken(k)]
  /\ booted' = FALSE
  /\ \E c \in [Service -> ContainerState] :
       /\ \A k \in Service : c[k] \in InFlight(k)
       /\ ctr' = c
  /\ UNCHANGED <<late, rowVars>>

(* Boot: one read, a stamp for everyone, and a sleep mark docker disproves *)
(* is cleared.                                                             *)
Reconciles ==
  /\ ~booted
  /\ booted' = TRUE
  /\ Refresh
  /\ slept' = [k \in Service |-> slept[k] /\ ctr[k] # "running"]
  /\ age' = [k \in Service |-> IF slept[k] /\ ctr[k] = "running" THEN "hot" ELSE age[k]]
  /\ UNCHANGED <<opVars, ctr, late, young, desired, always, req, blamed, faults>>

-----------------------------------------------------------------------------
Next ==
  \/ \E o \in Op : Granted(o) \/ WakeSteps(o) \/ WakeFails(o)
  \/ \E k \in Service :
       \/ SweepSleeps(k) \/ SleepReads(k) \/ SleepStops(k) \/ SleepFails(k)
       \/ SweepWakes(k) \/ OnBegins(k) \/ WakeBegins(k)
       \/ \E v \in Verbs : ApiCalls(k, v)
       \/ ApiSteps(k) \/ VerbFails(k) \/ DeployFails(k)
       \/ \E c \in Client : \/ RequestArrives(k, c) \/ RequestGoes(k, c)
                            \/ RequestWoken(k, c) \/ RequestEnds(k, c)
       \/ Ages(k) \/ ProtectionEnds(k)
       \/ LateStopLands(k) \/ ContainerCrashes(k) \/ ContainerRevives(k)
  \/ \E k \in Switched : SetAlwaysOn(k)
  \/ Refreshes \/ DaemonRestarts \/ Reconciles

Spec == Init /\ [][Next]_vars

(* The event loop runs what is ready; docker answers; the sweep's timer    *)
(* keeps firing; a crashed container is retried by docker.  Nothing makes  *)
(* a client, a developer or a fault act.                                   *)
Fairness ==
  /\ \A o \in Op : WF_vars(Granted(o)) /\ WF_vars(WakeSteps(o) \/ WakeFails(o))
  /\ \A k \in Service :
       /\ WF_vars(SleepReads(k) \/ SleepStops(k))
       /\ WF_vars(OnBegins(k) \/ WakeBegins(k))
       /\ WF_vars(ApiSteps(k) \/ VerbFails(k) \/ DeployFails(k))
       /\ WF_vars(SweepWakes(k))
       /\ WF_vars(ContainerRevives(k))
  /\ WF_vars(Refreshes) /\ WF_vars(Reconciles)

FairSpec == Spec /\ Fairness

-----------------------------------------------------------------------------
(* Properties.                                                             *)

(* An idle stop and an eviction never cut a request that reached the       *)
(* container: isIdleCandidate and isVictim decide in the same step that    *)
(* takes the lock, and stateOf says asleep for the whole stop.             *)
NoRequestCut ==
  \A k \in Service, c \in Client :
    Sleeping(k) => req[<<k, c>>] \notin {"woken", "served"}

(* One operation at a time issues docker commands against a container,     *)
(* although sweeps, wakes, evictions inside wakes and the developer's      *)
(* verbs all reach for it.                                                 *)
OneMutator ==
  \A k \in Service : Cardinality({o \in Op : o[2] = k /\ Mutating(o)}) <= 1

(* A service the developer stopped is not brought up by a wake that queued *)
(* behind the stop, by the always-on pass, by a deploy or by a restart.    *)
StoppedStaysDown ==
  [][\A k \in Service :
       desired[k] = "stopped" /\ ctr[k] \in {"none", "created", "exited"}
         => ctr'[k] \in {"none", "created", "exited"}]_vars

(* With no operation on a service, and none failed since the last that     *)
(* went through, docker is where the row says: running or asleep, stopped, *)
(* or suspended; and a service marked asleep is not running.               *)
RowAgreesWithDocker ==
  \A k \in Service :
    ~Lock!Taken(k) /\ ~blamed[k] =>
      /\ desired[k] = "running" =>
           ctr[k] \in IF slept[k] THEN {"created", "exited", "none"} ELSE {"running", "none"}
      /\ desired[k] = "stopped" => ctr[k] \in {"created", "exited"} /\ ~slept[k]
      /\ desired[k] = "suspended" => ctr[k] = "paused"

(* What is written into the snapshot is what docker did: no transition is  *)
(* recorded for a command that failed.  Up and down are what the sweep and *)
(* the eviction pool tell apart.                                           *)
SnapshotRecordsOutcomes ==
  [][\A k \in Service :
       seen'[k] # seen[k] /\ seen'[k] # "none" =>
         /\ seen'[k] = "exited" => ctr'[k] \in {"exited", "created"}
         /\ seen'[k] = "paused" => ctr'[k] = "paused"]_vars

(* A request that waits waits on a wake that is under way: an entry of the *)
(* singleflight map always has an operation that will settle it.           *)
WaitersHaveAWake ==
  \A k \in Service :
    /\ (\E c \in Client : req[<<k, c>>] = "waiting") => wakes[k] # "no"
    /\ wakes[k] = "work" => pc[<<"wake", k>>] # "idle"
    /\ wakes[k] = "inline" => \E d \in {"on", "api"} : pc[<<d, k>>] \in WakeBody

(* A held request is let go: its wake ends whatever it queued behind, and  *)
(* no two operations wait for each other.                                  *)
HeldRequestsSettle ==
  \A k \in Service, c \in Client :
    req[<<k, c>>] = "waiting" ~> req[<<k, c>>] # "waiting"

(* An always-on service whose container sleeps comes up, unless the setting*)
(* or the intent changes first or the developer operates on it.            *)
AlwaysOnComesBack ==
  \A k \in Service :
    always[k] /\ desired[k] = "running" /\ slept[k] /\ ctr[k] \in {"created", "exited"}
      ~> ~always[k] \/ desired[k] # "running" \/ ctr[k] = "running"
           \/ pc[<<"api", k>>] # "idle"

-----------------------------------------------------------------------------
(* What the repository says and the code does not do.                      *)

(* engine.ts:1783, of a stop whose adapter call failed: "Nothing was       *)
(* changed: the service keeps its previous state".  The adapter's stop     *)
(* un-pauses a suspended service before `docker stop`.                     *)
FailedStopChangesNothing ==
  [][\A k \in Service :
       VerbFails(k) /\ ~blamed[k] /\ desired[k] = "suspended" => ctr'[k] = "paused"]_vars

(* plans/impl/00-contract.md:817, for a sleeping service and each of the   *)
(* three doors: evictForRoom awaited, then docker start.  A developer's    *)
(* start runs `docker start` before the wake that makes the room.          *)
RoomBeforeStart ==
  [][\A k \in Service :
       slept[k] /\ ctr[k] \in {"created", "exited"} /\ ctr'[k] = "running"
         => \E o \in Op : o[2] = k /\ pc[o] \in {"start", "run"}]_vars
=============================================================================
