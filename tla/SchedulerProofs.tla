--------------------------- MODULE SchedulerProofs ---------------------------
(***************************************************************************)
(* Proofs about Scheduler, for every set of services, clients and verbs    *)
(* and every number of faults.  First what a step does to the lock and to  *)
(* the program counters: it has one of nine shapes, and each shape keeps   *)
(* the two in agreement, so that at most one operation at a time works on  *)
(* a container.  Then the types of the other variables, and the requests,  *)
(* which no sleep ever cuts.  Then the wakes: an entry of the singleflight *)
(* map is there as long as the operation that will take it out.  Last the  *)
(* intents an operation may rely on while it holds the lock, from which    *)
(* the row, the containers and the snapshot are shown to agree.            *)
(***************************************************************************)
EXTENDS Scheduler, TLAPS, FiniteSetTheorems

LEMMA Kinds ==
  ASSUME NEW k \in Service
  PROVE  /\ <<"sleep", k>> \in Op /\ <<"wake", k>> \in Op
         /\ <<"on", k>> \in Op /\ <<"api", k>> \in Op
         /\ <<"sleep", k>>[2] = k /\ <<"wake", k>>[2] = k
         /\ <<"on", k>>[2] = k /\ <<"api", k>>[2] = k
         /\ <<"sleep", k>>[1] = "sleep" /\ <<"wake", k>>[1] = "wake"
         /\ <<"on", k>>[1] = "on" /\ <<"api", k>>[1] = "api"
BY DEF Op

LEMMA OpShape ==
  ASSUME NEW o \in Op
  PROVE  /\ o = <<o[1], o[2]>>
         /\ o[1] \in {"sleep", "wake", "on", "api"}
         /\ o[2] \in Service
BY DEF Op

-----------------------------------------------------------------------------
(* The lock and the program counters.                                      *)

Waiting == {"idle", "queued"}
Asleep == {"reading", "stopping"}

(* The lock: askers are in line, and whoever is inside has nobody before   *)
(* it that wants a key of its own.                                         *)
LockInv ==
  /\ Lock!LockTypeOK
  /\ inside \subseteq Lock!Outstanding
  /\ older \subseteq Lock!Outstanding \X Lock!Outstanding
  /\ \A a, b \in Lock!Outstanding : a # b => <<a, b>> \in older \/ <<b, a>> \in older
  /\ \A a \in Op, b \in inside : <<a, b>> \in older => ~Lock!Contend(a, b)

(* An operation past its grant is inside the lock with its service's key.  *)
PcInv ==
  /\ pc \in [Op -> Pc]
  /\ \A o \in Op : /\ pc[o] = "idle" <=> need[o] = {}
                   /\ pc[o] \in Waiting <=> o \notin inside
                   /\ pc[o] # "idle" => o[2] \in need[o]

(* The wake above an eviction waits for exactly one sleep. *)
CallerInv ==
  /\ caller \in [Service -> Op \cup {Tick}]
  /\ \A v \in Service : caller[v] # Tick => Sleeping(v) /\ pc[caller[v]] = "evicting"
  /\ \A v, w \in Service : caller[v] = caller[w] /\ caller[v] # Tick => v = w

OrderInv == LockInv /\ PcInv /\ CallerInv

LEMMA LockExcludes ==
  ASSUME LockInv, NEW a \in inside, NEW b \in inside, a # b
  PROVE  ~Lock!Contend(a, b)
<1>1. a \in Lock!Outstanding /\ b \in Lock!Outstanding /\ a \in Op /\ b \in Op
  BY DEF LockInv, Lock!LockTypeOK
<1>2. Lock!Contend(a, b) <=> Lock!Contend(b, a)
  BY DEF Lock!Contend
<1> QED
  BY <1>1, <1>2 DEF LockInv

LEMMA ArriveKeeps ==
  ASSUME LockInv, NEW o \in Op, NEW ks \in SUBSET Key, Lock!Arrive(o, ks)
  PROVE  LockInv'
<1>1. o \notin Lock!Outstanding /\ Lock!Outstanding' = Lock!Outstanding \cup {o}
  BY DEF Lock!Arrive, Lock!Outstanding, LockInv, Lock!LockTypeOK
<1>2. Lock!LockTypeOK'
  BY DEF Lock!Arrive, Lock!Outstanding, LockInv, Lock!LockTypeOK
<1>3. ASSUME NEW a \in Op, NEW b \in inside', <<a, b>> \in older'
      PROVE  ~Lock!Contend(a, b)'
  <2>1. b \in inside /\ b # o /\ <<a, b>> \in older /\ a # o
    BY <1>1, <1>3 DEF Lock!Arrive, LockInv
  <2> QED
    BY <2>1 DEF Lock!Arrive, LockInv, Lock!Contend, Lock!LockTypeOK
<1> QED
  BY <1>1, <1>2, <1>3 DEF Lock!Arrive, LockInv

LEMMA SeizeKeeps ==
  ASSUME LockInv, NEW o \in Op, NEW ks \in SUBSET Key, Lock!Seize(o, ks)
  PROVE  LockInv'
<1>1. o \notin Lock!Outstanding /\ Lock!Outstanding' = Lock!Outstanding \cup {o}
  BY DEF Lock!Seize, Lock!Outstanding, LockInv, Lock!LockTypeOK
<1>2. Lock!LockTypeOK'
  BY DEF Lock!Seize, Lock!Outstanding, LockInv, Lock!LockTypeOK
<1>3. ASSUME NEW a \in Op, NEW b \in inside', <<a, b>> \in older'
      PROVE  ~Lock!Contend(a, b)'
  <2>1. a # o
    BY <1>1, <1>3 DEF Lock!Seize, LockInv
  <2>2. need'[a] = need[a]
    BY <2>1 DEF Lock!Seize, LockInv, Lock!LockTypeOK
  <2>3. CASE b = o
    BY <2>2, <2>3 DEF Lock!Seize, LockInv, Lock!Contend, Lock!Taken, Lock!LockTypeOK
  <2>4. CASE b # o
    BY <1>1, <1>3, <2>2, <2>4 DEF Lock!Seize, LockInv, Lock!Contend, Lock!LockTypeOK
  <2> QED
    BY <2>3, <2>4
<1> QED
  BY <1>1, <1>2, <1>3 DEF Lock!Seize, LockInv

LEMMA EnterKeeps ==
  ASSUME LockInv, NEW o \in Op, Lock!Enter(o)
  PROVE  LockInv'
<1>1. Lock!Outstanding' = Lock!Outstanding /\ o \in Lock!Outstanding
  BY DEF Lock!Enter, Lock!MayEnter, Lock!Outstanding
<1>2. ASSUME NEW a \in Op, NEW b \in inside', <<a, b>> \in older'
      PROVE  ~Lock!Contend(a, b)'
  BY <1>2 DEF Lock!Enter, Lock!MayEnter, LockInv, Lock!Contend
<1> QED
  BY <1>1, <1>2 DEF Lock!Enter, LockInv, Lock!LockTypeOK

LEMMA LeaveKeeps ==
  ASSUME LockInv, NEW o \in Op, Lock!Leave(o)
  PROVE  LockInv'
<1>1. Lock!Outstanding' = Lock!Outstanding \ {o}
  BY DEF Lock!Leave, Lock!Outstanding, LockInv, Lock!LockTypeOK
<1>2. Lock!LockTypeOK' /\ inside' \subseteq Lock!Outstanding'
  BY <1>1 DEF Lock!Leave, LockInv, Lock!LockTypeOK
<1>3. /\ older' \subseteq Lock!Outstanding' \X Lock!Outstanding'
      /\ \A a, b \in Lock!Outstanding' : a # b => <<a, b>> \in older' \/ <<b, a>> \in older'
  BY <1>1 DEF Lock!Leave, LockInv
<1>4. ASSUME NEW a \in Op, NEW b \in inside', <<a, b>> \in older'
      PROVE  ~Lock!Contend(a, b)'
  <2>1. a # o /\ b # o /\ b \in inside /\ <<a, b>> \in older
    BY <1>4 DEF Lock!Leave
  <2> QED
    BY <2>1 DEF Lock!Leave, LockInv, Lock!Contend, Lock!LockTypeOK
<1> QED
  BY <1>2, <1>3, <1>4 DEF LockInv

(* The nine shapes of a step. *)
Stays == UNCHANGED <<need, inside, older, pc, caller>>

Moves(o) ==
  /\ \E l \in Pc \ Waiting :
       /\ pc' = [pc EXCEPT ![o] = l]
       /\ \/ pc[o] \notin Waiting \cup Asleep \cup {"evicting"}
          \/ pc[o] = "reading" /\ l = "stopping"
  /\ UNCHANGED <<need, inside, older, caller>>

Ends(o) ==
  /\ pc[o] \notin Waiting \cup Asleep
  /\ pc[o] = "evicting" => \A v \in Service : caller[v] # o
  /\ Lock!Leave(o)
  /\ pc' = [pc EXCEPT ![o] = "idle"]
  /\ UNCHANGED caller

Asks(o) ==
  /\ \E ks \in SUBSET Key : o[2] \in ks /\ Lock!Arrive(o, ks)
  /\ pc' = [pc EXCEPT ![o] = "queued"]
  /\ UNCHANGED caller

Enters(o) ==
  /\ pc[o] = "queued"
  /\ Lock!Enter(o)
  /\ pc' = [pc EXCEPT ![o] = "granted"]
  /\ UNCHANGED caller

Sleeps(v) ==
  /\ BeginSleep(v, Tick)
  /\ pc' = [pc EXCEPT ![<<"sleep", v>>] = "reading"]

Evicts(o, v) ==
  /\ pc[o] = "room"
  /\ BeginSleep(v, o)
  /\ pc' = [pc EXCEPT ![o] = "evicting", ![<<"sleep", v>>] = "reading"]

Slept(v) == Sleeping(v) /\ \E ok \in BOOLEAN : EndSleep(v, ok)

Restarts ==
  /\ need' = [o \in Op |-> {}] /\ inside' = {} /\ older' = {}
  /\ pc' = [o \in Op |-> "idle"]
  /\ caller' = [k \in Service |-> Tick]

Shape ==
  \/ Stays \/ Restarts
  \/ \E o \in Op : Moves(o) \/ Ends(o) \/ Asks(o) \/ Enters(o)
  \/ \E v \in Service : Sleeps(v) \/ Slept(v)
  \/ \E o \in Op, v \in Service : Evicts(o, v)

LEMMA TickIsNoOp == Tick \notin Op
BY DEF Tick, Op

LEMMA MovesKeeps ==
  ASSUME OrderInv, NEW o \in Op, Moves(o)
  PROVE  OrderInv'
<1>1. LockInv'
  BY DEF Moves, OrderInv, LockInv, Lock!LockTypeOK, Lock!Outstanding, Lock!Contend
<1>2. PICK l \in Pc \ Waiting :
        /\ pc' = [pc EXCEPT ![o] = l]
        /\ \/ pc[o] \notin Waiting \cup Asleep \cup {"evicting"}
           \/ pc[o] = "reading" /\ l = "stopping"
  BY DEF Moves
<1>3. PcInv'
  BY <1>2 DEF Moves, OrderInv, PcInv, Waiting, Asleep
<1>4. CallerInv'
  BY <1>2, Kinds, TickIsNoOp DEF Moves, OrderInv, PcInv, CallerInv, Sleeping, Waiting, Asleep
<1> QED
  BY <1>1, <1>3, <1>4 DEF OrderInv

LEMMA EndsKeeps ==
  ASSUME OrderInv, NEW o \in Op, Ends(o)
  PROVE  OrderInv'
<1>1. LockInv'
  BY LeaveKeeps DEF Ends, OrderInv
<1>2. PcInv'
  BY DEF Ends, Lock!Leave, OrderInv, PcInv, LockInv, Lock!LockTypeOK, Waiting, Asleep, Pc
<1>3. CallerInv'
  BY Kinds, TickIsNoOp DEF Ends, OrderInv, PcInv, CallerInv, Sleeping, Waiting, Asleep
<1> QED
  BY <1>1, <1>2, <1>3 DEF OrderInv

LEMMA AsksKeeps ==
  ASSUME OrderInv, NEW o \in Op, Asks(o)
  PROVE  OrderInv'
<1>1. PICK ks \in SUBSET Key : o[2] \in ks /\ Lock!Arrive(o, ks)
  BY DEF Asks
<1>2. LockInv'
  BY <1>1, ArriveKeeps DEF OrderInv
<1>3. pc[o] = "idle"
  BY <1>1 DEF Lock!Arrive, OrderInv, PcInv
<1>4. PcInv'
  BY <1>1, <1>3 DEF Asks, Lock!Arrive, OrderInv, PcInv, LockInv, Lock!LockTypeOK, Waiting, Pc
<1>5. CallerInv'
  BY <1>3, Kinds, TickIsNoOp DEF Asks, OrderInv, PcInv, CallerInv, Sleeping
<1> QED
  BY <1>2, <1>4, <1>5 DEF OrderInv

LEMMA EntersKeeps ==
  ASSUME OrderInv, NEW o \in Op, Enters(o)
  PROVE  OrderInv'
<1>1. LockInv'
  BY EnterKeeps DEF Enters, OrderInv
<1>2. PcInv'
  BY DEF Enters, Lock!Enter, OrderInv, PcInv, LockInv, Lock!LockTypeOK, Waiting, Pc
<1>3. CallerInv'
  BY Kinds, TickIsNoOp DEF Enters, OrderInv, PcInv, CallerInv, Sleeping
<1> QED
  BY <1>1, <1>2, <1>3 DEF OrderInv

LEMMA SleepsKeeps ==
  ASSUME OrderInv, NEW v \in Service, Sleeps(v)
  PROVE  OrderInv'
<1> DEFINE s == <<"sleep", v>>
<1>1. s \in Op /\ s[2] = v /\ {v} \in SUBSET Key /\ Lock!Seize(s, {v})
  BY Kinds DEF Sleeps, BeginSleep, Key
<1>2. pc[s] = "idle" /\ caller[v] = Tick
  BY <1>1 DEF Lock!Seize, OrderInv, PcInv, CallerInv, Sleeping
<1> HIDE DEF s
<1>3. LockInv'
  BY <1>1, SeizeKeeps DEF OrderInv
<1>4. PcInv'
  BY <1>1, <1>2 DEF Sleeps, s, Lock!Seize, OrderInv, PcInv, LockInv, Lock!LockTypeOK, Waiting, Pc
<1>5. CallerInv'
  BY <1>1, <1>2, Kinds, TickIsNoOp
  DEF Sleeps, s, BeginSleep, OrderInv, PcInv, CallerInv, Sleeping
<1> QED
  BY <1>3, <1>4, <1>5 DEF OrderInv

LEMMA EvictsKeeps ==
  ASSUME OrderInv, NEW o \in Op, NEW v \in Service, Evicts(o, v)
  PROVE  OrderInv'
<1> DEFINE s == <<"sleep", v>>
<1>1. s \in Op /\ s[2] = v /\ {v} \in SUBSET Key /\ Lock!Seize(s, {v})
  BY Kinds DEF Evicts, BeginSleep, Key
<1>2. pc[s] = "idle" /\ caller[v] = Tick /\ pc[o] = "room" /\ s # o
  BY <1>1 DEF Lock!Seize, OrderInv, PcInv, CallerInv, Sleeping, Evicts
<1> HIDE DEF s
<1>3. LockInv'
  BY <1>1, SeizeKeeps DEF OrderInv
<1>4. PcInv'
  BY <1>1, <1>2 DEF Evicts, s, Lock!Seize, OrderInv, PcInv, LockInv, Lock!LockTypeOK, Waiting, Pc
<1>5. /\ caller' = [caller EXCEPT ![v] = o]
      /\ \A w \in Service : caller[w] # o
  BY <1>2, TickIsNoOp DEF Evicts, BeginSleep, OrderInv, CallerInv
<1>6. CallerInv'
  <2>1. pc' = [pc EXCEPT ![o] = "evicting", ![s] = "reading"] /\ pc \in [Op -> Pc]
    BY DEF Evicts, s, OrderInv, PcInv
  <2>2. ASSUME NEW w \in Service, caller'[w] # Tick
        PROVE  Sleeping(w)' /\ pc'[caller'[w]] = "evicting"
    <3>1. CASE w = v
      BY <1>1, <1>2, <1>5, <2>1, <3>1 DEF s, OrderInv, CallerInv, Sleeping
    <3>2. CASE w # v
      <4>1. /\ caller'[w] = caller[w] /\ Sleeping(w) /\ pc[caller[w]] = "evicting"
            /\ caller[w] \in Op
        BY <1>5, <2>2, <3>2 DEF OrderInv, CallerInv
      <4>2. <<"sleep", w>> \in Op \ {s, o} /\ caller[w] \notin {s, o}
        BY <1>2, <4>1, Kinds DEF Sleeping
      <4> QED
        BY <1>1, <2>1, <4>1, <4>2 DEF Sleeping
    <3> QED
      BY <3>1, <3>2
  <2> QED
    BY <1>5, <2>2 DEF OrderInv, CallerInv
<1> QED
  BY <1>3, <1>4, <1>6 DEF OrderInv

LEMMA SleptKeeps ==
  ASSUME OrderInv, NEW v \in Service, Slept(v)
  PROVE  OrderInv'
<1> DEFINE s == <<"sleep", v>>
           by == caller[v]
<1>1. PICK ok \in BOOLEAN : EndSleep(v, ok)
  BY DEF Slept
<1>2. s \in Op /\ s[2] = v /\ Lock!Leave(s) /\ pc[s] \in Asleep
  BY <1>1, Kinds DEF EndSleep, Slept, Sleeping, Asleep
<1>3. LockInv'
  BY <1>2, LeaveKeeps DEF OrderInv
<1>4. by # Tick => by \in Op /\ pc[by] = "evicting" /\ by # s
  <2>1. by \in Op \cup {Tick} /\ (by # Tick => pc[by] = "evicting")
    BY DEF OrderInv, CallerInv
  <2> QED
    BY <1>2, <2>1 DEF Asleep
<1>5. caller' = [caller EXCEPT ![v] = Tick]
  BY <1>1 DEF EndSleep
<1>6. CASE by = Tick
  <2>1. pc' = [pc EXCEPT ![s] = "idle"]
    BY <1>1, <1>6 DEF EndSleep
  <2>2. PcInv'
    BY <1>2, <2>1 DEF Lock!Leave, OrderInv, PcInv, LockInv, Lock!LockTypeOK, Waiting, Asleep, Pc
  <2>3. CallerInv'
    <3>1. \A w \in Service : caller'[w] = IF w = v THEN Tick ELSE caller[w]
      BY <1>5 DEF OrderInv, CallerInv
    <3>2. ASSUME NEW w \in Service, w # v PROVE pc'[<<"sleep", w>>] = pc[<<"sleep", w>>]
      <4>1. <<"sleep", w>> \in Op /\ <<"sleep", w>> # s
        BY <3>2, Kinds
      <4> QED
        BY <2>1, <4>1 DEF OrderInv, PcInv
    <3>3. \A o \in Op : o # s => pc'[o] = pc[o]
      BY <2>1 DEF OrderInv, PcInv
    <3> QED
      BY <1>2, <1>5, <3>1, <3>2, <3>3, TickIsNoOp DEF OrderInv, PcInv, CallerInv, Sleeping, Asleep
  <2> QED
    BY <1>3, <2>2, <2>3 DEF OrderInv
<1>7. CASE by # Tick
  <2>1. PICK l \in {"room", "evicting"} : pc' = [pc EXCEPT ![s] = "idle", ![by] = l]
    BY <1>1, <1>7 DEF EndSleep
  <2>2. PcInv'
    BY <1>2, <1>4, <1>7, <2>1
    DEF Lock!Leave, OrderInv, PcInv, LockInv, Lock!LockTypeOK, Waiting, Asleep, Pc
  <2>3. \A w \in Service : caller'[w] # Tick =>
          w # v /\ caller'[w] = caller[w] /\ caller[w] # by /\ caller[w] # s
    BY <1>2, <1>4, <1>5 DEF OrderInv, CallerInv, Asleep
  <2>4. CallerInv'
    <3>1. ASSUME NEW w \in Service, caller'[w] # Tick
          PROVE  Sleeping(w)' /\ pc'[caller'[w]] = "evicting"
      <4>1. /\ Sleeping(w) /\ pc[caller[w]] = "evicting" /\ caller[w] \in Op
            /\ caller'[w] = caller[w] /\ caller[w] \notin {by, s} /\ w # v
        BY <2>3, <3>1 DEF OrderInv, CallerInv
      <4>2. <<"sleep", w>> \in Op /\ <<"sleep", w>> # s /\ <<"sleep", w>> # by
        BY <1>4, <1>7, <4>1, Kinds DEF Sleeping
      <4> QED
        BY <1>2, <1>4, <1>7, <2>1, <4>1, <4>2 DEF Sleeping, OrderInv, PcInv
    <3>2. caller' \in [Service -> Op \cup {Tick}]
      BY <1>5 DEF OrderInv, CallerInv
    <3> QED
      BY <1>5, <2>3, <3>1, <3>2 DEF OrderInv, CallerInv
  <2> QED
    BY <1>3, <2>2, <2>4 DEF OrderInv
<1> QED
  BY <1>6, <1>7

LEMMA ShapeKeeps == OrderInv /\ Shape => OrderInv'
<1> SUFFICES ASSUME OrderInv, Shape PROVE OrderInv'
  OBVIOUS
<1>1. CASE Stays
  BY <1>1 DEF Stays, OrderInv, LockInv, PcInv, CallerInv, Sleeping, Lock!LockTypeOK,
              Lock!Outstanding, Lock!Contend
<1>2. CASE Restarts
  <2>1. LockInv'
    BY <1>2 DEF Restarts, LockInv, Lock!LockTypeOK, Lock!Outstanding
  <2>2. PcInv'
    BY <1>2 DEF Restarts, PcInv, Waiting, Pc
  <2>3. CallerInv'
    BY <1>2 DEF Restarts, CallerInv
  <2> QED
    BY <2>1, <2>2, <2>3 DEF OrderInv
<1> QED
  BY <1>1, <1>2, MovesKeeps, EndsKeeps, AsksKeeps, EntersKeeps, SleepsKeeps, EvictsKeeps,
     SleptKeeps DEF Shape

(* Every step has a shape.  The steps that leave lock and counters alone   *)
(* name opVars or its parts in their UNCHANGED.                            *)
LEMMA SleepShapes ==
  ASSUME OrderInv, NEW k \in Service,
         SweepSleeps(k) \/ SleepReads(k) \/ SleepStops(k) \/ SleepFails(k)
  PROVE  Shape
<1>1. CASE SweepSleeps(k)
  BY <1>1 DEF SweepSleeps, Goto, Sleeps, Shape
<1>2. CASE SleepReads(k)
  <2>1. CASE Goto(<<"sleep", k>>, "stopping") /\ UNCHANGED <<lockVars, caller>>
    <3>1. Moves(<<"sleep", k>>)
      BY <1>2, <2>1 DEF SleepReads, Goto, Moves, Pc, Waiting, lockVars
    <3> QED
      BY <3>1, Kinds DEF Shape
  <2>2. CASE EndSleep(k, TRUE)
    <3>1. Slept(k)
      BY <1>2, <2>2 DEF SleepReads, Slept, Sleeping
    <3> QED
      BY <3>1 DEF Shape
  <2> QED
    BY <1>2, <2>1, <2>2 DEF SleepReads
<1>3. CASE SleepStops(k)
  <2>1. Slept(k)
    BY <1>3 DEF SleepStops, Slept, Sleeping
  <2> QED
    BY <2>1 DEF Shape
<1>4. CASE SleepFails(k)
  <2>1. Slept(k)
    BY <1>4 DEF SleepFails, Slept
  <2> QED
    BY <2>1 DEF Shape
<1> QED
  BY <1>1, <1>2, <1>3, <1>4

LEMMA WakeShapes ==
  ASSUME OrderInv, NEW o \in Op, WakeSteps(o) \/ WakeFails(o)
  PROVE  Shape
<1> USE DEF lockVars
<1>1. ASSUME Moves(o) \/ Ends(o) PROVE Shape
  BY <1>1 DEF Shape
<1>2. CASE WakeRefuses(o)
  BY <1>1, <1>2 DEF WakeRefuses, EndWake, Goto, Ends, Waiting, Asleep
<1>3. CASE WakeReads(o)
  <2>1. pc[o] = "check" /\ UNCHANGED caller
    BY <1>3 DEF WakeReads
  <2>2. CASE EndWake(o, FALSE)
    BY <1>1, <2>1, <2>2 DEF EndWake, Goto, Ends, Waiting, Asleep
  <2>3. CASE (\E l \in {"probe", "unpause", "await", "room"} : Goto(o, l)) /\ UNCHANGED lockVars
    BY <1>1, <2>1, <2>3 DEF Goto, Moves, Pc, Waiting, Asleep
  <2> QED
    BY <1>3, <2>2, <2>3 DEF WakeReads
<1>4. CASE WakeProbes(o)
  <2>1. pc[o] = "probe" /\ UNCHANGED caller
    BY <1>4 DEF WakeProbes
  <2>2. CASE EndWake(o, TRUE)
    BY <1>1, <2>1, <2>2 DEF EndWake, Goto, Ends, Waiting, Asleep
  <2>3. CASE Goto(o, "await") /\ UNCHANGED lockVars
    BY <1>1, <2>1, <2>3 DEF Goto, Moves, Pc, Waiting, Asleep
  <2> QED
    BY <1>4, <2>2, <2>3 DEF WakeProbes
<1>5. CASE WakeUnpauses(o)
  BY <1>1, <1>5 DEF WakeUnpauses, Goto, Moves, Pc, Waiting, Asleep
<1>6. CASE \E v \in Service : WakeEvicts(o, v)
  <2>1. PICK v \in Service : WakeEvicts(o, v)
    BY <1>6
  <2>2. Evicts(o, v)
    BY <2>1 DEF WakeEvicts, Evicts
  <2> QED
    BY <2>2 DEF Shape
<1>7. CASE WakeHasRoom(o)
  BY <1>1, <1>7 DEF WakeHasRoom, Goto, Moves, Pc, Waiting, Asleep
<1>8. CASE WakeStarts(o)
  BY <1>1, <1>8 DEF WakeStarts, Goto, Moves, Pc, Waiting, Asleep
<1>9. CASE WakeIsReady(o)
  BY <1>1, <1>9 DEF WakeIsReady, EndWake, Goto, Ends, Waiting, Asleep
<1>10. CASE WakeFails(o)
  BY <1>1, <1>10 DEF WakeFails, EndWake, Goto, Ends, Waiting, Asleep
<1> QED
  BY <1>2, <1>3, <1>4, <1>5, <1>6, <1>7, <1>8, <1>9, <1>10 DEF WakeSteps

LEMMA ApiShapes ==
  ASSUME OrderInv, NEW k \in Service,
         (\E v \in Verbs : ApiCalls(k, v)) \/ ApiSteps(k) \/ VerbFails(k) \/ DeployFails(k)
  PROVE  Shape
<1> DEFINE o == <<"api", k>>
<1> USE DEF lockVars, Goto
<1>1. o \in Op /\ o[2] = k
  BY Kinds
<1>2. ASSUME Moves(o) \/ Ends(o) \/ Asks(o) PROVE Shape
  BY <1>1, <1>2 DEF Shape
<1>3. CASE \E v \in Verbs : ApiCalls(k, v)
  <2>1. PICK v \in Verbs : ApiCalls(k, v)
    BY <1>3
  <2>2. {Branch, k} \in SUBSET Key /\ o[2] \in {Branch, k}
    BY <1>1 DEF Key
  <2>3. Lock!Arrive(o, {Branch, k}) /\ pc' = [pc EXCEPT ![o] = "queued"] /\ UNCHANGED caller
    BY <2>1 DEF ApiCalls
  <2> HIDE DEF o
  <2> QED
    BY <1>2, <2>2, <2>3 DEF Asks
<1>4. CASE ApiBegins(k)
  <2>1. PICK l \in {"hint", "thaw", "pause", "remove"} : pc' = [pc EXCEPT ![o] = l]
    BY <1>4 DEF ApiBegins
  <2> QED
    BY <1>2, <1>4, <2>1 DEF ApiBegins, Moves, Pc, Waiting, Asleep
<1>5. CASE StartHints(k)
  BY <1>2, <1>5 DEF StartHints, Moves, Pc, Waiting, Asleep
<1>6. CASE StopThaws(k)
  BY <1>2, <1>6 DEF StopThaws, Moves, Pc, Waiting, Asleep
<1>7. CASE StopHalts(k)
  BY <1>2, <1>7 DEF StopHalts, EndApi, Ends, Waiting, Asleep
<1>8. CASE SuspendPauses(k)
  BY <1>2, <1>8 DEF SuspendPauses, EndApi, Ends, Waiting, Asleep
<1>9. CASE DeployRemoves(k)
  BY <1>2, <1>9 DEF DeployRemoves, Moves, Pc, Waiting, Asleep
<1>10. CASE DeployCreates(k)
  <2>1. PICK l \in {"reassert", "run"} : pc' = [pc EXCEPT ![o] = l]
    BY <1>10 DEF DeployCreates
  <2> QED
    BY <1>2, <1>10, <2>1 DEF DeployCreates, Moves, Pc, Waiting, Asleep
<1>11. CASE DeployRuns(k)
  BY <1>2, <1>11 DEF DeployRuns, EndApi, Moves, Ends, Pc, Waiting, Asleep
<1>12. CASE DeployReasserts(k)
  BY <1>2, <1>12 DEF DeployReasserts, EndApi, Ends, Waiting, Asleep
<1>13. CASE VerbFails(k)
  BY <1>2, <1>13 DEF VerbFails, EndApi, Ends, Waiting, Asleep
<1>14. CASE DeployFails(k)
  BY <1>2, <1>14 DEF DeployFails, EndApi, Ends, Waiting, Asleep
<1> QED
  BY <1>3, <1>4, <1>5, <1>6, <1>7, <1>8, <1>9, <1>10, <1>11, <1>12, <1>13, <1>14
  DEF ApiSteps

LEMMA NextHasShape == OrderInv /\ [Next]_vars => Shape
<1> SUFFICES ASSUME OrderInv, [Next]_vars PROVE Shape
  OBVIOUS
<1> USE DEF lockVars, opVars
<1>1. ASSUME UNCHANGED <<opVars>> PROVE Shape
  BY <1>1 DEF Shape, Stays
<1>2. ASSUME NEW o \in Op, Granted(o) PROVE Shape
  BY <1>2 DEF Granted, Goto, Enters, Shape
<1>3. ASSUME NEW k \in Service, SweepWakes(k) PROVE Shape
  <2>1. {k} \in SUBSET Key /\ <<"on", k>> \in Op /\ <<"on", k>>[2] = k
    BY Kinds DEF Key
  <2>2. Asks(<<"on", k>>)
    BY <1>3, <2>1 DEF SweepWakes, Goto, Asks
  <2> QED
    BY <2>1, <2>2 DEF Shape
<1>4. ASSUME NEW k \in Service, OnBegins(k) PROVE Shape
  <2>1. Moves(<<"on", k>>) \/ Ends(<<"on", k>>)
    BY <1>4 DEF OnBegins, Goto, Moves, Ends, Pc, Waiting, Asleep
  <2> QED
    BY <2>1, Kinds DEF Shape
<1>5. ASSUME NEW k \in Service, WakeBegins(k) PROVE Shape
  <2>1. Moves(<<"wake", k>>)
    BY <1>5 DEF WakeBegins, Goto, Moves, Pc, Waiting, Asleep
  <2> QED
    BY <2>1, Kinds DEF Shape
<1>6. ASSUME NEW k \in Service, NEW c \in Client, RequestGoes(k, c) PROVE Shape
  <2>1. CASE UNCHANGED <<lockVars, pc>>
    BY <1>6, <2>1 DEF RequestGoes, Stays, Shape
  <2>2. CASE Lock!Arrive(<<"wake", k>>, {k}) /\ Goto(<<"wake", k>>, "queued")
    <3>1. {k} \in SUBSET Key /\ <<"wake", k>> \in Op /\ <<"wake", k>>[2] = k
      BY Kinds DEF Key
    <3>2. Asks(<<"wake", k>>)
      BY <1>6, <2>2, <3>1 DEF RequestGoes, Goto, Asks
    <3> QED
      BY <3>1, <3>2 DEF Shape
  <2> QED
    BY <1>6, <2>1, <2>2 DEF RequestGoes, WakeByTraffic
<1>7. ASSUME NEW k \in Service, NEW c \in Client,
             RequestArrives(k, c) \/ RequestWoken(k, c) \/ RequestEnds(k, c)
      PROVE  Shape
  BY <1>1, <1>7 DEF RequestArrives, RequestWoken, RequestEnds
<1>8. ASSUME NEW k \in Service,
             \/ Ages(k) \/ ProtectionEnds(k) \/ SetAlwaysOn(k)
             \/ LateStopLands(k) \/ ContainerCrashes(k) \/ ContainerRevives(k)
      PROVE  Shape
  BY <1>1, <1>8
  DEF Ages, ProtectionEnds, SetAlwaysOn, LateStopLands, ContainerCrashes, ContainerRevives
<1>9. CASE Refreshes \/ Reconciles
  BY <1>1, <1>9 DEF Refreshes, Reconciles
<1>10. CASE DaemonRestarts
  BY <1>10 DEF DaemonRestarts, Restarts, Shape
<1>11. CASE UNCHANGED vars
  BY <1>1, <1>11 DEF vars
<1> QED
  BY <1>2, <1>3, <1>4, <1>5, <1>6, <1>7, <1>8, <1>9, <1>10, <1>11, SleepShapes, WakeShapes,
     ApiShapes, SchedulerAssumption DEF Next

LEMMA InitOrderInv == Init => OrderInv
<1> SUFFICES ASSUME Init PROVE OrderInv
  OBVIOUS
<1>1. LockInv
  BY DEF Init, Lock!LockInit, LockInv, Lock!LockTypeOK, Lock!Outstanding
<1>2. PcInv
  BY DEF Init, Lock!LockInit, PcInv, Waiting, Pc
<1>3. CallerInv
  BY DEF Init, CallerInv
<1> QED
  BY <1>1, <1>2, <1>3 DEF OrderInv

(* The lock and the program counters agree in every reachable state. *)
THEOREM Order == Spec => []OrderInv
BY InitOrderInv, NextHasShape, ShapeKeeps, PTL DEF Spec

(* At most one operation at a time issues docker commands on a container. *)
THEOREM OneMutatorEver == Spec => []OneMutator
<1>1. OrderInv => OneMutator
  <2> SUFFICES ASSUME OrderInv, NEW k \in Service
               PROVE  Cardinality({o \in Op : o[2] = k /\ Mutating(o)}) <= 1
    BY DEF OneMutator
  <2> DEFINE S == {o \in Op : o[2] = k /\ Mutating(o)}
  <2>1. \A a, b \in S : a = b
    <3> SUFFICES ASSUME NEW a \in S, NEW b \in S, a # b PROVE FALSE
      OBVIOUS
    <3>1. a \in inside /\ b \in inside /\ k \in need[a] /\ k \in need[b]
      BY DEF OrderInv, PcInv, Mutating, Waiting
    <3> QED
      BY <3>1, LockExcludes DEF OrderInv, Lock!Contend
  <2>2. CASE S = {}
    BY <2>2, FS_EmptySet
  <2>3. CASE S # {}
    <3>1. PICK a \in S : TRUE
      BY <2>3
    <3>2. S = {a}
      BY <2>1, <3>1
    <3>3. Cardinality({a}) = 1
      BY FS_Singleton
    <3>4. Cardinality(S) = 1
      BY <3>2, <3>3
    <3> QED
      BY <3>4
  <2> QED
    BY <2>2, <2>3
<1> QED
  BY <1>1, Order, PTL

-----------------------------------------------------------------------------
(* Types of what the lock does not order.                                  *)

OpData ==
  /\ verb \in [Service -> Verbs \cup {"none"}]
  /\ tried \in [Op -> SUBSET Service]
  /\ wakes \in [Service -> {"no", "work", "inline"}]
  /\ req \in [Service \X Client -> {"none", "resolving", "waiting", "woken", "served"}]

World ==
  /\ ctr \in [Service -> ContainerState]
  /\ late \in [Service -> BOOLEAN]
  /\ seen \in [Service -> ContainerState]
  /\ blamed \in [Service -> BOOLEAN]
  /\ faults \in 0..MaxFaults

Row ==
  /\ age \in [Service -> {"hot", "warm", "idle"}]
  /\ young \in [Service -> BOOLEAN]
  /\ desired \in [Service -> {"running", "stopped", "suspended"}]
  /\ slept \in [Service -> BOOLEAN]
  /\ always \in [Service -> BOOLEAN]
  /\ booted \in BOOLEAN

Data == OpData /\ World /\ Row

LEMMA EndWakeData ==
  ASSUME OpData, NEW o \in Op, NEW joined \in BOOLEAN, EndWake(o, joined)
  PROVE  OpData'
<1>1. wakes' \in [Service -> {"no", "work", "inline"}]
  <2>1. CASE Registered(o)
    BY <2>1 DEF EndWake, OpData, Settle
  <2>2. CASE ~Registered(o)
    BY <2>2 DEF EndWake, OpData
  <2> QED
    BY <2>1, <2>2
<1>2. req' \in [Service \X Client -> {"none", "resolving", "waiting", "woken", "served"}]
  BY DEF EndWake, OpData, Settle
<1> QED
  BY <1>1, <1>2, OpShape DEF EndWake, OpData

LEMMA EndApiData ==
  ASSUME OpData, NEW k \in Service, NEW ok \in BOOLEAN, EndApi(k, ok)
  PROVE  OpData'
BY DEF EndApi, OpData

LEMMA EndSleepData ==
  ASSUME OpData, NEW k \in Service, NEW ok \in BOOLEAN, EndSleep(k, ok), UNCHANGED req
  PROVE  OpData'
BY DEF EndSleep, OpData

LEMMA FaultData == World /\ Fault => faults' \in 0..MaxFaults
BY SchedulerAssumption DEF Fault, World

LEMMA OnUpData ==
  ASSUME World, Row, NEW k \in Service, OnUp(k)
  PROVE  /\ age' \in [Service -> {"hot", "warm", "idle"}]
         /\ young' \in [Service -> BOOLEAN]
         /\ slept' \in [Service -> BOOLEAN]
         /\ seen' \in [Service -> ContainerState]
BY DEF OnUp, Touch, Mark, Saw, World, Row, ContainerState

LEMMA SleepData ==
  ASSUME Data, NEW k \in Service,
         SweepSleeps(k) \/ SleepReads(k) \/ SleepStops(k) \/ SleepFails(k)
  PROVE  Data'
<1> USE DEF Data
<1>1. CASE SweepSleeps(k)
  BY <1>1 DEF SweepSleeps, dockerVars, viewVars, rowVars, OpData, World, Row
<1>2. CASE SleepReads(k)
  <2>1. OpData'
    <3>1. CASE UNCHANGED <<verb, tried, wakes>>
      BY <1>2, <3>1 DEF SleepReads, OpData
    <3>2. CASE EndSleep(k, TRUE)
      BY <1>2, <3>2, EndSleepData DEF SleepReads
    <3> QED
      BY <1>2, <3>1, <3>2 DEF SleepReads
  <2>2. World'
    BY <1>2 DEF SleepReads, World, ContainerState
  <2>3. Row'
    BY <1>2 DEF SleepReads, Mark, Row
  <2> QED
    BY <2>1, <2>2, <2>3
<1>3. CASE SleepStops(k)
  BY <1>3, EndSleepData DEF SleepStops, Becomes, Saw, Mark, Blame, World, Row, ContainerState
<1>4. CASE SleepFails(k)
  <2>1. OpData'
    BY <1>4, EndSleepData DEF SleepFails
  <2>2. World'
    BY <1>4, FaultData DEF SleepFails, Saw, Blame, World, ContainerState
  <2>3. Row'
    BY <1>4 DEF SleepFails, rowVars, Row
  <2> QED
    BY <2>1, <2>2, <2>3
<1> QED
  BY <1>1, <1>2, <1>3, <1>4

LEMMA WakeData ==
  ASSUME Data, NEW o \in Op, WakeSteps(o) \/ WakeFails(o)
  PROVE  Data'
<1> DEFINE k == o[2]
<1> USE DEF Data
<1>0. k \in Service
  BY OpShape
<1>1. CASE WakeRefuses(o)
  BY <1>1, EndWakeData DEF WakeRefuses, dockerVars, viewVars, rowVars, World, Row
<1>2. CASE WakeReads(o)
  <2>1. OpData'
    <3>1. CASE UNCHANGED <<verb, tried, wakes, req>>
      BY <3>1 DEF OpData
    <3>2. CASE EndWake(o, FALSE)
      BY <3>2, EndWakeData
    <3> QED
      BY <1>2, <3>1, <3>2 DEF WakeReads
  <2>2. World' /\ Row'
    BY <1>0, <1>2 DEF WakeReads, Refresh, Blame, rowVars, World, Row
  <2> QED
    BY <2>1, <2>2
<1>3. CASE WakeProbes(o)
  <2>1. OpData'
    <3>1. CASE UNCHANGED <<verb, tried, wakes, req>>
      BY <3>1 DEF OpData
    <3>2. CASE EndWake(o, TRUE)
      BY <3>2, EndWakeData
    <3> QED
      BY <1>3, <3>1, <3>2 DEF WakeProbes
  <2>2. World' /\ Row'
    BY <1>0, <1>3 DEF WakeProbes, Touch, Mark, Blame, dockerVars, World, Row
  <2> QED
    BY <2>1, <2>2
<1>4. CASE WakeUnpauses(o)
  BY <1>0, <1>4 DEF WakeUnpauses, Becomes, viewVars, rowVars, OpData, World, Row, ContainerState
<1>5. CASE \E v \in Service : WakeEvicts(o, v)
  <2>1. PICK v \in Service : WakeEvicts(o, v)
    BY <1>5
  <2>2. tried' \in [Op -> SUBSET Service]
    BY <2>1 DEF WakeEvicts, OpData
  <2> QED
    BY <2>1, <2>2 DEF WakeEvicts, dockerVars, viewVars, rowVars, OpData, World, Row
<1>6. CASE WakeHasRoom(o)
  BY <1>6 DEF WakeHasRoom, dockerVars, viewVars, rowVars, OpData, World, Row
<1>7. CASE WakeStarts(o)
  BY <1>0, <1>7 DEF WakeStarts, Becomes, viewVars, rowVars, OpData, World, Row, ContainerState
<1>8. CASE WakeIsReady(o)
  <2>1. OpData'
    BY <1>8, EndWakeData DEF WakeIsReady
  <2>2. World' /\ Row'
    <3>1. OnUp(k) /\ Blame(k, FALSE) /\ UNCHANGED <<dockerVars, desired, always, booted, faults>>
      BY <1>8 DEF WakeIsReady
    <3> QED
      BY <1>0, <3>1, OnUpData DEF Blame, dockerVars, World, Row
  <2> QED
    BY <2>1, <2>2
<1>9. CASE WakeFails(o)
  <2>1. OpData'
    BY <1>9, EndWakeData DEF WakeFails
  <2>2. Row'
    BY <1>9 DEF WakeFails, viewVars, rowVars, Row
  <2>3. UNCHANGED <<late, seen>> /\ faults' \in 0..MaxFaults
    BY <1>9, FaultData DEF WakeFails, viewVars, World
  <2>4. ctr' \in [Service -> ContainerState] /\ blamed' \in [Service -> BOOLEAN]
    BY <1>0, <1>9 DEF WakeFails, Blame, World, ContainerState
  <2> QED
    BY <2>1, <2>2, <2>3, <2>4 DEF World
<1> QED
  BY <1>1, <1>2, <1>3, <1>4, <1>5, <1>6, <1>7, <1>8, <1>9 DEF WakeSteps

LEMMA ApiData ==
  ASSUME Data, NEW k \in Service,
         (\E v \in Verbs : ApiCalls(k, v)) \/ ApiSteps(k) \/ VerbFails(k) \/ DeployFails(k)
  PROVE  Data'
<1> USE DEF Data, dockerVars, viewVars, rowVars
<1>1. CASE \E v \in Verbs : ApiCalls(k, v)
  BY <1>1 DEF ApiCalls, OpData, World, Row
<1>2. CASE ApiBegins(k)
  BY <1>2 DEF ApiBegins, OpData, World, Row
<1>3. CASE StartHints(k)
  <2>1. OpData'
    BY <1>3 DEF StartHints, RegisterInline, OpData
  <2>2. World'
    BY <1>3, FaultData DEF StartHints, Becomes, World, ContainerState
  <2> QED
    BY <1>3, <2>1, <2>2 DEF StartHints, Row
<1>4. CASE StopThaws(k)
  BY <1>4 DEF StopThaws, Becomes, OpData, World, Row, ContainerState
<1>5. CASE StopHalts(k)
  <2>1. OpData'
    BY <1>5, EndApiData DEF StopHalts
  <2>2. World'
    BY <1>5 DEF StopHalts, EndApi, Becomes, Saw, Blame, World, ContainerState
  <2> QED
    BY <1>5, <2>1, <2>2 DEF StopHalts, Mark, Row
<1>6. CASE SuspendPauses(k)
  <2>1. OpData'
    BY <1>6, EndApiData DEF SuspendPauses
  <2>2. World'
    BY <1>6 DEF SuspendPauses, EndApi, Becomes, Saw, Blame, World, ContainerState
  <2> QED
    BY <1>6, <2>1, <2>2 DEF SuspendPauses, Row
<1>7. CASE DeployRemoves(k)
  BY <1>7, FaultData DEF DeployRemoves, Becomes, OpData, World, Row, ContainerState
<1>8. CASE DeployCreates(k)
  BY <1>8 DEF DeployCreates, Becomes, OpData, World, Row, ContainerState
<1>9. CASE DeployRuns(k)
  <2>1. ctr' \in [Service -> ContainerState]
    BY <1>9 DEF DeployRuns, Becomes, World, ContainerState
  <2>2. CASE UNCHANGED <<verb, tried, wakes, req, blamed, seen, age, young, slept>>
    BY <1>9, <2>1, <2>2 DEF DeployRuns, OpData, World, Row
  <2>3. CASE OnUp(k) /\ EndApi(k, TRUE)
    <3>1. blamed' \in [Service -> BOOLEAN] /\ OpData'
      BY <2>3, EndApiData DEF EndApi, Blame, World
    <3> QED
      BY <1>9, <2>1, <2>3, <3>1, OnUpData DEF DeployRuns, World, Row
  <2> QED
    BY <1>9, <2>2, <2>3 DEF DeployRuns
<1>10. CASE DeployReasserts(k)
  <2>1. OpData'
    BY <1>10, EndApiData DEF DeployReasserts
  <2>2. World'
    BY <1>10 DEF DeployReasserts, EndApi, Becomes, Saw, Blame, World, ContainerState
  <2> QED
    BY <1>10, <2>1, <2>2 DEF DeployReasserts, Mark, Row
<1>11. CASE VerbFails(k)
  <2>1. OpData'
    BY <1>11, EndApiData DEF VerbFails
  <2>2. World'
    BY <1>11, FaultData DEF VerbFails, EndApi, Blame, World
  <2> QED
    BY <1>11, <2>1, <2>2 DEF VerbFails, Row
<1>12. CASE DeployFails(k)
  <2>1. OpData'
    BY <1>12, EndApiData DEF DeployFails
  <2>2. blamed' \in [Service -> BOOLEAN] /\ faults' \in 0..MaxFaults
    BY <1>12, FaultData DEF DeployFails, EndApi, Blame, World
  <2>3. CASE OnUp(k)
    BY <1>12, <2>1, <2>2, <2>3, OnUpData DEF DeployFails, World, Row
  <2>4. CASE UNCHANGED <<seen, age, young, slept>>
    BY <1>12, <2>1, <2>2, <2>4 DEF DeployFails, World, Row
  <2> QED
    BY <1>12, <2>3, <2>4 DEF DeployFails
<1> QED
  BY <1>1, <1>2, <1>3, <1>4, <1>5, <1>6, <1>7, <1>8, <1>9, <1>10, <1>11, <1>12 DEF ApiSteps

LEMMA RequestData ==
  ASSUME Data, NEW k \in Service, NEW c \in Client,
         RequestArrives(k, c) \/ RequestGoes(k, c) \/ RequestWoken(k, c) \/ RequestEnds(k, c)
  PROVE  Data'
<1> USE DEF Data, opVars, dockerVars, viewVars, rowVars, ReqSet
<1>1. CASE RequestArrives(k, c)
  BY <1>1 DEF RequestArrives, Touch, OpData, World, Row
<1>2. CASE RequestGoes(k, c)
  <2>1. CASE (ReqSet(<<k, c>>, "served") \/ ReqSet(<<k, c>>, "none")) /\ UNCHANGED <<lockVars, pc, wakes>>
    BY <1>2, <2>1 DEF RequestGoes, OpData, World, Row
  <2>2. CASE WakeByTraffic(k, c)
    BY <1>2, <2>2 DEF RequestGoes, WakeByTraffic, OpData, World, Row
  <2> QED
    BY <1>2, <2>1, <2>2 DEF RequestGoes
<1>3. CASE RequestWoken(k, c)
  BY <1>3 DEF RequestWoken, OpData, World, Row
<1>4. CASE RequestEnds(k, c)
  BY <1>4 DEF RequestEnds, OpData, World, Row
<1> QED
  BY <1>1, <1>2, <1>3, <1>4

LEMMA WorldData ==
  ASSUME Data, NEW k \in Service,
         \/ Ages(k) \/ ProtectionEnds(k) \/ SetAlwaysOn(k)
         \/ LateStopLands(k) \/ ContainerCrashes(k) \/ ContainerRevives(k)
  PROVE  Data'
<1> USE DEF Data, opVars, dockerVars, viewVars, rowVars
<1>1. CASE Ages(k)
  BY <1>1 DEF Ages, OpData, World, Row
<1>2. CASE ProtectionEnds(k)
  BY <1>2 DEF ProtectionEnds, OpData, World, Row
<1>3. CASE SetAlwaysOn(k)
  BY <1>3 DEF SetAlwaysOn, OpData, World, Row
<1>4. CASE LateStopLands(k)
  BY <1>4 DEF LateStopLands, Becomes, Blame, OpData, World, Row, ContainerState
<1>5. CASE ContainerCrashes(k)
  BY <1>5, FaultData DEF ContainerCrashes, Becomes, Blame, OpData, World, Row, ContainerState
<1>6. CASE ContainerRevives(k)
  BY <1>6 DEF ContainerRevives, Becomes, Blame, OpData, World, Row, ContainerState
<1> QED
  BY <1>1, <1>2, <1>3, <1>4, <1>5, <1>6

LEMMA NextData == Data /\ [Next]_vars => Data'
<1> SUFFICES ASSUME Data, [Next]_vars PROVE Data'
  OBVIOUS
<1> USE DEF Data, opVars, dockerVars, viewVars, rowVars
<1>1. ASSUME NEW o \in Op, Granted(o) PROVE Data'
  BY <1>1 DEF Granted, OpData, World, Row
<1>2. ASSUME NEW k \in Service, SweepWakes(k) PROVE Data'
  BY <1>2 DEF SweepWakes, OpData, World, Row
<1>3. ASSUME NEW k \in Service, OnBegins(k) PROVE Data'
  BY <1>3 DEF OnBegins, RegisterInline, OpData, World, Row
<1>4. ASSUME NEW k \in Service, WakeBegins(k) PROVE Data'
  BY <1>4 DEF WakeBegins, OpData, World, Row
<1>5. CASE Refreshes
  BY <1>5 DEF Refreshes, Refresh, OpData, World, Row
<1>6. CASE Reconciles
  BY <1>6 DEF Reconciles, Refresh, OpData, World, Row
<1>7. CASE DaemonRestarts
  <2>1. OpData'
    BY <1>7 DEF DaemonRestarts, OpData
  <2>2. World'
    BY <1>7, FaultData DEF DaemonRestarts, World, ContainerState
  <2>3. Row'
    BY <1>7 DEF DaemonRestarts, Row
  <2> QED
    BY <2>1, <2>2, <2>3
<1>8. CASE UNCHANGED vars
  BY <1>8 DEF vars, OpData, World, Row
<1> QED
  BY <1>1, <1>2, <1>3, <1>4, <1>5, <1>6, <1>7, <1>8, SleepData, WakeData, ApiData,
     RequestData, WorldData, SchedulerAssumption DEF Next

LEMMA InitData == Init => Data
<1> SUFFICES ASSUME Init PROVE Data
  OBVIOUS
<1>1. OpData
  BY DEF Init, OpData
<1>2. World
  BY SchedulerAssumption DEF Init, World, ContainerState
<1>3. Row
  BY DEF Init, Row
<1> QED
  BY <1>1, <1>2, <1>3 DEF Data

LEMMA TypesFollow == OrderInv /\ Data => TypeOK
BY DEF OrderInv, LockInv, PcInv, CallerInv, Data, OpData, World, Row, TypeOK

(* Every variable keeps its type: no step, fault or restart leaves an      *)
(* operation, a container or a row in a state the code does not name.      *)
THEOREM TypeCorrect == Spec => []TypeOK
<1>1. Spec => []Data
  BY InitData, NextData, PTL DEF Spec
<1> QED
  BY <1>1, Order, TypesFollow, PTL

-----------------------------------------------------------------------------
(* Requests.  A held service is hot, so neither pass of the sweep and no   *)
(* eviction picks it; and while it sleeps, no wake of it can finish.       *)

HeldIsHot == \A k \in Service : Held(k) => age[k] = "hot"

RequestInv == HeldIsHot /\ NoRequestCut

(* A step that begins no sleep and lets no request through. *)
Neutral ==
  /\ \A k \in Service : Sleeping(k)' => Sleeping(k)
  /\ \A k \in Service, c \in Client :
       /\ req'[<<k, c>>] \in {"woken", "served"} => req[<<k, c>>] \in {"woken", "served"}
       /\ req'[<<k, c>>] # "none" => req[<<k, c>>] # "none"
  /\ \A k \in Service : age[k] = "hot" => age'[k] = "hot"

LEMMA NeutralKeeps == RequestInv /\ Neutral => RequestInv'
BY DEF RequestInv, Neutral, HeldIsHot, NoRequestCut, Held

(* While a service sleeps no other operation on it is inside the lock. *)
LEMMA SleepIsAlone ==
  ASSUME OrderInv, NEW k \in Service, Sleeping(k), NEW o \in inside, k \in need[o]
  PROVE  o = <<"sleep", k>>
<1> DEFINE s == <<"sleep", k>>
<1>1. s \in Op /\ s[2] = k /\ pc[s] \notin Waiting
  BY Kinds DEF Sleeping, Waiting
<1>2. s \in inside /\ k \in need[s]
  BY <1>1 DEF OrderInv, PcInv, Waiting
<1> QED
  BY <1>2, LockExcludes DEF OrderInv, Lock!Contend

LEMMA StaysAwake ==
  ASSUME OrderInv, NEW o \in Op, NEW l \in Pc \ Asleep, pc' = [pc EXCEPT ![o] = l]
  PROVE  \A k \in Service : Sleeping(k)' => Sleeping(k)
BY Kinds DEF OrderInv, PcInv, Sleeping, Asleep

LEMMA SameReq ==
  ASSUME req' = req, \A k \in Service : Sleeping(k)' => Sleeping(k),
         \A k \in Service : age[k] = "hot" => age'[k] = "hot"
  PROVE  Neutral
BY DEF Neutral

LEMMA EndWakeRequests ==
  ASSUME OrderInv, Data, RequestInv, NEW o \in Op, NEW joined \in BOOLEAN,
         pc[o] \notin Waiting \cup Asleep, EndWake(o, joined),
         \A k \in Service : age[k] = "hot" => age'[k] = "hot"
  PROVE  RequestInv'
<1>1. \A k \in Service : Sleeping(k)' => Sleeping(k)
  BY StaysAwake DEF EndWake, Goto, Pc, Asleep
<1>2. CASE ~Registered(o)
  BY <1>1, <1>2, SameReq, NeutralKeeps DEF EndWake
<1>3. CASE Registered(o)
  <2>1. req' = [r \in Service \X Client |->
                  IF r[1] = o[2] /\ req[r] = "waiting"
                  THEN (IF joined THEN "woken" ELSE "none") ELSE req[r]]
    BY <1>3 DEF EndWake, Settle, Data, OpData
  <2>2. HeldIsHot'
    <3> SUFFICES ASSUME NEW k \in Service, NEW c \in Client, req'[<<k, c>>] # "none"
                 PROVE  age'[k] = "hot"
      BY DEF HeldIsHot, Held
    <3>1. req[<<k, c>>] # "none"
      BY <2>1
    <3> QED
      BY <3>1 DEF RequestInv, HeldIsHot, Held
  <2>3. ~Sleeping(o[2])
    <3> SUFFICES ASSUME Sleeping(o[2]) PROVE FALSE
      OBVIOUS
    <3>1. o \in inside /\ o[2] \in need[o] /\ o[2] \in Service
      BY OpShape DEF OrderInv, PcInv, Waiting
    <3>2. o = <<"sleep", o[2]>>
      BY <3>1, SleepIsAlone
    <3>3. pc[o] \in Asleep
      BY <3>2 DEF Sleeping, Asleep
    <3> QED
      BY <3>3
  <2>4. NoRequestCut'
    <3> SUFFICES ASSUME NEW k \in Service, NEW c \in Client, Sleeping(k)'
                 PROVE  req'[<<k, c>>] \notin {"woken", "served"}
      BY DEF NoRequestCut
    <3>1. Sleeping(k) /\ k # o[2]
      BY <1>1, <2>3
    <3>2. req'[<<k, c>>] = req[<<k, c>>]
      BY <2>1, <3>1
    <3> QED
      BY <3>1, <3>2 DEF RequestInv, NoRequestCut
  <2> QED
    BY <2>2, <2>4 DEF RequestInv
<1> QED
  BY <1>2, <1>3

LEMMA BeginsOnIdle ==
  ASSUME OrderInv, RequestInv, NEW v \in Service, ~Held(v) \/ age[v] # "hot",
         req' = req, age' = age,
         \A k \in Service : k # v /\ Sleeping(k)' => Sleeping(k)
  PROVE  RequestInv'
<1>1. ~Held(v)
  BY DEF RequestInv, HeldIsHot
<1>2. HeldIsHot'
  BY DEF RequestInv, HeldIsHot, Held
<1>3. NoRequestCut'
  BY <1>1 DEF RequestInv, NoRequestCut, Held
<1> QED
  BY <1>2, <1>3 DEF RequestInv

LEMMA WakeRequests ==
  ASSUME OrderInv, Data, RequestInv, NEW o \in Op, WakeSteps(o) \/ WakeFails(o)
  PROVE  RequestInv'
<1> USE DEF viewVars
<1>1. ASSUME NEW l \in Pc \ Asleep, Goto(o, l), req' = req, age' = age PROVE RequestInv'
  BY <1>1, StaysAwake, SameReq, NeutralKeeps DEF Goto
<1>2. ASSUME NEW joined \in BOOLEAN, EndWake(o, joined), pc[o] \notin Waiting \cup Asleep,
             age' = age \/ Touch(o[2])
      PROVE  RequestInv'
  <2>1. \A k \in Service : age[k] = "hot" => age'[k] = "hot"
    BY <1>2 DEF Touch, Data, Row
  <2> QED
    BY <1>2, <2>1, EndWakeRequests
<1>3. CASE WakeRefuses(o)
  BY <1>2, <1>3 DEF WakeRefuses, Waiting, Asleep
<1>4. CASE WakeReads(o)
  <2>1. CASE EndWake(o, FALSE)
    BY <1>2, <1>4, <2>1 DEF WakeReads, Waiting, Asleep
  <2>2. CASE (\E l \in {"probe", "unpause", "await", "room"} : Goto(o, l)) /\ UNCHANGED req
    BY <1>1, <1>4, <2>2 DEF WakeReads, Pc, Asleep
  <2> QED
    BY <1>4, <2>1, <2>2 DEF WakeReads
<1>5. CASE WakeProbes(o)
  <2>1. CASE EndWake(o, TRUE) /\ Touch(o[2])
    BY <1>2, <1>5, <2>1 DEF WakeProbes, Waiting, Asleep
  <2>2. CASE Goto(o, "await") /\ UNCHANGED <<req, age>>
    BY <1>1, <2>2 DEF Pc, Asleep
  <2> QED
    BY <1>5, <2>1, <2>2 DEF WakeProbes
<1>6. CASE WakeUnpauses(o)
  BY <1>1, <1>6 DEF WakeUnpauses, Pc, Asleep
<1>7. CASE \E v \in Service : WakeEvicts(o, v)
  <2>1. PICK v \in Service : WakeEvicts(o, v)
    BY <1>7
  <2>2. ~Held(v) /\ req' = req /\ age' = age
    BY <2>1 DEF WakeEvicts, IsVictim
  <2>3. ASSUME NEW k \in Service, k # v, Sleeping(k)' PROVE Sleeping(k)
    BY <2>1, <2>3, Kinds DEF WakeEvicts, Sleeping, OrderInv, PcInv
  <2> QED
    BY <2>2, <2>3, BeginsOnIdle
<1>8. CASE WakeHasRoom(o)
  BY <1>1, <1>8 DEF WakeHasRoom, Pc, Asleep
<1>9. CASE WakeStarts(o)
  BY <1>1, <1>9 DEF WakeStarts, Pc, Asleep
<1>10. CASE WakeIsReady(o)
  BY <1>2, <1>10 DEF WakeIsReady, OnUp, Waiting, Asleep
<1>11. CASE WakeFails(o)
  BY <1>2, <1>11 DEF WakeFails, Waiting, Asleep
<1> QED
  BY <1>3, <1>4, <1>5, <1>6, <1>7, <1>8, <1>9, <1>10, <1>11 DEF WakeSteps

LEMMA SleepRequests ==
  ASSUME OrderInv, Data, RequestInv, NEW v \in Service,
         SweepSleeps(v) \/ SleepReads(v) \/ SleepStops(v) \/ SleepFails(v)
  PROVE  RequestInv'
<1> USE DEF viewVars
<1>1. CASE SweepSleeps(v)
  <2>1. ~Held(v) \/ age[v] # "hot"
    BY <1>1 DEF SweepSleeps, IsIdleCandidate, IsVictim
  <2>2. \A k \in Service : k # v /\ Sleeping(k)' => Sleeping(k)
    BY <1>1, Kinds DEF SweepSleeps, Goto, Sleeping, OrderInv, PcInv
  <2> QED
    BY <1>1, <2>1, <2>2, BeginsOnIdle DEF SweepSleeps
<1>2. ASSUME NEW ok \in BOOLEAN, EndSleep(v, ok), req' = req, age' = age PROVE RequestInv'
  <2>1. \A k \in Service : Sleeping(k)' => Sleeping(k)
    <3> DEFINE s == <<"sleep", v>>
               by == caller[v]
    <3>1. pc \in [Op -> Pc] /\ s \in Op
      BY Kinds DEF OrderInv, PcInv
    <3>2. CASE by = Tick
      <4>1. pc' = [pc EXCEPT ![s] = "idle"]
        BY <1>2, <3>2 DEF EndSleep
      <4>2. "idle" \in Pc \ Asleep
        BY DEF Pc, Asleep
      <4> QED
        BY <3>1, <4>1, <4>2, StaysAwake
    <3>3. CASE by # Tick
      <4>1. by \in Op
        BY <3>3 DEF OrderInv, CallerInv
      <4>2. PICK l \in {"room", "evicting"} : pc' = [pc EXCEPT ![s] = "idle", ![by] = l]
        BY <1>2, <3>3 DEF EndSleep
      <4>3. \A o \in Op : pc'[o] \in {"idle", "room", "evicting", pc[o]}
        BY <3>1, <4>1, <4>2
      <4> QED
        <5> SUFFICES ASSUME NEW k \in Service, Sleeping(k)' PROVE Sleeping(k)
          OBVIOUS
        <5>1. <<"sleep", k>> \in Op
          BY Kinds
        <5>2. pc'[<<"sleep", k>>] \in {"idle", "room", "evicting", pc[<<"sleep", k>>]}
          BY <4>3, <5>1
        <5> QED
          BY <5>2 DEF Sleeping
    <3> QED
      BY <3>2, <3>3
  <2> QED
    BY <1>2, <2>1, SameReq, NeutralKeeps
<1>3. CASE SleepReads(v)
  <2>1. CASE Goto(<<"sleep", v>>, "stopping")
    <3>1. \A k \in Service : Sleeping(k)' => Sleeping(k)
      BY <1>3, <2>1, Kinds DEF SleepReads, Goto, Sleeping, OrderInv, PcInv
    <3> QED
      BY <1>3, <3>1, SameReq, NeutralKeeps DEF SleepReads
  <2>2. CASE EndSleep(v, TRUE)
    BY <1>2, <1>3, <2>2 DEF SleepReads
  <2> QED
    BY <1>3, <2>1, <2>2 DEF SleepReads
<1>4. CASE SleepStops(v)
  BY <1>2, <1>4 DEF SleepStops
<1>5. CASE SleepFails(v)
  BY <1>2, <1>5 DEF SleepFails
<1> QED
  BY <1>1, <1>3, <1>4, <1>5

LEMMA ApiRequests ==
  ASSUME OrderInv, Data, RequestInv, NEW k \in Service,
         \/ \E v \in Verbs : ApiCalls(k, v)
         \/ ApiSteps(k) \/ VerbFails(k) \/ DeployFails(k)
  PROVE  RequestInv'
<1> DEFINE o == <<"api", k>>
<1> USE DEF viewVars
<1>1. ASSUME NEW l \in Pc \ Asleep, Goto(o, l), req' = req, age' = age \/ Touch(k)
      PROVE  RequestInv'
  <2>1. \A w \in Service : age[w] = "hot" => age'[w] = "hot"
    BY <1>1 DEF Touch, Data, Row
  <2>2. \A w \in Service : Sleeping(w)' => Sleeping(w)
    BY <1>1, Kinds, StaysAwake DEF Goto
  <2> QED
    BY <1>1, <2>1, <2>2, SameReq, NeutralKeeps
<1>2. ASSUME NEW ok \in BOOLEAN, EndApi(k, ok), age' = age \/ Touch(k) PROVE RequestInv'
  BY <1>1, <1>2 DEF EndApi, Pc, Asleep
<1>3. ASSUME NEW v \in Verbs, ApiCalls(k, v) PROVE RequestInv'
  BY <1>1, <1>3 DEF ApiCalls, Pc, Asleep
<1>4. CASE ApiBegins(k)
  <2>1. PICK l \in {"hint", "thaw", "pause", "remove"} : Goto(o, l)
    BY <1>4 DEF ApiBegins
  <2> QED
    BY <1>1, <1>4, <2>1 DEF ApiBegins, Pc, Asleep
<1>5. CASE StartHints(k)
  BY <1>1, <1>5 DEF StartHints, Pc, Asleep
<1>6. CASE StopThaws(k)
  BY <1>1, <1>6 DEF StopThaws, Pc, Asleep
<1>7. CASE StopHalts(k)
  BY <1>2, <1>7 DEF StopHalts
<1>8. CASE SuspendPauses(k)
  BY <1>2, <1>8 DEF SuspendPauses
<1>9. CASE DeployRemoves(k)
  BY <1>1, <1>9 DEF DeployRemoves, Pc, Asleep
<1>10. CASE DeployCreates(k)
  <2>1. PICK l \in {"reassert", "run"} : Goto(o, l)
    BY <1>10 DEF DeployCreates
  <2> QED
    BY <1>1, <1>10, <2>1 DEF DeployCreates, Pc, Asleep
<1>11. CASE DeployRuns(k)
  <2>1. CASE Goto(o, "reassert") /\ UNCHANGED <<req, age>>
    BY <1>1, <2>1 DEF Pc, Asleep
  <2>2. CASE EndApi(k, TRUE) /\ Touch(k)
    BY <1>2, <2>2
  <2> QED
    BY <1>11, <2>1, <2>2 DEF DeployRuns, OnUp
<1>12. CASE DeployReasserts(k)
  BY <1>2, <1>12 DEF DeployReasserts
<1>13. CASE VerbFails(k)
  BY <1>2, <1>13 DEF VerbFails
<1>14. CASE DeployFails(k)
  <2>1. age' = age \/ Touch(k)
    BY <1>14 DEF DeployFails, OnUp
  <2> QED
    BY <1>2, <1>14, <2>1 DEF DeployFails
<1> QED
  BY <1>3, <1>4, <1>5, <1>6, <1>7, <1>8, <1>9, <1>10, <1>11, <1>12, <1>13, <1>14 DEF ApiSteps

LEMMA TrafficRequests ==
  ASSUME OrderInv, Data, RequestInv, NEW k \in Service, NEW c \in Client,
         RequestArrives(k, c) \/ RequestGoes(k, c) \/ RequestWoken(k, c) \/ RequestEnds(k, c)
  PROVE  RequestInv'
<1> USE DEF opVars, viewVars, ReqSet
<1>1. ASSUME NEW s, req' = [req EXCEPT ![<<k, c>>] = s], age' = age,
             req[<<k, c>>] # "none",
             s \in {"woken", "served"} =>
               req[<<k, c>>] \in {"woken", "served"} \/ ~Sleeping(k),
             \A w \in Service : Sleeping(w)' => Sleeping(w)
      PROVE  RequestInv'
  <2>1. \A w \in Service, d \in Client :
          req'[<<w, d>>] = IF w = k /\ d = c THEN s ELSE req[<<w, d>>]
    BY <1>1 DEF Data, OpData
  <2>2. HeldIsHot'
    BY <1>1, <2>1 DEF RequestInv, HeldIsHot, Held
  <2>3. NoRequestCut'
    BY <1>1, <2>1 DEF RequestInv, NoRequestCut
  <2> QED
    BY <2>2, <2>3 DEF RequestInv
<1>2. pc' = pc => \A w \in Service : Sleeping(w)' => Sleeping(w)
  BY DEF Sleeping
<1>3. CASE RequestArrives(k, c)
  <2>1. \A w \in Service, d \in Client :
          req'[<<w, d>>] = IF w = k /\ d = c THEN "resolving" ELSE req[<<w, d>>]
    BY <1>3 DEF RequestArrives, Data, OpData
  <2>2. HeldIsHot'
    <3>1. \A w \in Service : age'[w] = IF w = k THEN "hot" ELSE age[w]
      BY <1>3 DEF RequestArrives, Touch, Data, Row
    <3> QED
      BY <2>1, <3>1 DEF RequestInv, HeldIsHot, Held
  <2>3. NoRequestCut'
    BY <1>2, <1>3, <2>1 DEF RequestArrives, RequestInv, NoRequestCut
  <2> QED
    BY <2>2, <2>3 DEF RequestInv
<1>4. CASE RequestGoes(k, c)
  <2>1. CASE ReqSet(<<k, c>>, "served") /\ StateOf(k) = "running" /\ pc' = pc
    <3>1. ~Sleeping(k)
      BY <2>1 DEF StateOf
    <3> QED
      BY <1>1, <1>2, <1>4, <2>1, <3>1 DEF RequestGoes
  <2>2. CASE ReqSet(<<k, c>>, "none") /\ pc' = pc
    BY <1>1, <1>2, <1>4, <2>2 DEF RequestGoes
  <2>3. CASE /\ ReqSet(<<k, c>>, "waiting")
             /\ pc' = pc \/ Goto(<<"wake", k>>, "queued")
    <3>1. \A w \in Service : Sleeping(w)' => Sleeping(w)
      <4>1. CASE Goto(<<"wake", k>>, "queued")
        <5>1. <<"wake", k>> \in Op /\ "queued" \in Pc \ Asleep
          BY Kinds DEF Pc, Asleep
        <5> QED
          BY <4>1, <5>1, StaysAwake DEF Goto
      <4> QED
        BY <1>2, <2>3, <4>1
    <3> QED
      BY <1>1, <1>4, <2>3, <3>1 DEF RequestGoes
  <2> QED
    BY <1>4, <2>1, <2>2, <2>3 DEF RequestGoes, WakeByTraffic
<1>5. CASE RequestWoken(k, c)
  BY <1>1, <1>2, <1>5 DEF RequestWoken
<1>6. CASE RequestEnds(k, c)
  BY <1>1, <1>2, <1>6 DEF RequestEnds
<1> QED
  BY <1>3, <1>4, <1>5, <1>6

LEMMA NextRequests == OrderInv /\ Data /\ RequestInv /\ [Next]_vars => RequestInv'
<1> SUFFICES ASSUME OrderInv, Data, RequestInv, [Next]_vars PROVE RequestInv'
  OBVIOUS
<1> USE DEF opVars, viewVars
<1>1. ASSUME req' = req, pc' = pc, age' = age PROVE RequestInv'
  BY <1>1 DEF RequestInv, HeldIsHot, Held, NoRequestCut, Sleeping
<1>2. ASSUME NEW o \in Op, NEW l \in Pc \ Asleep, Goto(o, l), req' = req, age' = age
      PROVE  RequestInv'
  BY <1>2, StaysAwake, SameReq, NeutralKeeps DEF Goto
<1>3. ASSUME NEW o \in Op, Granted(o) PROVE RequestInv'
  BY <1>2, <1>3 DEF Granted, Pc, Asleep
<1>4. ASSUME NEW k \in Service, SweepWakes(k) PROVE RequestInv'
  BY <1>2, <1>4, Kinds DEF SweepWakes, Pc, Asleep
<1>5. ASSUME NEW k \in Service, OnBegins(k) PROVE RequestInv'
  <2>1. PICK l \in {"check", "idle"} : Goto(<<"on", k>>, l)
    BY <1>5 DEF OnBegins
  <2> QED
    BY <1>2, <1>5, <2>1, Kinds DEF OnBegins, Pc, Asleep
<1>6. ASSUME NEW k \in Service, WakeBegins(k) PROVE RequestInv'
  BY <1>2, <1>6, Kinds DEF WakeBegins, Pc, Asleep
<1>7. ASSUME NEW k \in Service, Ages(k) PROVE RequestInv'
  <2>1. \A w \in Service : age'[w] = age[w] \/ ~Held(w)
    BY <1>7 DEF Ages, Data, Row
  <2> QED
    BY <1>7, <2>1 DEF Ages, RequestInv, HeldIsHot, Held, NoRequestCut, Sleeping
<1>8. ASSUME NEW k \in Service,
             \/ ProtectionEnds(k) \/ SetAlwaysOn(k)
             \/ LateStopLands(k) \/ ContainerCrashes(k) \/ ContainerRevives(k)
      PROVE  RequestInv'
  BY <1>1, <1>8
  DEF ProtectionEnds, SetAlwaysOn, LateStopLands, ContainerCrashes, ContainerRevives
<1>9. CASE Refreshes
  BY <1>1, <1>9 DEF Refreshes
<1>10. CASE Reconciles
  BY <1>10 DEF Reconciles, RequestInv, HeldIsHot, Held, NoRequestCut, Sleeping
<1>11. CASE DaemonRestarts
  <2>1. \A k \in Service : ~Sleeping(k)'
    BY <1>11, Kinds DEF DaemonRestarts, Sleeping
  <2>2. \A k \in Service, c \in Client : req'[<<k, c>>] = "none"
    BY <1>11 DEF DaemonRestarts, Data, OpData
  <2> QED
    BY <2>1, <2>2 DEF RequestInv, HeldIsHot, Held, NoRequestCut
<1>12. CASE UNCHANGED vars
  BY <1>1, <1>12 DEF vars
<1> QED
  BY <1>3, <1>4, <1>5, <1>6, <1>7, <1>8, <1>9, <1>10, <1>11, <1>12, SleepRequests,
     WakeRequests, ApiRequests, TrafficRequests, SchedulerAssumption DEF Next

LEMMA InitRequestInv == Init => RequestInv
BY Kinds DEF Init, RequestInv, HeldIsHot, Held, NoRequestCut, Sleeping

(* No idle stop and no eviction is under way on a service while a request  *)
(* is at its container, however sweeps, wakes, verbs, faults and restarts  *)
(* interleave.                                                             *)
THEOREM NoRequestEverCut == Spec => []NoRequestCut
<1>1. Spec => []Data
  BY InitData, NextData, PTL DEF Spec
<1>2. Spec => []RequestInv
  BY <1>1, Order, InitRequestInv, NextRequests, PTL DEF Spec
<1>3. RequestInv => NoRequestCut
  BY DEF RequestInv
<1> QED
  BY <1>2, <1>3, PTL
-----------------------------------------------------------------------------
(* Wakes.  Every operation stays among the places of its own door, and an  *)
(* entry of the singleflight map is there exactly as long as the operation *)
(* that will take it out.                                                  *)

PlacesOf(d) ==
  CASE d = "sleep" -> {"idle"} \cup Asleep
    [] d = "api" -> Pc \ Asleep
    [] OTHER -> Waiting \cup {"granted"} \cup WakeBody

InPlace == \A o \in Op : pc[o] \in PlacesOf(o[1])

WakesSettle ==
  /\ \A k \in Service, c \in Client : req[<<k, c>>] = "waiting" => wakes[k] # "no"
  /\ \A k \in Service : wakes[k] = "work" <=> pc[<<"wake", k>>] # "idle"
  /\ \A k \in Service : wakes[k] = "inline" =>
       pc[<<"on", k>>] \in WakeBody \/ pc[<<"api", k>>] \in WakeBody

WakeInv == InPlace /\ WakesSettle

(* Two operations on one service are never both past their grant. *)
LEMMA Alone ==
  ASSUME OrderInv, NEW a \in Op, NEW b \in Op, a # b, a[2] = b[2], pc[a] \notin Waiting
  PROVE  pc[b] \in Waiting
<1> SUFFICES ASSUME pc[b] \notin Waiting PROVE FALSE
  OBVIOUS
<1>1. a \in inside /\ b \in inside /\ a[2] \in need[a] /\ a[2] \in need[b]
  BY DEF OrderInv, PcInv, Waiting
<1> QED
  BY <1>1, LockExcludes DEF OrderInv, Lock!Contend

LEMMA StepInPlace ==
  ASSUME OrderInv, InPlace, NEW o \in Op, NEW l \in PlacesOf(o[1]), pc' = [pc EXCEPT ![o] = l]
  PROVE  InPlace'
BY DEF InPlace, OrderInv, PcInv

(* A step after which every entry still has its operation: no entry and no *)
(* waiter comes, none of the operations behind them goes.                  *)
Flows ==
  /\ wakes' = wakes
  /\ \A k \in Service, c \in Client : req'[<<k, c>>] = "waiting" => req[<<k, c>>] = "waiting"
  /\ \A k \in Service : pc'[<<"wake", k>>] = "idle" <=> pc[<<"wake", k>>] = "idle"
  /\ \A k \in Service : /\ pc[<<"on", k>>] \in WakeBody => pc'[<<"on", k>>] \in WakeBody
                        /\ pc[<<"api", k>>] \in WakeBody => pc'[<<"api", k>>] \in WakeBody

LEMMA FlowsKeep == WakesSettle /\ Flows => WakesSettle'
BY DEF WakesSettle, Flows

(* One operation moves and the map stays: a wake neither comes nor goes,   *)
(* and whoever runs a wake's body stays in it.                             *)
LEMMA StepKeepsWakes ==
  ASSUME OrderInv, WakeInv, NEW o \in Op, NEW l \in PlacesOf(o[1]),
         pc' = [pc EXCEPT ![o] = l], wakes' = wakes,
         \A k \in Service, c \in Client : req'[<<k, c>>] = "waiting" => req[<<k, c>>] = "waiting",
         o[1] = "wake" => pc[o] # "idle" /\ l # "idle",
         o[1] # "sleep" /\ pc[o] \in WakeBody => l \in WakeBody
  PROVE  WakeInv'
<1>1. pc \in [Op -> Pc]
  BY DEF OrderInv, PcInv
<1>2. \A x \in Op : pc'[x] = IF x = o THEN l ELSE pc[x]
  BY <1>1
<1>3. ASSUME NEW k \in Service
      PROVE  /\ pc'[<<"wake", k>>] = "idle" <=> pc[<<"wake", k>>] = "idle"
             /\ pc[<<"on", k>>] \in WakeBody => pc'[<<"on", k>>] \in WakeBody
             /\ pc[<<"api", k>>] \in WakeBody => pc'[<<"api", k>>] \in WakeBody
  BY <1>2, Kinds
<1>4. Flows
  BY <1>3 DEF Flows
<1> QED
  BY <1>4, FlowsKeep, StepInPlace DEF WakeInv

(* The end of a wake's body: its entry goes, and with it everybody who     *)
(* waits; an entry that is another's has its own operation.                *)
LEMMA EndWakeKeepsWakes ==
  ASSUME OrderInv, OpData, WakeInv, NEW o \in Op, NEW joined \in BOOLEAN,
         EndWake(o, joined), pc[o] \in WakeBody
  PROVE  WakeInv'
<1> DEFINE k == o[2]
<1>1. /\ pc \in [Op -> Pc] /\ k \in Service /\ o = <<o[1], k>>
      /\ pc' = [pc EXCEPT ![o] = "idle"]
      /\ o[1] \in {"wake", "on", "api"}
  BY OpShape DEF EndWake, Goto, WakeInv, InPlace, OrderInv, PcInv, PlacesOf, Asleep, WakeBody
<1>2. InPlace'
  <2>1. "idle" \in PlacesOf(o[1])
    BY <1>1 DEF PlacesOf, Waiting, Pc, Asleep
  <2> QED
    BY <1>1, <2>1, StepInPlace DEF WakeInv
<1>3. \A x \in Op : pc'[x] = IF x = o THEN "idle" ELSE pc[x]
  BY <1>1
<1>4. CASE Registered(o)
  <2>1. /\ \A w \in Service : wakes'[w] = IF w = k THEN "no" ELSE wakes[w]
        /\ \A w \in Service, c \in Client :
             req'[<<w, c>>] = "waiting" => w # k /\ req[<<w, c>>] = "waiting"
    <3>1. wakes' = [wakes EXCEPT ![k] = "no"] /\ wakes \in [Service -> {"no", "work", "inline"}]
      BY <1>4 DEF EndWake, Settle, OpData
    <3>2. req' = [r \in Service \X Client |->
                    IF r[1] = k /\ req[r] = "waiting"
                    THEN (IF joined THEN "woken" ELSE "none") ELSE req[r]]
      BY <1>4 DEF EndWake, Settle, OpData
    <3>3. \A w \in Service, c \in Client :
            req'[<<w, c>>] = IF w = k /\ req[<<w, c>>] = "waiting"
                             THEN (IF joined THEN "woken" ELSE "none") ELSE req[<<w, c>>]
      BY <3>2
    <3> QED
      BY <3>1, <3>3
  <2>2. ASSUME NEW w \in Service, w # k
        PROVE  /\ pc'[<<"wake", w>>] = pc[<<"wake", w>>]
               /\ pc'[<<"on", w>>] = pc[<<"on", w>>]
               /\ pc'[<<"api", w>>] = pc[<<"api", w>>]
    <3>1. <<"wake", w>> # o /\ <<"on", w>> # o /\ <<"api", w>> # o
      BY <2>2
    <3>2. <<"wake", w>> \in Op /\ <<"on", w>> \in Op /\ <<"api", w>> \in Op
      BY Kinds
    <3> QED
      BY <1>3, <3>1, <3>2
  <2>3. pc'[<<"wake", k>>] = "idle"
    <3>1. CASE o[1] = "wake"
      BY <1>1, <1>3, <3>1
    <3>2. CASE o[1] # "wake"
      BY <1>1, <1>3, <1>4, <3>2, Kinds DEF Registered, WakeInv, WakesSettle
    <3> QED
      BY <3>1, <3>2
  <2>4. WakesSettle'
    <3>1. \A w \in Service, c \in Client : req'[<<w, c>>] = "waiting" => wakes'[w] # "no"
      BY <2>1 DEF WakeInv, WakesSettle
    <3>2. \A w \in Service : wakes'[w] = "work" <=> pc'[<<"wake", w>>] # "idle"
      <4> SUFFICES ASSUME NEW w \in Service
                   PROVE  wakes'[w] = "work" <=> pc'[<<"wake", w>>] # "idle"
        OBVIOUS
      <4>1. CASE w = k
        BY <2>1, <2>3, <4>1
      <4>2. CASE w # k
        <5>1. wakes'[w] = wakes[w] /\ pc'[<<"wake", w>>] = pc[<<"wake", w>>]
          BY <2>1, <2>2, <4>2
        <5> QED
          BY <5>1 DEF WakeInv, WakesSettle
      <4> QED
        BY <4>1, <4>2
    <3>3. \A w \in Service : wakes'[w] = "inline" =>
            pc'[<<"on", w>>] \in WakeBody \/ pc'[<<"api", w>>] \in WakeBody
      BY <1>1, <2>1, <2>2 DEF WakeInv, WakesSettle
    <3> QED
      BY <3>1, <3>2, <3>3 DEF WakesSettle
  <2> QED
    BY <1>2, <2>4 DEF WakeInv
<1>5. CASE ~Registered(o)
  <2>1. wakes' = wakes /\ req' = req /\ o[1] \in {"on", "api"} /\ wakes[k] # "inline"
    BY <1>1, <1>5 DEF EndWake, Registered
  <2>2. ASSUME NEW w \in Service
        PROVE  /\ pc'[<<"wake", w>>] = pc[<<"wake", w>>]
               /\ wakes[w] = "inline" => /\ pc'[<<"on", w>>] = pc[<<"on", w>>]
                                         /\ pc'[<<"api", w>>] = pc[<<"api", w>>]
    <3>1. <<"wake", w>> # o /\ (w # k => <<"on", w>> # o /\ <<"api", w>> # o)
      BY <2>1
    <3>2. <<"wake", w>> \in Op /\ <<"on", w>> \in Op /\ <<"api", w>> \in Op
      BY Kinds
    <3> QED
      BY <1>3, <2>1, <3>1, <3>2
  <2>3. WakesSettle'
    BY <2>1, <2>2 DEF WakeInv, WakesSettle
  <2> QED
    BY <1>2, <2>3 DEF WakeInv
<1> QED
  BY <1>4, <1>5

(* A body that begins under the always-on pass or a start: it registers,   *)
(* or finds another's entry.                                               *)
LEMMA InlineKeepsWakes ==
  ASSUME OrderInv, OpData, WakeInv, NEW o \in Op, o[1] \in {"on", "api"},
         RegisterInline(o[2]), Goto(o, "check"), req' = req
  PROVE  WakeInv'
<1> DEFINE k == o[2]
<1>1. /\ pc \in [Op -> Pc] /\ k \in Service /\ o = <<o[1], k>>
      /\ pc' = [pc EXCEPT ![o] = "check"]
  BY OpShape DEF Goto, OrderInv, PcInv
<1>2. InPlace'
  <2>1. "check" \in PlacesOf(o[1])
    BY DEF PlacesOf, WakeBody, Pc, Asleep
  <2> QED
    BY <1>1, <2>1, StepInPlace DEF WakeInv
<1>3. \A x \in Op : pc'[x] = IF x = o THEN "check" ELSE pc[x]
  BY <1>1
<1>4. \A w \in Service : wakes'[w] = IF w = k /\ wakes[k] = "no" THEN "inline" ELSE wakes[w]
  BY <1>1 DEF RegisterInline, OpData
<1>5. ASSUME NEW w \in Service
      PROVE  /\ pc'[<<"wake", w>>] = pc[<<"wake", w>>]
             /\ pc[<<"on", w>>] \in WakeBody => pc'[<<"on", w>>] \in WakeBody
             /\ pc[<<"api", w>>] \in WakeBody => pc'[<<"api", w>>] \in WakeBody
  <2>1. <<"wake", w>> \in Op /\ <<"on", w>> \in Op /\ <<"api", w>> \in Op
    BY Kinds
  <2>2. <<"wake", w>> # o
    BY <1>1
  <2>3. "check" \in WakeBody
    BY DEF WakeBody
  <2> QED
    BY <1>3, <2>1, <2>2, <2>3
<1>6. pc'[<<"on", k>>] \in WakeBody \/ pc'[<<"api", k>>] \in WakeBody
  BY <1>1, <1>3 DEF WakeBody
<1>7. WakesSettle'
  BY <1>4, <1>5, <1>6 DEF WakeInv, WakesSettle
<1> QED
  BY <1>2, <1>7 DEF WakeInv

LEMMA EndApiKeepsWakes ==
  ASSUME OrderInv, WakeInv, NEW k \in Service, NEW ok \in BOOLEAN, EndApi(k, ok),
         pc[<<"api", k>>] \notin WakeBody
  PROVE  WakeInv'
<1>1. <<"api", k>> \in Op /\ <<"api", k>>[1] = "api" /\ "idle" \in PlacesOf("api")
  BY Kinds DEF PlacesOf, Pc, Asleep
<1> QED
  BY <1>1, StepKeepsWakes DEF EndApi, Goto

LEMMA EndSleepKeepsWakes ==
  ASSUME OrderInv, WakeInv, NEW v \in Service, NEW ok \in BOOLEAN, EndSleep(v, ok), Sleeping(v),
         req' = req
  PROVE  WakeInv'
<1> DEFINE s == <<"sleep", v>>
           by == caller[v]
<1>1. pc \in [Op -> Pc] /\ s \in Op /\ s[1] = "sleep"
  BY Kinds DEF OrderInv, PcInv
<1>2. PICK l \in {"room", "evicting"} :
        pc' = IF by = Tick THEN [pc EXCEPT ![s] = "idle"]
              ELSE [pc EXCEPT ![s] = "idle", ![by] = l]
  BY DEF EndSleep
<1>3. by # Tick => by \in Op /\ pc[by] = "evicting" /\ by[1] # "sleep"
  BY DEF OrderInv, CallerInv, WakeInv, InPlace, PlacesOf, Asleep
<1>4. \A x \in Op : pc'[x] = IF x = s THEN "idle" ELSE IF x = by THEN l ELSE pc[x]
  BY <1>1, <1>2, <1>3, TickIsNoOp
<1>5. InPlace'
  <2> SUFFICES ASSUME NEW x \in Op PROVE pc'[x] \in PlacesOf(x[1])
    BY DEF InPlace
  <2>1. pc[x] \in PlacesOf(x[1])
    BY DEF WakeInv, InPlace
  <2>2. CASE x = s
    BY <1>1, <1>4, <2>2 DEF PlacesOf
  <2>3. CASE x # s /\ x = by
    <3>1. pc'[x] = l /\ x[1] # "sleep"
      BY <1>3, <1>4, <2>3, TickIsNoOp
    <3>2. l \in WakeBody /\ l \in Pc \ Asleep
      BY DEF WakeBody, Pc, Asleep
    <3> QED
      BY <3>1, <3>2 DEF PlacesOf
  <2>4. CASE x # s /\ x # by
    BY <1>4, <2>1, <2>4
  <2> QED
    BY <2>2, <2>3, <2>4
<1>6. ASSUME NEW w \in Service
      PROVE  /\ pc'[<<"wake", w>>] = "idle" <=> pc[<<"wake", w>>] = "idle"
             /\ pc[<<"on", w>>] \in WakeBody => pc'[<<"on", w>>] \in WakeBody
             /\ pc[<<"api", w>>] \in WakeBody => pc'[<<"api", w>>] \in WakeBody
  <2>1. /\ <<"wake", w>> \in Op \ {s} /\ <<"on", w>> \in Op \ {s} /\ <<"api", w>> \in Op \ {s}
    BY Kinds
  <2>2. \A x \in Op \ {s} : /\ pc'[x] = "idle" <=> pc[x] = "idle"
                            /\ pc[x] \in WakeBody => pc'[x] \in WakeBody
    BY <1>3, <1>4, TickIsNoOp DEF WakeBody
  <2> QED
    BY <2>1, <2>2
<1>7. Flows
  BY <1>6 DEF Flows, EndSleep
<1> QED
  BY <1>5, <1>7, FlowsKeep DEF WakeInv

LEMMA SleepWakes ==
  ASSUME OrderInv, WakeInv, NEW v \in Service,
         SweepSleeps(v) \/ SleepReads(v) \/ SleepStops(v) \/ SleepFails(v)
  PROVE  WakeInv'
<1> DEFINE s == <<"sleep", v>>
<1>1. s \in Op /\ s[1] = "sleep"
  BY Kinds
<1>2. ASSUME NEW l \in Asleep, Goto(s, l), wakes' = wakes, req' = req PROVE WakeInv'
  <2>1. l \in PlacesOf(s[1])
    BY <1>1 DEF PlacesOf
  <2> QED
    BY <1>1, <1>2, <2>1, StepKeepsWakes DEF Goto
<1>3. CASE SweepSleeps(v)
  BY <1>2, <1>3 DEF SweepSleeps, Asleep
<1>4. CASE SleepReads(v)
  <2>1. CASE Goto(s, "stopping") /\ UNCHANGED wakes
    BY <1>2, <1>4, <2>1 DEF SleepReads, Asleep
  <2>2. CASE EndSleep(v, TRUE)
    BY <1>4, <2>2, EndSleepKeepsWakes DEF SleepReads, Sleeping
  <2> QED
    BY <1>4, <2>1, <2>2 DEF SleepReads
<1>5. CASE SleepStops(v)
  BY <1>5, EndSleepKeepsWakes DEF SleepStops, Sleeping
<1>6. CASE SleepFails(v)
  BY <1>6, EndSleepKeepsWakes DEF SleepFails
<1> QED
  BY <1>3, <1>4, <1>5, <1>6

LEMMA WakeWakes ==
  ASSUME OrderInv, OpData, WakeInv, NEW o \in Op, WakeSteps(o) \/ WakeFails(o)
  PROVE  WakeInv'
<1>1. ASSUME NEW l \in WakeBody, pc[o] \in WakeBody, Goto(o, l), wakes' = wakes, req' = req
      PROVE  WakeInv'
  <2>1. o[1] \in {"wake", "on", "api"}
    BY <1>1, OpShape DEF WakeInv, InPlace, PlacesOf, Asleep, WakeBody
  <2>2. l \in PlacesOf(o[1]) /\ l # "idle" /\ pc[o] # "idle"
    BY <1>1, <2>1 DEF PlacesOf, WakeBody, Pc, Asleep
  <2> QED
    BY <1>1, <2>1, <2>2, StepKeepsWakes DEF Goto
<1>2. CASE WakeRefuses(o)
  BY <1>2, EndWakeKeepsWakes DEF WakeRefuses, WakeBody
<1>3. CASE WakeReads(o)
  <2>1. CASE EndWake(o, FALSE)
    BY <1>3, <2>1, EndWakeKeepsWakes DEF WakeReads, WakeBody
  <2>2. CASE (\E l \in {"probe", "unpause", "await", "room"} : Goto(o, l))
             /\ UNCHANGED <<wakes, req>>
    BY <1>1, <1>3, <2>2 DEF WakeReads, WakeBody
  <2> QED
    BY <1>3, <2>1, <2>2 DEF WakeReads
<1>4. CASE WakeProbes(o)
  <2>1. CASE EndWake(o, TRUE)
    BY <1>4, <2>1, EndWakeKeepsWakes DEF WakeProbes, WakeBody
  <2>2. CASE Goto(o, "await") /\ UNCHANGED <<wakes, req>>
    BY <1>1, <1>4, <2>2 DEF WakeProbes, WakeBody
  <2> QED
    BY <1>4, <2>1, <2>2 DEF WakeProbes
<1>5. CASE WakeUnpauses(o)
  BY <1>1, <1>5 DEF WakeUnpauses, WakeBody
<1>6. CASE \E v \in Service : WakeEvicts(o, v)
  <2>1. PICK v \in Service : WakeEvicts(o, v)
    BY <1>6
  <2> DEFINE s == <<"sleep", v>>
  <2>2. pc \in [Op -> Pc] /\ s \in Op /\ s[1] = "sleep" /\ pc[o] = "room" /\ o[1] # "sleep" /\ o # s
    <3>1. pc \in [Op -> Pc] /\ s \in Op /\ s[1] = "sleep" /\ pc[o] = "room"
      BY <2>1, Kinds DEF OrderInv, PcInv, WakeEvicts
    <3>2. o[1] # "sleep"
      BY <3>1 DEF WakeInv, InPlace, PlacesOf, Asleep
    <3> QED
      BY <3>1, <3>2
  <2>3. pc' = [pc EXCEPT ![o] = "evicting", ![s] = "reading"]
    BY <2>1 DEF WakeEvicts
  <2>4. \A x \in Op : pc'[x] = IF x = s THEN "reading" ELSE IF x = o THEN "evicting" ELSE pc[x]
    BY <2>2, <2>3
  <2>5. InPlace'
    <3> SUFFICES ASSUME NEW x \in Op PROVE pc'[x] \in PlacesOf(x[1])
      BY DEF InPlace
    <3>1. CASE x = s
      BY <2>2, <2>4, <3>1 DEF PlacesOf, Asleep
    <3>2. CASE x = o
      BY <2>2, <2>4, <3>2 DEF PlacesOf, WakeBody, Pc, Asleep
    <3>3. CASE x \notin {s, o}
      BY <2>4, <3>3 DEF WakeInv, InPlace
    <3> QED
      BY <3>1, <3>2, <3>3
  <2>6. ASSUME NEW w \in Service
        PROVE  /\ pc'[<<"wake", w>>] = "idle" <=> pc[<<"wake", w>>] = "idle"
               /\ pc[<<"on", w>>] \in WakeBody => pc'[<<"on", w>>] \in WakeBody
               /\ pc[<<"api", w>>] \in WakeBody => pc'[<<"api", w>>] \in WakeBody
    <3>1. /\ <<"wake", w>> \in Op \ {s} /\ <<"on", w>> \in Op \ {s}
          /\ <<"api", w>> \in Op \ {s}
      BY Kinds
    <3>2. \A x \in Op \ {s} : /\ pc'[x] = "idle" <=> pc[x] = "idle"
                              /\ pc[x] \in WakeBody => pc'[x] \in WakeBody
      BY <2>2, <2>4 DEF WakeBody
    <3> QED
      BY <3>1, <3>2
  <2>7. wakes' = wakes /\ req' = req
    BY <2>1 DEF WakeEvicts
  <2>8. Flows
    BY <2>6, <2>7 DEF Flows
  <2> QED
    BY <2>5, <2>8, FlowsKeep DEF WakeInv
<1>7. CASE WakeHasRoom(o)
  BY <1>1, <1>7 DEF WakeHasRoom, WakeBody
<1>8. CASE WakeStarts(o)
  BY <1>1, <1>8 DEF WakeStarts, WakeBody
<1>9. CASE WakeIsReady(o)
  BY <1>9, EndWakeKeepsWakes DEF WakeIsReady, WakeBody
<1>10. CASE WakeFails(o)
  BY <1>10, EndWakeKeepsWakes DEF WakeFails, WakeBody
<1> QED
  BY <1>2, <1>3, <1>4, <1>5, <1>6, <1>7, <1>8, <1>9, <1>10 DEF WakeSteps

LEMMA ApiWakes ==
  ASSUME OrderInv, OpData, WakeInv, NEW k \in Service,
         \/ \E v \in Verbs : ApiCalls(k, v)
         \/ ApiSteps(k) \/ VerbFails(k) \/ DeployFails(k)
  PROVE  WakeInv'
<1> DEFINE o == <<"api", k>>
<1>1. o \in Op /\ o[1] = "api" /\ o[2] = k
  BY Kinds
<1>2. ASSUME NEW l \in Pc \ Asleep, Goto(o, l), pc[o] \notin WakeBody, wakes' = wakes, req' = req
      PROVE  WakeInv'
  <2>1. l \in PlacesOf(o[1])
    BY <1>1 DEF PlacesOf
  <2> QED
    BY <1>1, <1>2, <2>1, StepKeepsWakes DEF Goto
<1>3. ASSUME NEW v \in Verbs, ApiCalls(k, v) PROVE WakeInv'
  BY <1>2, <1>3 DEF ApiCalls, Pc, Asleep, WakeBody
<1>4. CASE ApiBegins(k)
  <2>1. PICK l \in {"hint", "thaw", "pause", "remove"} : Goto(o, l)
    BY <1>4 DEF ApiBegins
  <2> QED
    BY <1>2, <1>4, <2>1 DEF ApiBegins, Pc, Asleep, WakeBody
<1>5. CASE StartHints(k)
  BY <1>1, <1>5, InlineKeepsWakes DEF StartHints
<1>6. CASE StopThaws(k)
  BY <1>2, <1>6 DEF StopThaws, Pc, Asleep, WakeBody
<1>7. CASE StopHalts(k)
  BY <1>7, EndApiKeepsWakes DEF StopHalts, WakeBody
<1>8. CASE SuspendPauses(k)
  BY <1>8, EndApiKeepsWakes DEF SuspendPauses, WakeBody
<1>9. CASE DeployRemoves(k)
  BY <1>2, <1>9 DEF DeployRemoves, Pc, Asleep, WakeBody
<1>10. CASE DeployCreates(k)
  <2>1. PICK l \in {"reassert", "run"} : Goto(o, l)
    BY <1>10 DEF DeployCreates
  <2> QED
    BY <1>2, <1>10, <2>1 DEF DeployCreates, Pc, Asleep, WakeBody
<1>11. CASE DeployRuns(k)
  <2>1. CASE Goto(o, "reassert") /\ UNCHANGED <<wakes, req>>
    BY <1>2, <1>11, <2>1 DEF DeployRuns, Pc, Asleep, WakeBody
  <2>2. CASE EndApi(k, TRUE)
    BY <1>11, <2>2, EndApiKeepsWakes DEF DeployRuns, WakeBody
  <2> QED
    BY <1>11, <2>1, <2>2 DEF DeployRuns
<1>12. CASE DeployReasserts(k)
  BY <1>12, EndApiKeepsWakes DEF DeployReasserts, WakeBody
<1>13. CASE VerbFails(k)
  BY <1>13, EndApiKeepsWakes DEF VerbFails, WakeBody
<1>14. CASE DeployFails(k)
  BY <1>14, EndApiKeepsWakes DEF DeployFails, WakeBody
<1> QED
  BY <1>3, <1>4, <1>5, <1>6, <1>7, <1>8, <1>9, <1>10, <1>11, <1>12, <1>13, <1>14 DEF ApiSteps

(* A request that needs a wake joins the one in the map or brings its own. *)
LEMMA TrafficWakes ==
  ASSUME OrderInv, OpData, WakeInv, NEW k \in Service, NEW c \in Client,
         RequestArrives(k, c) \/ RequestGoes(k, c) \/ RequestWoken(k, c) \/ RequestEnds(k, c)
  PROVE  WakeInv'
<1> USE DEF opVars, ReqSet
<1>1. ASSUME NEW s, req' = [req EXCEPT ![<<k, c>>] = s], UNCHANGED <<pc, wakes>>,
             s = "waiting" => wakes[k] # "no"
      PROVE  WakeInv'
  <2>1. \A w \in Service, d \in Client :
          req'[<<w, d>>] = IF w = k /\ d = c THEN s ELSE req[<<w, d>>]
    BY <1>1 DEF OpData
  <2> QED
    BY <1>1, <2>1 DEF WakeInv, InPlace, WakesSettle
<1>2. CASE RequestGoes(k, c)
  <2>1. CASE (ReqSet(<<k, c>>, "served") \/ ReqSet(<<k, c>>, "none")) /\ UNCHANGED <<pc, wakes>>
    BY <1>1, <2>1
  <2>2. CASE wakes[k] # "no" /\ ReqSet(<<k, c>>, "waiting") /\ UNCHANGED <<pc, wakes>>
    BY <1>1, <2>2
  <2>3. CASE /\ wakes[k] = "no"
             /\ ReqSet(<<k, c>>, "waiting")
             /\ Goto(<<"wake", k>>, "queued")
             /\ wakes' = [wakes EXCEPT ![k] = "work"]
    <3> DEFINE o == <<"wake", k>>
    <3>1. pc \in [Op -> Pc] /\ o \in Op /\ o[1] = "wake" /\ pc' = [pc EXCEPT ![o] = "queued"]
      BY <2>3, Kinds DEF OrderInv, PcInv, Goto
    <3>2. InPlace'
      <4>1. "queued" \in PlacesOf(o[1])
        BY <3>1 DEF PlacesOf, Waiting
      <4> QED
        BY <3>1, <4>1, StepInPlace DEF WakeInv
    <3>3. /\ \A w \in Service : wakes'[w] = IF w = k THEN "work" ELSE wakes[w]
          /\ \A w \in Service, d \in Client :
               req'[<<w, d>>] = IF w = k /\ d = c THEN "waiting" ELSE req[<<w, d>>]
          /\ \A x \in Op : pc'[x] = IF x = o THEN "queued" ELSE pc[x]
      BY <2>3, <3>1 DEF OpData
    <3>4. ASSUME NEW w \in Service
          PROVE  /\ pc'[<<"wake", w>>] = IF w = k THEN "queued" ELSE pc[<<"wake", w>>]
                 /\ pc'[<<"on", w>>] = pc[<<"on", w>>]
                 /\ pc'[<<"api", w>>] = pc[<<"api", w>>]
      <4>1. <<"wake", w>> \in Op /\ <<"on", w>> \in Op /\ <<"api", w>> \in Op
        BY Kinds
      <4>2. (<<"wake", w>> = o <=> w = k) /\ <<"on", w>> # o /\ <<"api", w>> # o
        OBVIOUS
      <4> QED
        BY <3>3, <4>1, <4>2
    <3>5. WakesSettle'
      <4>1. \A w \in Service, d \in Client : req'[<<w, d>>] = "waiting" => wakes'[w] # "no"
        BY <3>3 DEF WakeInv, WakesSettle
      <4>2. \A w \in Service : wakes'[w] = "work" <=> pc'[<<"wake", w>>] # "idle"
        BY <3>3, <3>4 DEF WakeInv, WakesSettle
      <4>3. \A w \in Service : wakes'[w] = "inline" =>
              pc'[<<"on", w>>] \in WakeBody \/ pc'[<<"api", w>>] \in WakeBody
        BY <3>3, <3>4 DEF WakeInv, WakesSettle
      <4> QED
        BY <4>1, <4>2, <4>3 DEF WakesSettle
    <3> QED
      BY <3>2, <3>5 DEF WakeInv
  <2> QED
    BY <1>2, <2>1, <2>2, <2>3 DEF RequestGoes, WakeByTraffic
<1>3. CASE RequestArrives(k, c)
  BY <1>1, <1>3 DEF RequestArrives
<1>4. CASE RequestWoken(k, c)
  BY <1>1, <1>4 DEF RequestWoken
<1>5. CASE RequestEnds(k, c)
  BY <1>1, <1>5 DEF RequestEnds
<1> QED
  BY <1>2, <1>3, <1>4, <1>5

LEMMA ArrivesIdle ==
  ASSUME OrderInv, NEW o \in Op, NEW ks, Lock!Arrive(o, ks)
  PROVE  pc[o] = "idle"
BY DEF OrderInv, PcInv, Lock!Arrive

LEMMA NextWakes == OrderInv /\ OpData /\ WakeInv /\ [Next]_vars => WakeInv'
<1> SUFFICES ASSUME OrderInv, OpData, WakeInv, [Next]_vars PROVE WakeInv'
  OBVIOUS
<1> USE DEF opVars
<1>1. ASSUME UNCHANGED <<pc, wakes, req>> PROVE WakeInv'
  BY <1>1 DEF WakeInv, InPlace, WakesSettle
<1>2. ASSUME NEW o \in Op, Granted(o) PROVE WakeInv'
  <2>1. pc[o] = "queued" /\ pc' = [pc EXCEPT ![o] = "granted"] /\ UNCHANGED <<wakes, req>>
    BY <1>2 DEF Granted, Goto
  <2>2. o[1] \in {"wake", "on", "api"}
    BY <2>1, OpShape DEF WakeInv, InPlace, PlacesOf, Asleep
  <2>3. "granted" \in PlacesOf(o[1])
    BY <2>2 DEF PlacesOf, Pc, Asleep
  <2> QED
    BY <2>1, <2>3, StepKeepsWakes DEF WakeBody
<1>3. ASSUME NEW k \in Service, SweepWakes(k) PROVE WakeInv'
  <2>1. <<"on", k>> \in Op /\ <<"on", k>>[1] = "on" /\ "queued" \in PlacesOf("on")
    BY Kinds DEF PlacesOf, Waiting
  <2>2. pc[<<"on", k>>] = "idle"
    BY <1>3, <2>1, ArrivesIdle DEF SweepWakes
  <2> QED
    BY <1>3, <2>1, <2>2, StepKeepsWakes DEF SweepWakes, Goto, WakeBody
<1>4. ASSUME NEW k \in Service, OnBegins(k) PROVE WakeInv'
  <2>1. /\ <<"on", k>> \in Op /\ <<"on", k>>[1] = "on" /\ <<"on", k>>[2] = k
        /\ "idle" \in PlacesOf("on") /\ pc[<<"on", k>>] = "granted"
    BY <1>4, Kinds DEF PlacesOf, Waiting, OnBegins
  <2>2. CASE RegisterInline(k) /\ Goto(<<"on", k>>, "check")
    BY <1>4, <2>1, <2>2, InlineKeepsWakes DEF OnBegins
  <2>3. CASE Goto(<<"on", k>>, "idle") /\ UNCHANGED wakes
    BY <1>4, <2>1, <2>3, StepKeepsWakes DEF OnBegins, Goto, WakeBody
  <2> QED
    BY <1>4, <2>2, <2>3 DEF OnBegins
<1>5. ASSUME NEW k \in Service, WakeBegins(k) PROVE WakeInv'
  <2>1. /\ <<"wake", k>> \in Op /\ <<"wake", k>>[1] = "wake" /\ "check" \in PlacesOf("wake")
        /\ pc[<<"wake", k>>] = "granted"
    BY <1>5, Kinds DEF PlacesOf, WakeBody, WakeBegins
  <2> QED
    BY <1>5, <2>1, StepKeepsWakes DEF WakeBegins, Goto, WakeBody
<1>6. ASSUME NEW k \in Service,
             \/ Ages(k) \/ ProtectionEnds(k) \/ SetAlwaysOn(k)
             \/ LateStopLands(k) \/ ContainerCrashes(k) \/ ContainerRevives(k)
      PROVE  WakeInv'
  BY <1>1, <1>6
  DEF Ages, ProtectionEnds, SetAlwaysOn, LateStopLands, ContainerCrashes, ContainerRevives
<1>7. CASE Refreshes \/ Reconciles
  BY <1>1, <1>7 DEF Refreshes, Reconciles
<1>8. CASE DaemonRestarts
  <2>1. /\ \A o \in Op : pc'[o] = "idle"
        /\ \A k \in Service : wakes'[k] = "no"
        /\ \A k \in Service, c \in Client : req'[<<k, c>>] = "none"
    BY <1>8 DEF DaemonRestarts, OpData
  <2>2. InPlace'
    BY <2>1, OpShape DEF InPlace, PlacesOf, Waiting, Pc, Asleep
  <2>3. \A k \in Service : pc'[<<"wake", k>>] = "idle"
    BY <2>1 DEF Op
  <2>4. WakesSettle'
    <3>1. \A k \in Service, c \in Client : req'[<<k, c>>] = "waiting" => wakes'[k] # "no"
      BY <2>1
    <3>2. \A k \in Service : wakes'[k] = "work" <=> pc'[<<"wake", k>>] # "idle"
      BY <2>1, <2>3
    <3>3. \A k \in Service : wakes'[k] # "inline"
      BY <2>1
    <3> QED
      BY <3>1, <3>2, <3>3 DEF WakesSettle
  <2> QED
    BY <2>2, <2>4 DEF WakeInv
<1>9. CASE UNCHANGED vars
  BY <1>1, <1>9 DEF vars
<1> QED
  BY <1>2, <1>3, <1>4, <1>5, <1>6, <1>7, <1>8, <1>9, SleepWakes, WakeWakes, ApiWakes,
     TrafficWakes, SchedulerAssumption DEF Next

LEMMA InitWakeInv == Init => WakeInv
<1> SUFFICES ASSUME Init PROVE WakeInv
  OBVIOUS
<1>1. InPlace
  BY OpShape DEF Init, InPlace, PlacesOf, Waiting, Pc, Asleep
<1>2. WakesSettle
  BY Kinds DEF Init, WakesSettle
<1> QED
  BY <1>1, <1>2 DEF WakeInv

LEMMA WakesInv == Spec => []WakeInv
<1>1. Spec => []Data
  BY InitData, NextData, PTL DEF Spec
<1>2. Data => OpData
  BY DEF Data
<1> QED
  BY <1>1, <1>2, Order, InitWakeInv, NextWakes, PTL DEF Spec

(* A request waits on a wake that is under way, and no entry of the        *)
(* singleflight map outlives its operation: whoever is held is let go.     *)
THEOREM WaitersAreWoken == Spec => []WaitersHaveAWake
<1>1. WakeInv => WaitersHaveAWake
  BY DEF WakeInv, WakesSettle, WaitersHaveAWake
<1> QED
  BY <1>1, WakesInv, PTL
-----------------------------------------------------------------------------
(* Intent and docker.  What an operation that is past its grant knows of   *)
(* the row it may rely on until it ends, since whoever could change it     *)
(* waits for the lock; and unless something failed or an operation that    *)
(* will settle it is under way, docker is where the row says.              *)

IntentAt(o) ==
  /\ pc[o] \in Asleep \cup {"hint"} => desired[o[2]] = "running"
  /\ pc[o] \in WakeBody /\ ~(o[1] = "wake" /\ pc[o] = "check") => desired[o[2]] = "running"
  /\ pc[o] = "run" => desired[o[2]] # "stopped"
  /\ pc[o] = "reassert" => \/ desired[o[2]] = "suspended"
                           \/ desired[o[2]] = "stopped" /\ ctr[o[2]] = "created"

(* The places that are left by success or with blame, never as they were.  *)
Disturbs(o) ==
  IF o[1] = "api" THEN pc[o] \notin Waiting \cup {"granted"}
  ELSE pc[o] \in {"stopping", "probe", "unpause", "start", "await"}

RowAgrees(k) ==
  /\ desired[k] = "running" =>
       ctr[k] \in IF slept[k] THEN {"created", "exited", "none"} ELSE {"running", "none"}
  /\ desired[k] = "stopped" => ctr[k] \in {"created", "exited"} /\ ~slept[k]
  /\ desired[k] = "suspended" => ctr[k] = "paused"

RowAt(k) ==
  blamed[k] \/ RowAgrees(k) \/ \E o \in Op : o[2] = k /\ Disturbs(o)

AgreeInv == (\A o \in Op : IntentAt(o)) /\ (\A k \in Service : RowAt(k))

Same(w) == ctr'[w] = ctr[w] /\ desired'[w] = desired[w] /\ slept'[w] = slept[w]
           /\ blamed'[w] = blamed[w]

LEMMA SameIntent ==
  ASSUME NEW o \in Op, IntentAt(o), pc'[o] = pc[o], desired'[o[2]] = desired[o[2]],
         pc[o] = "reassert" /\ ctr[o[2]] = "created" => ctr'[o[2]] = "created"
  PROVE  IntentAt(o)'
BY DEF IntentAt

LEMMA WaitingIntent ==
  ASSUME NEW o \in Op, pc'[o] \in Waiting \cup {"granted"}
  PROVE  IntentAt(o)'
BY DEF IntentAt, Waiting, Asleep, WakeBody

LEMMA SameRow ==
  ASSUME NEW k \in Service, RowAt(k), Same(k),
         \A o \in Op : o[2] = k /\ Disturbs(o) => Disturbs(o)'
  PROVE  RowAt(k)'
<1>1. CASE blamed[k]
  BY <1>1 DEF Same, RowAt
<1>2. CASE RowAgrees(k)
  <2>1. RowAgrees(k)'
    BY <1>2 DEF Same, RowAgrees
  <2> QED
    BY <2>1 DEF RowAt
<1>3. CASE \E o \in Op : o[2] = k /\ Disturbs(o)
  <2>1. \E o \in Op : o[2] = k /\ Disturbs(o)'
    BY <1>3
  <2> QED
    BY <2>1 DEF RowAt
<1> QED
  BY <1>1, <1>2, <1>3 DEF RowAt

LEMMA SettledRow ==
  ASSUME NEW k \in Service, blamed'[k] \/ RowAgrees(k)'
  PROVE  RowAt(k)'
BY DEF RowAt

LEMMA DisturbedRow ==
  ASSUME NEW o \in Op, Disturbs(o)'
  PROVE  RowAt(o[2])'
BY DEF RowAt

(* The step of one operation that is past its grant: only its own service  *)
(* can change, and nobody else on that service is past its grant.          *)
LEMMA HolderAgrees ==
  ASSUME OrderInv, AgreeInv, NEW o \in Op, NEW l, pc[o] \notin Waiting,
         pc' = [pc EXCEPT ![o] = l],
         \A w \in Service : w # o[2] => Same(w),
         IntentAt(o)', RowAt(o[2])'
  PROVE  AgreeInv'
<1>1. pc \in [Op -> Pc] /\ o[2] \in Service
  BY OpShape DEF OrderInv, PcInv
<1>2. \A x \in Op : x # o => pc'[x] = pc[x]
  BY <1>1
<1>3. ASSUME NEW x \in Op, x # o PROVE IntentAt(x)'
  <2>1. CASE x[2] = o[2]
    <3>1. pc'[x] \in Waiting
      BY <1>2, <1>3, <2>1, Alone
    <3> QED
      BY <3>1, WaitingIntent
  <2>2. CASE x[2] # o[2]
    <3>1. Same(x[2]) /\ IntentAt(x) /\ pc'[x] = pc[x]
      BY <1>2, <1>3, <2>2, OpShape DEF AgreeInv
    <3> QED
      BY <3>1, SameIntent DEF Same
  <2> QED
    BY <2>1, <2>2
<1>4. ASSUME NEW w \in Service, w # o[2] PROVE RowAt(w)'
  <2>1. \A x \in Op : x[2] = w /\ Disturbs(x) => Disturbs(x)'
    BY <1>2, <1>4 DEF Disturbs
  <2> QED
    BY <1>4, <2>1, SameRow DEF AgreeInv
<1> QED
  BY <1>3, <1>4 DEF AgreeInv

(* What moves no container and no row, and takes no operation out of a     *)
(* place it disturbs.                                                      *)
LEMMA QuietAgrees ==
  ASSUME AgreeInv, UNCHANGED <<ctr, desired, slept, blamed>>,
         \A x \in Op : IntentAt(x)',
         \A x \in Op : Disturbs(x) => Disturbs(x)'
  PROVE  AgreeInv'
BY SameRow DEF AgreeInv, Same

LEMMA QuietStepAgrees ==
  ASSUME OrderInv, AgreeInv, UNCHANGED <<ctr, desired, slept, blamed>>,
         NEW o \in Op, NEW l, pc' = [pc EXCEPT ![o] = l], IntentAt(o)',
         Disturbs(o) => Disturbs(o)'
  PROVE  AgreeInv'
<1>1. \A x \in Op : x # o => pc'[x] = pc[x]
  BY DEF OrderInv, PcInv
<1>2. \A x \in Op : IntentAt(x)'
  BY <1>1, SameIntent DEF AgreeInv
<1>3. \A x \in Op : Disturbs(x) => Disturbs(x)'
  BY <1>1 DEF Disturbs
<1> QED
  BY <1>2, <1>3, QuietAgrees

(* While one operation on a service is past its grant, no other disturbs.  *)
LEMMA Undisturbed ==
  ASSUME OrderInv, AgreeInv, NEW o \in Op, pc[o] \notin Waiting, ~Disturbs(o), ~blamed[o[2]]
  PROVE  RowAgrees(o[2])
<1>1. ASSUME NEW x \in Op, x[2] = o[2] PROVE ~Disturbs(x)
  <2>1. x # o => pc[x] \in Waiting
    BY <1>1, Alone
  <2> QED
    BY <2>1 DEF Disturbs, Waiting
<1> QED
  BY <1>1, OpShape DEF AgreeInv, RowAt

(* A sleep that settles moves the eviction above it on, in its own body.   *)
LEMMA EndSleepPc ==
  ASSUME OrderInv, WakeInv, NEW v \in Service, NEW ok \in BOOLEAN, EndSleep(v, ok), Sleeping(v)
  PROVE  /\ pc'[<<"sleep", v>>] = "idle"
         /\ \A x \in Op : x # <<"sleep", v>> =>
              \/ pc'[x] = pc[x]
              \/ x[1] # "sleep" /\ pc[x] = "evicting" /\ pc'[x] \in {"room", "evicting"}
<1> DEFINE s == <<"sleep", v>>
           by == caller[v]
<1>1. pc \in [Op -> Pc] /\ s \in Op /\ pc[s] \in Asleep
  BY Kinds DEF OrderInv, PcInv, Sleeping, Asleep
<1>2. PICK l \in {"room", "evicting"} :
        pc' = IF by = Tick THEN [pc EXCEPT ![s] = "idle"]
              ELSE [pc EXCEPT ![s] = "idle", ![by] = l]
  BY DEF EndSleep
<1>3. by # Tick => by \in Op /\ pc[by] = "evicting" /\ by # s
  BY <1>1 DEF OrderInv, CallerInv, Asleep
<1>4. \A x \in Op : pc'[x] = IF x = s THEN "idle" ELSE IF x = by THEN l ELSE pc[x]
  BY <1>1, <1>2, <1>3, TickIsNoOp
<1>5. \A x \in Op : pc[x] = "evicting" => x[1] # "sleep"
  BY DEF WakeInv, InPlace, PlacesOf, Asleep
<1> QED
  BY <1>1, <1>3, <1>4, <1>5, TickIsNoOp

LEMMA EndSleepAgrees ==
  ASSUME OrderInv, WakeInv, AgreeInv, NEW v \in Service, NEW ok \in BOOLEAN, EndSleep(v, ok),
         Sleeping(v), UNCHANGED desired,
         \A w \in Service : w # v => Same(w),
         RowAt(v)' \/ (Same(v) /\ ~Disturbs(<<"sleep", v>>))
  PROVE  AgreeInv'
<1> DEFINE s == <<"sleep", v>>
<1>1. s \in Op /\ s[2] = v /\ pc[s] \notin Waiting
  BY Kinds DEF Sleeping, Waiting
<1>2. /\ pc'[s] = "idle"
      /\ \A x \in Op : x # s =>
           \/ pc'[x] = pc[x]
           \/ x[1] # "sleep" /\ pc[x] = "evicting" /\ pc'[x] \in {"room", "evicting"}
  BY EndSleepPc
<1>3. ASSUME NEW x \in Op PROVE IntentAt(x)'
  <2>1. CASE x = s
    BY <1>2, <2>1, WaitingIntent DEF Waiting
  <2>2. CASE x # s /\ pc'[x] = pc[x]
    <3>1. CASE x[2] = v
      <4>1. pc[x] \in Waiting
        BY <1>1, <2>2, <3>1, Alone
      <4> QED
        BY <2>2, <4>1, WaitingIntent
    <3>2. CASE x[2] # v
      BY <2>2, <3>2, SameIntent, OpShape DEF AgreeInv, Same
    <3> QED
      BY <3>1, <3>2
  <2>3. CASE x # s /\ pc[x] = "evicting" /\ pc'[x] \in {"room", "evicting"}
    BY <2>3 DEF AgreeInv, IntentAt, WakeBody, Asleep
  <2> QED
    BY <1>2, <2>1, <2>2, <2>3
<1>4. \A x \in Op : x # s /\ Disturbs(x) => Disturbs(x)'
  BY <1>2 DEF Disturbs, Waiting
<1>5. ASSUME NEW w \in Service, w # v PROVE RowAt(w)'
  <2>1. \A x \in Op : x[2] = w /\ Disturbs(x) => Disturbs(x)'
    BY <1>1, <1>4, <1>5
  <2> QED
    BY <1>5, <2>1, SameRow DEF AgreeInv
<1>6. RowAt(v)'
  <2>1. CASE Same(v) /\ ~Disturbs(s)
    <3>1. \A x \in Op : x[2] = v /\ Disturbs(x) => Disturbs(x)'
      BY <1>4, <2>1
    <3> QED
      BY <2>1, <3>1, SameRow DEF AgreeInv
  <2> QED
    BY <2>1
<1> QED
  BY <1>3, <1>5, <1>6 DEF AgreeInv

LEMMA SleepAgrees ==
  ASSUME OrderInv, WakeInv, World, Row, AgreeInv, NEW v \in Service,
         SweepSleeps(v) \/ SleepReads(v) \/ SleepStops(v) \/ SleepFails(v)
  PROVE  AgreeInv'
<1> DEFINE s == <<"sleep", v>>
<1> USE DEF rowVars, dockerVars
<1>1. s \in Op /\ s[1] = "sleep" /\ s[2] = v /\ pc \in [Op -> Pc]
  BY Kinds DEF OrderInv, PcInv
<1>2. Sleeping(v) => pc[s] \in Asleep /\ desired[v] = "running"
  BY <1>1 DEF Sleeping, AgreeInv, IntentAt, Asleep
<1>3. CASE SweepSleeps(v)
  <2>1. /\ desired'[v] = "running" /\ pc' = [pc EXCEPT ![s] = "reading"]
        /\ UNCHANGED <<ctr, desired, slept, blamed>> /\ pc[s] = "idle"
    BY <1>1, <1>3 DEF SweepSleeps, IsIdleCandidate, IsVictim, Sleepable, Goto, BeginSleep,
                      Lock!Seize, OrderInv, PcInv
  <2>2. pc'[s] = "reading" /\ ~Disturbs(s)
    BY <1>1, <2>1 DEF Disturbs
  <2>3. IntentAt(s)'
    BY <1>1, <2>1, <2>2 DEF IntentAt, WakeBody
  <2> QED
    BY <1>1, <2>1, <2>2, <2>3, QuietStepAgrees
<1>4. CASE SleepReads(v)
  <2>1. pc[s] = "reading" /\ Sleeping(v) /\ UNCHANGED <<ctr, desired, blamed>>
    BY <1>4 DEF SleepReads, Sleeping
  <2>2. CASE Goto(s, "stopping") /\ UNCHANGED slept
    <3>1. pc'[s] = "stopping" /\ pc' = [pc EXCEPT ![s] = "stopping"]
      BY <1>1, <2>2 DEF Goto
    <3>2. IntentAt(s)' /\ Disturbs(s)'
      BY <1>1, <1>2, <2>1, <3>1 DEF IntentAt, WakeBody, Disturbs
    <3> QED
      BY <1>1, <2>1, <2>2, <3>1, <3>2, QuietStepAgrees
  <2>3. CASE ctr[v] = "created" /\ Mark(v, TRUE) /\ EndSleep(v, TRUE)
    <3>1. \A w \in Service : slept'[w] = IF w = v THEN TRUE ELSE slept[w]
      BY <2>3 DEF Mark, Row
    <3>2. RowAgrees(v)'
      BY <1>2, <2>1, <2>3, <3>1 DEF RowAgrees
    <3> QED
      BY <2>1, <2>3, <3>1, <3>2, SettledRow, EndSleepAgrees DEF Same
  <2>4. CASE EndSleep(v, TRUE) /\ UNCHANGED slept
    BY <1>1, <2>1, <2>4, EndSleepAgrees DEF Same, Disturbs
  <2> QED
    BY <1>4, <2>2, <2>3, <2>4 DEF SleepReads
<1>5. CASE SleepStops(v)
  <2>1. /\ Sleeping(v) /\ EndSleep(v, TRUE) /\ UNCHANGED desired
        /\ \A w \in Service : /\ ctr'[w] = IF w = v THEN "exited" ELSE ctr[w]
                              /\ slept'[w] = IF w = v THEN TRUE ELSE slept[w]
                              /\ blamed'[w] = IF w = v THEN FALSE ELSE blamed[w]
    BY <1>5 DEF SleepStops, Sleeping, Becomes, Mark, Blame, Row, World
  <2>2. RowAgrees(v)'
    BY <1>2, <2>1 DEF RowAgrees
  <2> QED
    BY <2>1, <2>2, SettledRow, EndSleepAgrees DEF Same
<1>6. CASE SleepFails(v)
  <2>1. Sleeping(v) /\ EndSleep(v, FALSE) /\ UNCHANGED <<ctr, desired, slept>>
    BY <1>6 DEF SleepFails
  <2>2. CASE pc[s] = "stopping"
    <3>1. \A w \in Service : blamed'[w] = IF w = v THEN TRUE ELSE blamed[w]
      BY <1>6, <2>2 DEF SleepFails, Blame, World
    <3> QED
      BY <2>1, <3>1, SettledRow, EndSleepAgrees DEF Same
  <2>3. CASE pc[s] # "stopping"
    <3>1. UNCHANGED blamed /\ ~Disturbs(s)
      BY <1>1, <1>6, <2>3, <1>2 DEF SleepFails, Disturbs, Asleep
    <3> QED
      BY <2>1, <3>1, EndSleepAgrees DEF Same
  <2> QED
    BY <2>2, <2>3
<1> QED
  BY <1>3, <1>4, <1>5, <1>6

(* What the end of a wake's body leaves: the operation is idle, and the    *)
(* rows are its caller's business.                                         *)
LEMMA EndWakeAgrees ==
  ASSUME OrderInv, AgreeInv, NEW o \in Op, NEW joined \in BOOLEAN, EndWake(o, joined),
         pc[o] \notin Waiting,
         \A w \in Service : w # o[2] => Same(w),
         RowAt(o[2])' \/ (Same(o[2]) /\ ~Disturbs(o))
  PROVE  AgreeInv'
<1>1. pc' = [pc EXCEPT ![o] = "idle"] /\ pc'[o] = "idle" /\ pc \in [Op -> Pc]
  BY DEF EndWake, Goto, OrderInv, PcInv
<1>2. IntentAt(o)'
  BY <1>1, WaitingIntent DEF Waiting
<1>3. RowAt(o[2])'
  <2>1. CASE Same(o[2]) /\ ~Disturbs(o)
    <3>1. \A x \in Op : Disturbs(x) => Disturbs(x)'
      BY <1>1, <2>1 DEF Disturbs
    <3> QED
      BY <2>1, <3>1, SameRow, OpShape DEF AgreeInv
  <2> QED
    BY <2>1
<1> QED
  BY <1>1, <1>2, <1>3, HolderAgrees

LEMMA WakeAgrees ==
  ASSUME OrderInv, WakeInv, World, Row, AgreeInv, NEW o \in Op, WakeSteps(o) \/ WakeFails(o)
  PROVE  AgreeInv'
<1> DEFINE k == o[2]
<1> USE DEF rowVars, dockerVars
<1>1. k \in Service /\ pc \in [Op -> Pc]
  BY OpShape DEF OrderInv, PcInv
<1>2. pc[o] \in WakeBody => pc[o] \notin Waiting /\ o[1] \in {"wake", "on", "api"}
  BY OpShape DEF WakeInv, InPlace, PlacesOf, Asleep, WakeBody, Waiting
<1>3. /\ pc[o] \in WakeBody /\ pc[o] # "check" => desired[k] = "running"
      /\ pc[o] = "check" /\ ~Refuses(o) => desired[k] = "running"
  BY DEF AgreeInv, IntentAt, Refuses, WakeBody
<1>4. ASSUME NEW l \in WakeBody, pc[o] \in WakeBody, Goto(o, l), desired[k] = "running",
             \A w \in Service : w # k => Same(w), desired'[k] = desired[k],
             \/ l \in {"probe", "unpause", "start", "await"}
             \/ UNCHANGED <<ctr, slept, desired, blamed>> /\ (Disturbs(o) => Disturbs(o)')
      PROVE  AgreeInv'
  <2>1. pc' = [pc EXCEPT ![o] = l] /\ pc'[o] = l
    BY <1>1, <1>4 DEF Goto
  <2>2. IntentAt(o)'
    BY <1>4, <2>1 DEF IntentAt, WakeBody, Asleep
  <2>3. CASE l \in {"probe", "unpause", "start", "await"}
    <3>1. Disturbs(o)'
      BY <2>1, <2>3 DEF Disturbs, Waiting
    <3> QED
      BY <1>2, <1>4, <2>1, <2>2, <3>1, DisturbedRow, HolderAgrees
  <2>4. CASE UNCHANGED <<ctr, slept, desired, blamed>> /\ (Disturbs(o) => Disturbs(o)')
    BY <2>1, <2>2, <2>4, QuietStepAgrees
  <2> QED
    BY <1>4, <2>3, <2>4
<1>5. CASE WakeRefuses(o)
  <2>1. UNCHANGED <<ctr, desired, slept, blamed>> /\ ~Disturbs(o) /\ pc[o] \in WakeBody
    BY <1>5 DEF WakeRefuses, Refuses, Disturbs, WakeBody
  <2> QED
    BY <1>1, <1>2, <1>5, <2>1, EndWakeAgrees DEF WakeRefuses, Same
<1>6. CASE WakeReads(o)
  <2>1. /\ pc[o] \in WakeBody /\ pc[o] = "check" /\ desired[k] = "running"
        /\ UNCHANGED <<ctr, desired, slept>>
    BY <1>3, <1>6 DEF WakeReads, WakeBody
  <2>2. CASE EndWake(o, FALSE) /\ Blame(k, o[1] # "api")
             /\ (ctr[k] = "none" \/ (ctr[k] = "paused" /\ o[1] = "wake"))
    <3>1. \A w \in Service : blamed'[w] = IF w = k THEN o[1] # "api" ELSE blamed[w]
      BY <2>2 DEF Blame, World
    <3>2. blamed'[k] \/ RowAgrees(k)'
      BY <1>1, <2>1, <2>2, <3>1 DEF RowAgrees
    <3>3. RowAt(k)'
      BY <1>1, <3>2, SettledRow
    <3> QED
      BY <1>2, <2>1, <2>2, <3>1, <3>3, EndWakeAgrees DEF Same
  <2>3. CASE (\E l \in {"probe", "unpause", "await", "room"} : Goto(o, l)) /\ UNCHANGED blamed
    <3>1. PICK l \in {"probe", "unpause", "await", "room"} : Goto(o, l)
      BY <2>3
    <3>2. l \in WakeBody /\ (l = "room" => (Disturbs(o) => Disturbs(o)'))
      BY <1>1, <2>1, <3>1 DEF Goto, WakeBody, Disturbs, Waiting
    <3> QED
      BY <1>4, <2>1, <2>3, <3>1, <3>2 DEF Same
  <2> QED
    BY <1>6, <2>2, <2>3 DEF WakeReads
<1>7. CASE WakeProbes(o)
  <2>1. pc[o] \in WakeBody /\ desired[k] = "running" /\ UNCHANGED <<ctr, desired>>
    BY <1>3, <1>7 DEF WakeProbes, WakeBody
  <2>2. CASE ctr[k] = "running" /\ Mark(k, FALSE) /\ EndWake(o, TRUE) /\ Blame(k, FALSE)
    <3>1. \A w \in Service : /\ slept'[w] = IF w = k THEN FALSE ELSE slept[w]
                             /\ blamed'[w] = IF w = k THEN FALSE ELSE blamed[w]
      BY <2>2 DEF Mark, Blame, World, Row
    <3>2. RowAgrees(k)'
      BY <1>1, <2>1, <2>2, <3>1 DEF RowAgrees
    <3>3. RowAt(k)'
      BY <1>1, <3>2, SettledRow
    <3> QED
      BY <1>2, <2>1, <2>2, <3>1, <3>3, EndWakeAgrees DEF Same
  <2>3. CASE Goto(o, "await") /\ UNCHANGED <<blamed, slept>>
    BY <1>4, <2>1, <2>3 DEF Same, WakeBody
  <2> QED
    BY <1>7, <2>2, <2>3 DEF WakeProbes
<1>8. ASSUME NEW c, Becomes(k, c) PROVE \A w \in Service : w # k => ctr'[w] = ctr[w]
  BY <1>8 DEF Becomes, World
<1>9. CASE WakeUnpauses(o)
  <2>1. /\ pc[o] \in WakeBody /\ desired[k] = "running" /\ Goto(o, "await")
        /\ UNCHANGED <<desired, slept, blamed>>
        /\ \A w \in Service : w # k => ctr'[w] = ctr[w]
    BY <1>3, <1>8, <1>9 DEF WakeUnpauses, WakeBody
  <2> QED
    BY <1>4, <2>1 DEF Same, WakeBody
<1>10. CASE \E v \in Service : WakeEvicts(o, v)
  <2>1. PICK v \in Service : WakeEvicts(o, v)
    BY <1>10
  <2> DEFINE s == <<"sleep", v>>
  <2>2. /\ s \in Op /\ s[1] = "sleep" /\ s[2] = v /\ pc[o] = "room" /\ o[1] # "sleep" /\ o # s
        /\ desired[v] = "running" /\ desired[k] = "running"
        /\ UNCHANGED <<ctr, desired, slept, blamed>>
    <3>1. pc[o] \in WakeBody /\ pc[o] = "room"
      BY <2>1 DEF WakeEvicts, WakeBody
    <3>2. desired[v] = "running" /\ UNCHANGED <<ctr, desired, slept, blamed>>
      BY <2>1 DEF WakeEvicts, IsVictim, Sleepable
    <3> QED
      BY <1>2, <1>3, <3>1, <3>2, Kinds
  <2>3. pc[s] = "idle"
    BY <2>1, <2>2 DEF WakeEvicts, BeginSleep, Lock!Seize, OrderInv, PcInv
  <2>4. \A x \in Op : pc'[x] = IF x = s THEN "reading" ELSE IF x = o THEN "evicting" ELSE pc[x]
    BY <1>1, <2>1, <2>2 DEF WakeEvicts
  <2>5. ASSUME NEW x \in Op PROVE IntentAt(x)'
    <3>1. CASE x = s
      BY <2>2, <2>4, <3>1 DEF IntentAt, WakeBody
    <3>2. CASE x = o
      BY <2>2, <2>4, <3>2 DEF IntentAt, WakeBody, Asleep
    <3>3. CASE x \notin {s, o}
      BY <2>2, <2>4, <3>3, SameIntent DEF AgreeInv
    <3> QED
      BY <3>1, <3>2, <3>3
  <2>6. \A x \in Op : Disturbs(x) => Disturbs(x)'
    BY <2>2, <2>3, <2>4 DEF Disturbs, Waiting
  <2> QED
    BY <2>2, <2>5, <2>6, QuietAgrees
<1>11. CASE WakeHasRoom(o)
  <2>1. /\ pc[o] \in WakeBody /\ desired[k] = "running" /\ Goto(o, "start")
        /\ UNCHANGED <<ctr, desired, slept, blamed>>
    BY <1>3, <1>11 DEF WakeHasRoom, WakeBody
  <2> QED
    BY <1>4, <2>1 DEF Same, WakeBody
<1>12. CASE WakeStarts(o)
  <2>1. /\ pc[o] \in WakeBody /\ desired[k] = "running" /\ Goto(o, "await")
        /\ UNCHANGED <<desired, slept, blamed>>
        /\ \A w \in Service : w # k => ctr'[w] = ctr[w]
    BY <1>3, <1>8, <1>12 DEF WakeStarts, WakeBody
  <2> QED
    BY <1>4, <2>1 DEF Same, WakeBody
<1>13. CASE WakeIsReady(o)
  <2>1. /\ pc[o] \in WakeBody /\ desired[k] = "running" /\ ctr[k] = "running"
        /\ UNCHANGED <<ctr, desired>> /\ EndWake(o, TRUE)
        /\ \A w \in Service : /\ slept'[w] = IF w = k THEN FALSE ELSE slept[w]
                              /\ blamed'[w] = IF w = k THEN FALSE ELSE blamed[w]
    BY <1>3, <1>13 DEF WakeIsReady, WakeBody, OnUp, Mark, Blame, World, Row
  <2>2. RowAgrees(k)'
    BY <1>1, <2>1 DEF RowAgrees
  <2>3. RowAt(k)'
    BY <1>1, <2>2, SettledRow
  <2> QED
    BY <1>2, <2>1, <2>3, EndWakeAgrees DEF Same
<1>14. CASE WakeFails(o)
  <2>1. UNCHANGED <<desired, slept>> /\ EndWake(o, FALSE) /\ pc[o] \in WakeBody
    BY <1>14 DEF WakeFails, WakeBody
  <2>2. CASE pc[o] = "evicting"
    <3>1. UNCHANGED ctr /\ Blame(k, blamed[k] \/ o[1] = "api")
      BY <1>14, <2>2 DEF WakeFails
    <3>2. \A w \in Service : blamed'[w] = IF w = k THEN blamed[k] \/ o[1] = "api" ELSE blamed[w]
      BY <3>1 DEF Blame, World
    <3>3. CASE o[1] = "api"
      <4>1. RowAt(k)'
        BY <1>1, <3>2, <3>3, SettledRow
      <4> QED
        BY <1>2, <2>1, <3>1, <3>2, <4>1, EndWakeAgrees DEF Same
    <3>4. CASE o[1] # "api"
      <4>1. ~Disturbs(o) /\ \A w \in Service : blamed'[w] = blamed[w]
        BY <2>2, <3>2, <3>4 DEF Disturbs, World
      <4> QED
        BY <1>1, <1>2, <2>1, <3>1, <4>1, EndWakeAgrees DEF Same
    <3> QED
      BY <3>3, <3>4
  <2>3. CASE pc[o] # "evicting"
    <3>1. Blame(k, TRUE) /\ \A w \in Service : w # k => ctr'[w] = ctr[w]
      BY <1>14, <2>3 DEF WakeFails, World
    <3>2. \A w \in Service : blamed'[w] = IF w = k THEN TRUE ELSE blamed[w]
      BY <3>1 DEF Blame, World
    <3>3. RowAt(k)'
      BY <1>1, <3>2, SettledRow
    <3> QED
      BY <1>2, <2>1, <3>1, <3>2, <3>3, EndWakeAgrees DEF Same
  <2> QED
    BY <2>2, <2>3
<1> QED
  BY <1>5, <1>6, <1>7, <1>9, <1>10, <1>11, <1>12, <1>13, <1>14 DEF WakeSteps

LEMMA ApiAgrees ==
  ASSUME OrderInv, WakeInv, World, Row, AgreeInv, NEW k \in Service,
         \/ \E v \in Verbs : ApiCalls(k, v)
         \/ ApiSteps(k) \/ VerbFails(k) \/ DeployFails(k)
  PROVE  AgreeInv'
<1> DEFINE o == <<"api", k>>
<1> USE DEF rowVars, dockerVars
<1>1. o \in Op /\ o[1] = "api" /\ o[2] = k /\ pc \in [Op -> Pc]
  BY Kinds DEF OrderInv, PcInv
<1>2. pc[o] = "hint" => desired[k] = "running"
  BY <1>1 DEF AgreeInv, IntentAt
<1>3. pc[o] = "run" => desired[k] \in {"running", "suspended"}
  BY <1>1 DEF AgreeInv, IntentAt, Row
<1>4. pc[o] = "reassert" => desired[k] = "suspended" \/ (desired[k] = "stopped" /\ ctr[k] = "created")
  BY <1>1 DEF AgreeInv, IntentAt
<1>5. ASSUME NEW l \in Pc, pc[o] \notin Waiting, Goto(o, l), l \notin Waiting \cup {"granted"},
             \A w \in Service : w # k => Same(w), IntentAt(o)'
      PROVE  AgreeInv'
  <2>1. pc' = [pc EXCEPT ![o] = l] /\ pc'[o] = l
    BY <1>1, <1>5 DEF Goto
  <2>2. Disturbs(o)'
    BY <1>1, <1>5, <2>1 DEF Disturbs
  <2>3. RowAt(k)'
    BY <1>1, <2>2, DisturbedRow
  <2> QED
    BY <1>1, <1>5, <2>1, <2>3, HolderAgrees
<1>6. ASSUME NEW ok \in BOOLEAN, pc[o] \notin Waiting, EndApi(k, ok),
             \A w \in Service : w # k => ctr'[w] = ctr[w] /\ desired'[w] = desired[w]
                                          /\ slept'[w] = slept[w],
             ok => RowAgrees(k)'
      PROVE  AgreeInv'
  <2>1. pc' = [pc EXCEPT ![o] = "idle"] /\ pc'[o] = "idle"
    BY <1>1, <1>6 DEF EndApi, Goto
  <2>2. \A w \in Service : blamed'[w] = IF w = k THEN ~ok ELSE blamed[w]
    BY <1>6 DEF EndApi, Blame, World
  <2>3. RowAt(k)'
    BY <1>6, <2>2, SettledRow
  <2>4. IntentAt(o)'
    BY <1>1, <2>1, WaitingIntent DEF Waiting
  <2> QED
    BY <1>1, <1>6, <2>1, <2>2, <2>3, <2>4, HolderAgrees DEF Same
<1>7. ASSUME NEW c, Becomes(k, c) PROVE \A w \in Service : ctr'[w] = IF w = k THEN c ELSE ctr[w]
  BY <1>7 DEF Becomes, World
<1>8. ASSUME NEW b, Mark(k, b) PROVE \A w \in Service : slept'[w] = IF w = k THEN b ELSE slept[w]
  BY <1>8 DEF Mark, Row
<1>9. ASSUME NEW v \in Verbs, ApiCalls(k, v) PROVE AgreeInv'
  <2>1. /\ pc' = [pc EXCEPT ![o] = "queued"] /\ pc'[o] = "queued" /\ pc[o] = "idle"
        /\ UNCHANGED <<ctr, desired, slept, blamed>>
    BY <1>1, <1>9 DEF ApiCalls, Goto
  <2>2. IntentAt(o)' /\ ~Disturbs(o)
    BY <1>1, <2>1, WaitingIntent DEF Waiting, Disturbs
  <2> QED
    BY <1>1, <2>1, <2>2, QuietStepAgrees
<1>10. CASE ApiBegins(k)
  <2>1. /\ pc[o] \notin Waiting /\ UNCHANGED <<ctr, slept, blamed>>
        /\ \A w \in Service : desired'[w] = IF w = k /\ verb[k] = "start" THEN "running"
                                            ELSE desired[w]
    BY <1>10 DEF ApiBegins, Waiting, Row
  <2>2. CASE verb[k] = "start"
    <3>1. Goto(o, "hint") /\ pc'[o] = "hint" /\ desired'[k] = "running"
      BY <1>1, <1>10, <2>1, <2>2 DEF ApiBegins, Goto
    <3>2. IntentAt(o)'
      BY <1>1, <3>1 DEF IntentAt, WakeBody
    <3> QED
      BY <1>5, <2>1, <3>1, <3>2 DEF Same, Pc, Waiting
  <2>3. CASE verb[k] # "start"
    <3>1. PICK l \in {"thaw", "pause", "remove"} : Goto(o, l)
      BY <1>10, <2>3 DEF ApiBegins
    <3>2. pc'[o] = l
      BY <1>1, <3>1 DEF Goto
    <3>3. IntentAt(o)'
      BY <3>1, <3>2 DEF IntentAt, WakeBody, Asleep
    <3> QED
      BY <1>5, <2>1, <2>3, <3>1, <3>3 DEF Same, Pc, Waiting
  <2> QED
    BY <2>2, <2>3
<1>11. CASE StartHints(k)
  <2>1. /\ pc[o] \notin Waiting /\ Goto(o, "check") /\ UNCHANGED <<desired, slept, blamed>>
        /\ desired[k] = "running"
        /\ \A w \in Service : w # k => ctr'[w] = ctr[w]
    BY <1>2, <1>7, <1>11 DEF StartHints, Waiting
  <2>2. pc'[o] = "check"
    BY <1>1, <2>1 DEF Goto
  <2>3. IntentAt(o)'
    BY <1>1, <2>1, <2>2 DEF IntentAt, WakeBody, Asleep
  <2> QED
    BY <1>5, <2>1, <2>3 DEF Same, Pc, Waiting
<1>12. CASE StopThaws(k)
  <2>1. /\ pc[o] \notin Waiting /\ Goto(o, "halt") /\ UNCHANGED <<desired, slept, blamed>>
        /\ \A w \in Service : w # k => ctr'[w] = ctr[w]
    BY <1>7, <1>12 DEF StopThaws, Waiting
  <2>2. pc'[o] = "halt"
    BY <1>1, <2>1 DEF Goto
  <2>3. IntentAt(o)'
    BY <2>2 DEF IntentAt, WakeBody, Asleep
  <2> QED
    BY <1>5, <2>1, <2>3 DEF Same, Pc, Waiting
<1>13. CASE StopHalts(k)
  <2>1. /\ pc[o] \notin Waiting /\ EndApi(k, TRUE)
        /\ \A w \in Service :
             /\ ctr'[w] = IF w = k THEN (IF ctr[k] = "created" THEN "created" ELSE "exited")
                          ELSE ctr[w]
             /\ desired'[w] = IF w = k THEN "stopped" ELSE desired[w]
             /\ slept'[w] = IF w = k THEN FALSE ELSE slept[w]
    BY <1>7, <1>8, <1>13 DEF StopHalts, Waiting, Row
  <2>2. RowAgrees(k)'
    BY <2>1 DEF RowAgrees
  <2> QED
    BY <1>6, <2>1, <2>2
<1>14. CASE SuspendPauses(k)
  <2>1. /\ pc[o] \notin Waiting /\ EndApi(k, TRUE) /\ UNCHANGED slept
        /\ \A w \in Service : /\ ctr'[w] = IF w = k THEN "paused" ELSE ctr[w]
                              /\ desired'[w] = IF w = k THEN "suspended" ELSE desired[w]
    BY <1>7, <1>14 DEF SuspendPauses, Waiting, Row
  <2>2. RowAgrees(k)'
    BY <2>1 DEF RowAgrees
  <2> QED
    BY <1>6, <2>1, <2>2
<1>15. CASE DeployRemoves(k)
  <2>1. /\ pc[o] \notin Waiting /\ Goto(o, "create") /\ UNCHANGED <<desired, slept, blamed>>
        /\ \A w \in Service : w # k => ctr'[w] = ctr[w]
    BY <1>7, <1>15 DEF DeployRemoves, Waiting
  <2>2. pc'[o] = "create"
    BY <1>1, <2>1 DEF Goto
  <2>3. IntentAt(o)'
    BY <2>2 DEF IntentAt, WakeBody, Asleep
  <2> QED
    BY <1>5, <2>1, <2>3 DEF Same, Pc, Waiting
<1>16. CASE DeployCreates(k)
  <2> DEFINE l == IF desired[k] = "stopped" THEN "reassert" ELSE "run"
  <2>1. /\ pc[o] \notin Waiting /\ Goto(o, l) /\ UNCHANGED <<desired, slept, blamed>>
        /\ \A w \in Service : ctr'[w] = IF w = k THEN "created" ELSE ctr[w]
    BY <1>7, <1>16 DEF DeployCreates, Waiting
  <2>2. pc'[o] = l
    BY <1>1, <2>1 DEF Goto
  <2>3. IntentAt(o)'
    BY <1>1, <2>1, <2>2 DEF IntentAt, WakeBody, Asleep
  <2> QED
    BY <1>5, <2>1, <2>3 DEF Same, Pc, Waiting
<1>17. CASE DeployRuns(k)
  <2>1. /\ pc[o] \notin Waiting /\ UNCHANGED desired /\ desired[k] \in {"running", "suspended"}
        /\ \A w \in Service : ctr'[w] = IF w = k THEN "running" ELSE ctr[w]
    BY <1>3, <1>7, <1>17 DEF DeployRuns, Waiting
  <2>2. CASE desired[k] = "suspended"
    <3>1. Goto(o, "reassert") /\ UNCHANGED <<slept, blamed>>
      BY <1>17, <2>2 DEF DeployRuns
    <3>2. pc'[o] = "reassert"
      BY <1>1, <3>1 DEF Goto
    <3>3. IntentAt(o)'
      BY <1>1, <2>1, <2>2, <3>2 DEF IntentAt, WakeBody, Asleep
    <3> QED
      BY <1>5, <2>1, <3>1, <3>3 DEF Same, Pc, Waiting
  <2>3. CASE desired[k] # "suspended"
    <3>1. /\ EndApi(k, TRUE)
          /\ \A w \in Service : slept'[w] = IF w = k THEN FALSE ELSE slept[w]
      BY <1>8, <1>17, <2>3 DEF DeployRuns, OnUp
    <3>2. RowAgrees(k)'
      BY <2>1, <2>3, <3>1 DEF RowAgrees
    <3> QED
      BY <1>6, <2>1, <3>1, <3>2
  <2> QED
    BY <2>2, <2>3
<1>18. CASE DeployReasserts(k)
  <2>1. pc[o] \notin Waiting /\ EndApi(k, TRUE) /\ UNCHANGED desired /\ pc[o] = "reassert"
    BY <1>18 DEF DeployReasserts, Waiting
  <2>2. CASE desired[k] = "suspended"
    <3>1. UNCHANGED slept /\ \A w \in Service : ctr'[w] = IF w = k THEN "paused" ELSE ctr[w]
      BY <1>7, <1>18, <2>2 DEF DeployReasserts
    <3>2. RowAgrees(k)'
      BY <2>1, <2>2, <3>1 DEF RowAgrees
    <3> QED
      BY <1>6, <2>1, <3>1, <3>2
  <2>3. CASE desired[k] # "suspended"
    <3>1. /\ UNCHANGED ctr /\ desired[k] = "stopped" /\ ctr[k] = "created"
          /\ \A w \in Service : slept'[w] = IF w = k THEN FALSE ELSE slept[w]
      BY <1>4, <1>8, <1>18, <2>1, <2>3 DEF DeployReasserts
    <3>2. RowAgrees(k)'
      BY <2>1, <2>3, <3>1 DEF RowAgrees
    <3> QED
      BY <1>6, <2>1, <3>1, <3>2
  <2> QED
    BY <2>2, <2>3
<1>19. CASE VerbFails(k)
  <2>1. pc[o] \notin Waiting /\ EndApi(k, FALSE) /\ UNCHANGED <<ctr, desired, slept>>
    BY <1>19 DEF VerbFails, Waiting
  <2> QED
    BY <1>6, <2>1
<1>20. CASE DeployFails(k)
  <2>1. /\ pc[o] \notin Waiting /\ EndApi(k, FALSE) /\ UNCHANGED <<ctr, desired>>
        /\ \A w \in Service : w # k => slept'[w] = slept[w]
    BY <1>8, <1>20 DEF DeployFails, Waiting, OnUp
  <2> QED
    BY <1>6, <2>1
<1> QED
  BY <1>9, <1>10, <1>11, <1>12, <1>13, <1>14, <1>15, <1>16, <1>17, <1>18, <1>19, <1>20 DEF ApiSteps

(* Docker by itself: a container it moves is blamed, and one that was only *)
(* created stays so.                                                       *)
LEMMA DockerAgrees ==
  ASSUME World, AgreeInv, NEW k \in Service,
         LateStopLands(k) \/ ContainerCrashes(k) \/ ContainerRevives(k)
  PROVE  AgreeInv'
<1> USE DEF opVars, rowVars
<1>1. /\ UNCHANGED <<pc, desired, slept>> /\ Blame(k, TRUE)
      /\ \A w \in Service : w # k => ctr'[w] = ctr[w]
      /\ ctr[k] = "created" => ctr'[k] = "created"
  BY DEF LateStopLands, ContainerCrashes, ContainerRevives, Becomes, World
<1>2. \A w \in Service : blamed'[w] = IF w = k THEN TRUE ELSE blamed[w]
  BY <1>1 DEF Blame, World
<1>3. ASSUME NEW x \in Op PROVE IntentAt(x)'
  BY <1>1, SameIntent, OpShape DEF AgreeInv
<1>4. ASSUME NEW w \in Service PROVE RowAt(w)'
  <2>1. CASE w = k
    BY <1>2, <2>1, SettledRow
  <2>2. CASE w # k
    <3>1. \A x \in Op : Disturbs(x) => Disturbs(x)'
      BY <1>1 DEF Disturbs
    <3> QED
      BY <1>1, <1>2, <2>2, <3>1, SameRow DEF AgreeInv, Same
  <2> QED
    BY <2>1, <2>2
<1> QED
  BY <1>3, <1>4 DEF AgreeInv

(* A restart forgets every operation; the services they were at are        *)
(* blamed, and no command was in flight on any other.                      *)
LEMMA RestartAgrees ==
  ASSUME OrderInv, World, AgreeInv, DaemonRestarts
  PROVE  AgreeInv'
<1>1. /\ \A o \in Op : pc'[o] = "idle"
      /\ UNCHANGED <<desired, slept>>
      /\ \A k \in Service : blamed'[k] = (blamed[k] \/ Lock!Taken(k))
      /\ \A k \in Service : ctr'[k] \in InFlight(k)
  BY DEF DaemonRestarts, rowVars
<1>2. ASSUME NEW x \in Op PROVE IntentAt(x)'
  BY <1>1, WaitingIntent DEF Waiting
<1>3. ASSUME NEW k \in Service, ~blamed[k], ~Lock!Taken(k) PROVE RowAgrees(k)'
  <2>1. \A o \in Op : o[2] = k => pc[o] = "idle"
    <3> SUFFICES ASSUME NEW o \in Op, o[2] = k, pc[o] # "idle" PROVE FALSE
      OBVIOUS
    <3>1. k \in need[o]
      BY DEF OrderInv, PcInv
    <3> QED
      BY <1>3, <3>1 DEF Lock!Taken
  <2>2. RowAgrees(k)
    BY <1>3, <2>1 DEF AgreeInv, RowAt, Disturbs, Waiting
  <2>3. InFlight(k) = {ctr[k]}
    BY <2>1 DEF InFlight
  <2>4. ctr'[k] = ctr[k]
    BY <1>1, <2>3
  <2> QED
    BY <1>1, <2>2, <2>4 DEF RowAgrees
<1>4. ASSUME NEW k \in Service PROVE RowAt(k)'
  BY <1>1, <1>3, SettledRow
<1> QED
  BY <1>2, <1>4 DEF AgreeInv

(* The boot read clears only marks that docker disproves: a service the    *)
(* row is true of has none.                                                *)
LEMMA ReconcileAgrees ==
  ASSUME Row, AgreeInv, Reconciles
  PROVE  AgreeInv'
<1>1. /\ UNCHANGED <<pc, ctr, desired, blamed>>
      /\ \A k \in Service : slept'[k] = (slept[k] /\ ctr[k] # "running")
  BY DEF Reconciles, opVars
<1>2. ASSUME NEW x \in Op PROVE IntentAt(x)'
  BY <1>1, SameIntent DEF AgreeInv
<1>3. ASSUME NEW k \in Service PROVE RowAt(k)'
  <2>1. CASE blamed[k]
    BY <1>1, <2>1, SettledRow
  <2>2. CASE RowAgrees(k)
    <3>1. RowAgrees(k)'
      BY <1>1, <2>2 DEF RowAgrees, Row
    <3> QED
      BY <3>1, SettledRow
  <2>3. CASE \E o \in Op : o[2] = k /\ Disturbs(o)
    <3>1. PICK o \in Op : o[2] = k /\ Disturbs(o)
      BY <2>3
    <3>2. Disturbs(o)'
      BY <1>1, <3>1 DEF Disturbs
    <3> QED
      BY <3>1, <3>2, DisturbedRow
  <2> QED
    BY <2>1, <2>2, <2>3 DEF AgreeInv, RowAt
<1> QED
  BY <1>2, <1>3 DEF AgreeInv

LEMMA NextAgrees == OrderInv /\ Data /\ WakeInv /\ AgreeInv /\ [Next]_vars => AgreeInv'
<1> SUFFICES ASSUME OrderInv, Data, WakeInv, AgreeInv, [Next]_vars PROVE AgreeInv'
  OBVIOUS
<1> USE DEF opVars, dockerVars, rowVars
<1>0. World /\ Row /\ OpData /\ pc \in [Op -> Pc]
  BY DEF Data, OrderInv, PcInv
<1>1. ASSUME UNCHANGED <<pc, ctr, desired, slept, blamed>> PROVE AgreeInv'
  <2>1. \A x \in Op : IntentAt(x)'
    BY <1>1, SameIntent DEF AgreeInv
  <2>2. \A x \in Op : Disturbs(x) => Disturbs(x)'
    BY <1>1 DEF Disturbs
  <2> QED
    BY <1>1, <2>1, <2>2, QuietAgrees
<1>2. ASSUME NEW o \in Op, NEW l \in Waiting \cup {"granted"}, Goto(o, l), ~Disturbs(o),
             UNCHANGED <<ctr, desired, slept, blamed>>
      PROVE  AgreeInv'
  <2>1. pc' = [pc EXCEPT ![o] = l] /\ pc'[o] = l
    BY <1>0, <1>2 DEF Goto
  <2>2. IntentAt(o)'
    BY <1>2, <2>1, WaitingIntent
  <2> QED
    BY <1>2, <2>1, <2>2, QuietStepAgrees
<1>3. ASSUME NEW o \in Op, pc[o] \in Waiting \cup {"granted"} PROVE ~Disturbs(o)
  BY <1>3 DEF Disturbs, Waiting
<1>4. ASSUME NEW o \in Op, Granted(o) PROVE AgreeInv'
  BY <1>2, <1>3, <1>4 DEF Granted, Waiting
<1>5. ASSUME NEW k \in Service, SweepWakes(k) PROVE AgreeInv'
  <2>1. <<"on", k>> \in Op
    BY Kinds
  <2>2. pc[<<"on", k>>] = "idle"
    BY <1>5, <2>1, ArrivesIdle DEF SweepWakes
  <2> QED
    BY <1>2, <1>3, <1>5, <2>1, <2>2 DEF SweepWakes, Waiting
<1>6. ASSUME NEW k \in Service, OnBegins(k) PROVE AgreeInv'
  <2> DEFINE o == <<"on", k>>
  <2>1. o \in Op /\ o[1] = "on" /\ o[2] = k /\ pc[o] = "granted" /\ UNCHANGED <<ctr, desired, slept, blamed>>
    BY <1>6, Kinds DEF OnBegins
  <2>2. CASE desired[k] = "running" /\ Goto(o, "check")
    <3>1. pc' = [pc EXCEPT ![o] = "check"] /\ pc'[o] = "check"
      BY <1>0, <2>1, <2>2 DEF Goto
    <3>2. IntentAt(o)' /\ ~Disturbs(o)
      BY <2>1, <2>2, <3>1 DEF IntentAt, Disturbs, Asleep
    <3> QED
      BY <2>1, <3>1, <3>2, QuietStepAgrees
  <2>3. CASE Goto(o, "idle")
    BY <1>2, <1>3, <2>1, <2>3 DEF Waiting
  <2> QED
    BY <1>6, <2>2, <2>3 DEF OnBegins
<1>7. ASSUME NEW k \in Service, WakeBegins(k) PROVE AgreeInv'
  <2> DEFINE o == <<"wake", k>>
  <2>1. /\ o \in Op /\ o[1] = "wake" /\ pc[o] = "granted" /\ UNCHANGED <<ctr, desired, slept, blamed>>
        /\ pc' = [pc EXCEPT ![o] = "check"] /\ pc'[o] = "check"
    BY <1>0, <1>7, Kinds DEF WakeBegins, Goto
  <2>2. IntentAt(o)' /\ ~Disturbs(o)
    BY <2>1 DEF IntentAt, Disturbs, Asleep
  <2> QED
    BY <2>1, <2>2, QuietStepAgrees
<1>8. ASSUME NEW k \in Service, NEW c \in Client, RequestGoes(k, c) PROVE AgreeInv'
  <2>1. UNCHANGED <<ctr, desired, slept, blamed>>
    BY <1>8 DEF RequestGoes
  <2>2. CASE pc' = pc
    BY <1>1, <2>1, <2>2
  <2>3. CASE Lock!Arrive(<<"wake", k>>, {k}) /\ Goto(<<"wake", k>>, "queued")
    <3>1. <<"wake", k>> \in Op /\ pc[<<"wake", k>>] = "idle"
      BY <2>3, Kinds DEF Lock!Arrive, OrderInv, PcInv
    <3> QED
      BY <1>2, <1>3, <2>1, <2>3, <3>1 DEF Waiting
  <2> QED
    BY <1>8, <2>2, <2>3 DEF RequestGoes, WakeByTraffic
<1>9. ASSUME NEW k \in Service, NEW c \in Client,
             RequestArrives(k, c) \/ RequestWoken(k, c) \/ RequestEnds(k, c)
      PROVE  AgreeInv'
  BY <1>1, <1>9 DEF RequestArrives, RequestWoken, RequestEnds
<1>10. ASSUME NEW k \in Service, Ages(k) \/ ProtectionEnds(k) \/ SetAlwaysOn(k) PROVE AgreeInv'
  BY <1>1, <1>10 DEF Ages, ProtectionEnds, SetAlwaysOn
<1>11. ASSUME NEW k \in Service, LateStopLands(k) \/ ContainerCrashes(k) \/ ContainerRevives(k)
       PROVE  AgreeInv'
  BY <1>0, <1>11, DockerAgrees
<1>12. CASE Refreshes
  BY <1>1, <1>12 DEF Refreshes
<1>13. CASE Reconciles \/ DaemonRestarts
  BY <1>0, <1>13, ReconcileAgrees, RestartAgrees
<1>14. CASE UNCHANGED vars
  BY <1>1, <1>14 DEF vars
<1>15. ASSUME NEW k \in Service,
              SweepSleeps(k) \/ SleepReads(k) \/ SleepStops(k) \/ SleepFails(k)
       PROVE  AgreeInv'
  BY <1>0, <1>15, SleepAgrees
<1>16. ASSUME NEW o \in Op, WakeSteps(o) \/ WakeFails(o) PROVE AgreeInv'
  BY <1>0, <1>16, WakeAgrees
<1>17. ASSUME NEW k \in Service,
              \/ \E v \in Verbs : ApiCalls(k, v)
              \/ ApiSteps(k) \/ VerbFails(k) \/ DeployFails(k)
       PROVE  AgreeInv'
  BY <1>0, <1>17, ApiAgrees
<1> QED
  BY <1>4, <1>5, <1>6, <1>7, <1>8, <1>9, <1>10, <1>11, <1>12, <1>13, <1>14, <1>15, <1>16,
     <1>17, SchedulerAssumption DEF Next

LEMMA InitAgreeInv == Init => AgreeInv
<1> SUFFICES ASSUME Init PROVE AgreeInv
  OBVIOUS
<1>1. \A o \in Op : IntentAt(o)
  BY DEF Init, IntentAt, WakeBody, Asleep
<1>2. \A k \in Service : RowAt(k)
  BY DEF Init, RowAt, RowAgrees
<1> QED
  BY <1>1, <1>2 DEF AgreeInv

LEMMA InvariantsHold == Spec => [](OrderInv /\ Data /\ WakeInv /\ AgreeInv)
<1>1. Spec => []Data
  BY InitData, NextData, PTL DEF Spec
<1>2. Spec => []AgreeInv
  BY <1>1, Order, WakesInv, InitAgreeInv, NextAgrees, PTL DEF Spec
<1> QED
  BY <1>1, <1>2, Order, WakesInv, PTL

(* With no operation on a service and nothing failed since the last that   *)
(* went through, docker is where the row says, for every interleaving of   *)
(* sweeps, wakes, evictions, verbs, late stops, crashes and restarts.      *)
THEOREM RowsAgree == Spec => []RowAgreesWithDocker
<1>1. OrderInv /\ AgreeInv => RowAgreesWithDocker
  <2> SUFFICES ASSUME OrderInv, AgreeInv, NEW k \in Service, ~Lock!Taken(k), ~blamed[k]
               PROVE  RowAgrees(k)
    BY DEF RowAgreesWithDocker, RowAgrees
  <2>1. \A o \in Op : o[2] = k => pc[o] = "idle"
    <3> SUFFICES ASSUME NEW o \in Op, o[2] = k, pc[o] # "idle" PROVE FALSE
      OBVIOUS
    <3>1. k \in need[o]
      BY DEF OrderInv, PcInv
    <3> QED
      BY <3>1 DEF Lock!Taken
  <2> QED
    BY <2>1 DEF AgreeInv, RowAt, Disturbs, Waiting
<1> QED
  BY <1>1, InvariantsHold, PTL

Down == {"none", "created", "exited"}
KeptDown(k) == desired[k] = "stopped" /\ ctr[k] \in Down => ctr'[k] \in Down

(* What a command in flight may have done when the daemon dies does not    *)
(* bring a stopped service up: the commands that could have an intent to.  *)
LEMMA InFlightDown ==
  ASSUME AgreeInv, NEW k \in Service, desired[k] = "stopped", ctr[k] \in Down
  PROVE  InFlight(k) \subseteq Down
<1> SUFFICES ASSUME NEW c \in InFlight(k), c # ctr[k] PROVE c \in Down
  OBVIOUS
<1>1. PICK o \in Op : /\ o[2] = k
                      /\ c \in CASE pc[o] \in {"stopping", "halt"} -> {"exited"}
                                 [] pc[o] \in {"start", "run", "hint"} -> {"running"}
                                 [] pc[o] \in {"unpause", "thaw"} /\ ctr[k] = "paused" -> {"running"}
                                 [] pc[o] \in {"pause", "reassert"} /\ ctr[k] = "running" -> {"paused"}
                                 [] pc[o] = "remove" -> {"none"}
                                 [] pc[o] = "create" /\ ctr[k] = "none" -> {"created"}
                                 [] OTHER -> {}
  BY DEF InFlight
<1>2. pc[o] \notin {"start", "run", "hint"}
  BY <1>1 DEF AgreeInv, IntentAt, WakeBody
<1>3. ctr[k] # "paused" /\ ctr[k] # "running"
  BY DEF Down
<1> QED
  BY <1>1, <1>2, <1>3 DEF Down

LEMMA NextKeepsDown ==
  OrderInv /\ Data /\ WakeInv /\ AgreeInv /\ [Next]_vars => \A k \in Service : KeptDown(k)
<1> SUFFICES ASSUME OrderInv, World, WakeInv, AgreeInv, [Next]_vars, NEW k \in Service,
                    desired[k] = "stopped", ctr[k] \in Down
             PROVE  ctr'[k] \in Down
  BY DEF KeptDown, Data
<1> USE DEF dockerVars
<1>1. ASSUME UNCHANGED ctr PROVE ctr'[k] \in Down
  BY <1>1
<1>2. ASSUME NEW w \in Service, NEW c, Becomes(w, c), w = k => c \in Down
      PROVE  ctr'[k] \in Down
  BY <1>2 DEF Becomes, World
<1>3. \A o \in Op : o[2] = k /\ pc[o] \in WakeBody => o[1] = "wake" /\ pc[o] = "check"
  BY DEF AgreeInv, IntentAt
<1>4. ASSUME NEW o \in Op, WakeSteps(o) \/ WakeFails(o) PROVE ctr'[k] \in Down
  <2>0. o[2] \in Service
    BY OpShape
  <2>1. CASE WakeUnpauses(o)
    BY <1>2, <1>3, <2>0, <2>1 DEF WakeUnpauses, WakeBody
  <2>2. CASE WakeStarts(o)
    BY <1>2, <1>3, <2>0, <2>2 DEF WakeStarts, WakeBody
  <2>3. CASE WakeFails(o)
    <3>1. CASE pc[o] = "start"
      <4>1. o[2] # k
        BY <1>3, <3>1 DEF WakeBody
      <4>2. ctr'[k] = ctr[k]
        BY <2>3, <3>1, <4>1 DEF WakeFails, World
      <4> QED
        BY <4>2
    <3>2. CASE pc[o] # "start"
      BY <1>1, <2>3, <3>2 DEF WakeFails
    <3> QED
      BY <3>1, <3>2
  <2>4. CASE WakeRefuses(o) \/ WakeHasRoom(o) \/ WakeIsReady(o) \/ \E v \in Service : WakeEvicts(o, v)
    BY <1>1, <2>4 DEF WakeRefuses, WakeHasRoom, WakeIsReady, WakeEvicts
  <2>5. CASE WakeReads(o) \/ WakeProbes(o)
    BY <1>1, <2>5 DEF WakeReads, WakeProbes
  <2> QED
    BY <1>4, <2>1, <2>2, <2>3, <2>4, <2>5 DEF WakeSteps
<1>5. ASSUME NEW w \in Service, SweepSleeps(w) \/ SleepReads(w) \/ SleepFails(w)
      PROVE  ctr'[k] \in Down
  BY <1>1, <1>5 DEF SweepSleeps, SleepReads, SleepFails
<1>6. ASSUME NEW w \in Service, SleepStops(w) PROVE ctr'[k] \in Down
  BY <1>2, <1>6 DEF SleepStops, Down
<1>7. ASSUME NEW w \in Service,
             \/ \E v \in Verbs : ApiCalls(w, v)
             \/ ApiSteps(w) \/ VerbFails(w) \/ DeployFails(w)
      PROVE  ctr'[k] \in Down
  <2> DEFINE o == <<"api", w>>
  <2>1. o \in Op /\ o[2] = w /\ IntentAt(o)
    BY Kinds DEF AgreeInv
  <2>2. CASE StartHints(w)
    <3>1. w # k
      BY <2>1, <2>2 DEF StartHints, IntentAt
    <3> QED
      BY <1>1, <1>2, <2>2, <3>1 DEF StartHints
  <2>3. CASE StopThaws(w)
    BY <1>2, <2>3 DEF StopThaws, Down
  <2>4. CASE StopHalts(w)
    BY <1>2, <2>4 DEF StopHalts, Down
  <2>5. CASE SuspendPauses(w)
    BY <1>2, <2>5 DEF SuspendPauses, Down
  <2>6. CASE DeployRemoves(w)
    BY <1>1, <1>2, <2>6 DEF DeployRemoves, Down
  <2>7. CASE DeployCreates(w)
    BY <1>2, <2>7 DEF DeployCreates, Down
  <2>8. CASE DeployRuns(w)
    <3>1. w # k
      BY <2>1, <2>8 DEF DeployRuns, IntentAt
    <3> QED
      BY <1>2, <2>8, <3>1 DEF DeployRuns
  <2>9. CASE DeployReasserts(w)
    <3>1. CASE desired[w] = "suspended"
      <4>1. w # k /\ Becomes(w, "paused")
        BY <2>9, <3>1 DEF DeployReasserts
      <4> QED
        BY <1>2, <4>1
    <3>2. CASE desired[w] # "suspended"
      BY <1>1, <2>9, <3>2 DEF DeployReasserts
    <3> QED
      BY <3>1, <3>2
  <2>10. CASE \/ (\E v \in Verbs : ApiCalls(w, v)) \/ ApiBegins(w)
              \/ VerbFails(w) \/ DeployFails(w)
    BY <1>1, <2>10 DEF ApiCalls, ApiBegins, VerbFails, DeployFails
  <2> QED
    BY <1>7, <2>2, <2>3, <2>4, <2>5, <2>6, <2>7, <2>8, <2>9, <2>10 DEF ApiSteps
<1>8. ASSUME NEW w \in Service, NEW c \in Client,
             \/ RequestArrives(w, c) \/ RequestGoes(w, c)
             \/ RequestWoken(w, c) \/ RequestEnds(w, c)
      PROVE  ctr'[k] \in Down
  BY <1>1, <1>8 DEF RequestArrives, RequestGoes, RequestWoken, RequestEnds
<1>9. ASSUME NEW w \in Service,
             \/ LateStopLands(w) \/ ContainerCrashes(w) \/ ContainerRevives(w)
      PROVE  ctr'[k] \in Down
  <2>1. CASE LateStopLands(w)
    BY <1>2, <2>1 DEF LateStopLands, Down
  <2>2. CASE ContainerCrashes(w) \/ ContainerRevives(w)
    <3>1. w # k
      BY <2>2 DEF ContainerCrashes, ContainerRevives, Down
    <3> QED
      BY <1>2, <2>2, <3>1 DEF ContainerCrashes, ContainerRevives
  <2> QED
    BY <1>9, <2>1, <2>2
<1>10. CASE DaemonRestarts
  <2>1. ctr'[k] \in InFlight(k)
    BY <1>10 DEF DaemonRestarts
  <2> QED
    BY <2>1, InFlightDown
<1>11. ASSUME NEW o \in Op, Granted(o) PROVE ctr'[k] \in Down
  BY <1>1, <1>11 DEF Granted
<1>12. ASSUME NEW w \in Service,
              \/ SweepWakes(w) \/ OnBegins(w) \/ WakeBegins(w)
              \/ Ages(w) \/ ProtectionEnds(w) \/ SetAlwaysOn(w)
       PROVE  ctr'[k] \in Down
  BY <1>1, <1>12 DEF SweepWakes, OnBegins, WakeBegins, Ages, ProtectionEnds, SetAlwaysOn
<1>13. CASE Refreshes \/ Reconciles \/ UNCHANGED vars
  BY <1>1, <1>13 DEF Refreshes, Reconciles, vars
<1> QED
  BY <1>4, <1>5, <1>6, <1>7, <1>8, <1>9, <1>10, <1>11, <1>12, <1>13, SchedulerAssumption
  DEF Next

(* A service the developer stopped is not brought up by a wake that queued *)
(* behind the stop, by the always-on pass, by a deploy or by a restart in  *)
(* the middle of one.                                                      *)
THEOREM StoppedServicesStayDown == Spec => StoppedStaysDown
<1>1. OrderInv /\ Data /\ WakeInv /\ AgreeInv /\ [Next]_vars =>
        [\A k \in Service :
           desired[k] = "stopped" /\ ctr[k] \in {"none", "created", "exited"}
             => ctr'[k] \in {"none", "created", "exited"}]_vars
  BY NextKeepsDown DEF KeptDown, Down
<1> QED
  BY <1>1, InvariantsHold, PTL DEF Spec, StoppedStaysDown

Recorded(k) ==
  seen'[k] # seen[k] /\ seen'[k] # "none" =>
    /\ seen'[k] = "exited" => ctr'[k] \in {"exited", "created"}
    /\ seen'[k] = "paused" => ctr'[k] = "paused"

LEMMA NextRecords ==
  OrderInv /\ Data /\ WakeInv /\ AgreeInv /\ [Next]_vars => \A k \in Service : Recorded(k)
<1> SUFFICES ASSUME OrderInv, World, Row, WakeInv, AgreeInv, [Next]_vars, NEW k \in Service
             PROVE  Recorded(k)
  BY DEF Data
<1> USE DEF dockerVars, viewVars
<1>1. ASSUME UNCHANGED seen PROVE Recorded(k)
  BY <1>1 DEF Recorded
<1>2. ASSUME seen'[k] = ctr[k], UNCHANGED ctr PROVE Recorded(k)
  BY <1>2 DEF Recorded
<1>3. ASSUME NEW w \in Service, NEW s, Saw(w, s),
             w = k => \/ s \in {"none", "running"}
                      \/ s = "exited" /\ ctr'[w] \in {"exited", "created"}
                      \/ s = "paused" /\ ctr'[w] = "paused"
      PROVE  Recorded(k)
  <2>1. seen'[k] = IF w = k THEN s ELSE seen[k]
    BY <1>3 DEF Saw, World
  <2> QED
    BY <1>3, <2>1 DEF Recorded
<1>4. ASSUME NEW w \in Service, NEW c, Becomes(w, c) PROVE ctr'[w] = c
  BY <1>4 DEF Becomes, World
<1>5. ASSUME NEW o \in Op, WakeSteps(o) \/ WakeFails(o) PROVE Recorded(k)
  <2>1. CASE WakeReads(o)
    BY <1>2, <2>1 DEF WakeReads, Refresh
  <2>2. CASE WakeIsReady(o)
    BY <1>3, <2>2, OpShape DEF WakeIsReady, OnUp
  <2>3. CASE \/ WakeRefuses(o) \/ WakeProbes(o) \/ WakeUnpauses(o) \/ WakeHasRoom(o)
             \/ WakeStarts(o) \/ WakeFails(o) \/ \E v \in Service : WakeEvicts(o, v)
    BY <1>1, <2>3 DEF WakeRefuses, WakeProbes, WakeUnpauses, WakeHasRoom, WakeStarts, WakeFails,
                      WakeEvicts
  <2> QED
    BY <1>5, <2>1, <2>2, <2>3 DEF WakeSteps
<1>6. ASSUME NEW w \in Service, SleepReads(w) PROVE Recorded(k)
  <2>1. UNCHANGED ctr /\ (seen' = ctr \/ (ctr[w] = "created" /\ seen' = [ctr EXCEPT ![w] = "exited"]))
    BY <1>6 DEF SleepReads
  <2>2. CASE seen' = ctr
    BY <1>2, <2>1, <2>2
  <2>3. CASE ctr[w] = "created" /\ seen' = [ctr EXCEPT ![w] = "exited"]
    BY <2>1, <2>3 DEF Recorded, World
  <2> QED
    BY <2>1, <2>2, <2>3
<1>7. ASSUME NEW w \in Service, SweepSleeps(w) \/ SleepStops(w) \/ SleepFails(w)
      PROVE  Recorded(k)
  <2>1. CASE SweepSleeps(w)
    BY <1>1, <2>1 DEF SweepSleeps
  <2>2. CASE SleepStops(w)
    <3>1. ctr'[w] = "exited" /\ Saw(w, "exited")
      BY <1>4, <2>2 DEF SleepStops
    <3> QED
      BY <1>3, <3>1
  <2>3. CASE SleepFails(w)
    BY <1>1, <1>3, <2>3 DEF SleepFails
  <2> QED
    BY <1>7, <2>1, <2>2, <2>3
<1>8. ASSUME NEW w \in Service,
             \/ \E v \in Verbs : ApiCalls(w, v)
             \/ ApiSteps(w) \/ VerbFails(w) \/ DeployFails(w)
      PROVE  Recorded(k)
  <2>1. CASE StopHalts(w)
    <3>1. ctr'[w] \in {"created", "exited"} /\ Saw(w, "exited")
      BY <1>4, <2>1 DEF StopHalts
    <3> QED
      BY <1>3, <3>1
  <2>2. CASE SuspendPauses(w)
    <3>1. ctr'[w] = "paused" /\ Saw(w, "paused")
      BY <1>4, <2>2 DEF SuspendPauses
    <3> QED
      BY <1>3, <3>1
  <2>3. CASE DeployRuns(w)
    BY <1>1, <1>3, <2>3 DEF DeployRuns, OnUp
  <2>4. CASE DeployReasserts(w)
    <3>1. CASE desired[w] = "suspended"
      <4>1. ctr'[w] = "paused" /\ Saw(w, "paused")
        BY <1>4, <2>4, <3>1 DEF DeployReasserts
      <4> QED
        BY <1>3, <4>1
    <3>2. CASE desired[w] # "suspended"
      <4>1. <<"api", w>> \in Op /\ <<"api", w>>[2] = w /\ pc[<<"api", w>>] = "reassert"
        BY <2>4, Kinds DEF DeployReasserts
      <4>2. ctr[w] = "created"
        BY <3>2, <4>1 DEF AgreeInv, IntentAt
      <4>3. ctr'[w] = "created" /\ Saw(w, "exited")
        BY <2>4, <3>2, <4>2 DEF DeployReasserts
      <4> QED
        BY <1>3, <4>3
    <3> QED
      BY <3>1, <3>2
  <2>5. CASE DeployFails(w)
    BY <1>1, <1>3, <2>5 DEF DeployFails, OnUp
  <2>6. CASE \/ (\E v \in Verbs : ApiCalls(w, v)) \/ ApiBegins(w) \/ StartHints(w)
             \/ StopThaws(w) \/ DeployRemoves(w) \/ DeployCreates(w) \/ VerbFails(w)
    BY <1>1, <2>6 DEF ApiCalls, ApiBegins, StartHints, StopThaws, DeployRemoves, DeployCreates,
                      VerbFails
  <2> QED
    BY <1>8, <2>1, <2>2, <2>3, <2>4, <2>5, <2>6 DEF ApiSteps
<1>9. ASSUME NEW w \in Service, NEW c \in Client,
             \/ RequestArrives(w, c) \/ RequestGoes(w, c)
             \/ RequestWoken(w, c) \/ RequestEnds(w, c)
      PROVE  Recorded(k)
  BY <1>1, <1>9 DEF RequestArrives, RequestGoes, RequestWoken, RequestEnds
<1>10. ASSUME NEW w \in Service,
              \/ SweepWakes(w) \/ OnBegins(w) \/ WakeBegins(w)
              \/ Ages(w) \/ ProtectionEnds(w) \/ SetAlwaysOn(w)
              \/ LateStopLands(w) \/ ContainerCrashes(w) \/ ContainerRevives(w)
       PROVE  Recorded(k)
  BY <1>1, <1>10 DEF SweepWakes, OnBegins, WakeBegins, Ages, ProtectionEnds, SetAlwaysOn,
                     LateStopLands, ContainerCrashes, ContainerRevives
<1>11. ASSUME NEW o \in Op, Granted(o) PROVE Recorded(k)
  BY <1>1, <1>11 DEF Granted
<1>12. CASE Refreshes \/ Reconciles
  BY <1>2, <1>12 DEF Refreshes, Reconciles, Refresh
<1>13. CASE DaemonRestarts
  BY <1>13 DEF DaemonRestarts, Recorded
<1>14. CASE UNCHANGED vars
  BY <1>1, <1>14 DEF vars
<1> QED
  BY <1>5, <1>6, <1>7, <1>8, <1>9, <1>10, <1>11, <1>12, <1>13, <1>14, SchedulerAssumption
  DEF Next

(* No transition is written into the snapshot that docker did not make,    *)
(* whatever fails in the middle of a sleep, a wake or a verb.              *)
THEOREM SnapshotTellsTheTruth == Spec => SnapshotRecordsOutcomes
<1>1. OrderInv /\ Data /\ WakeInv /\ AgreeInv /\ [Next]_vars =>
        [\A k \in Service :
           seen'[k] # seen[k] /\ seen'[k] # "none" =>
             /\ seen'[k] = "exited" => ctr'[k] \in {"exited", "created"}
             /\ seen'[k] = "paused" => ctr'[k] = "paused"]_vars
  BY NextRecords DEF Recorded
<1> QED
  BY <1>1, InvariantsHold, PTL DEF Spec, SnapshotRecordsOutcomes
=============================================================================
