------------------------------- MODULE OpLock -------------------------------
(***************************************************************************)
(* The operation lock of src/scheduler.ts (withOp, tryWithOp, enqueue,     *)
(* release): one promise chain and one counter per key.                    *)
(*                                                                         *)
(* A promise chain is modelled by the set of acquisitions it still waits   *)
(* for: `prev.then(() => held)` settles once every acquisition already in  *)
(* prev, and the new one, have released their gates.  AsyncLocalStorage is *)
(* the store of keys that the body of an acquisition runs with.            *)
(*                                                                         *)
(* Nested calls.  A body that asks with withOp for keys its store already  *)
(* holds runs directly: no step.  A body never blocks on a key it does not *)
(* hold (src/engine.ts 3918-3964: every multi-key path takes its union in  *)
(* one acquisition and re-drives when the union grew), so the only nested  *)
(* acquisition is tryWithOp, which an eviction makes from inside a wake.   *)
(***************************************************************************)
EXTENDS Naturals, FiniteSets

CONSTANTS Key, Op,
          NoOp      \* the caller of an acquisition made outside every operation

ASSUME OpLockAssumption ==
  /\ NoOp \notin Op
  /\ IsFiniteSet(Op)

VARIABLES phase,   \* idle | queued (awaiting gate.ready) | running (inside fn)
          need,    \* the keys this acquisition added itself to
          store,   \* the keys its body owns: inherited and needed
          parent,  \* the operation whose body made the acquisition
          waits,   \* unreleased acquisitions gate.ready still waits for
          chain,   \* ops.get(k).chain: unreleased acquisitions its tail waits for
          count,   \* ops.get(k).count, 0 when the entry is absent
          older    \* history: outstanding acquisitions in the order they were made

opVars == <<phase, need, store, parent, waits, chain, count, older>>

Outstanding == {o \in Op : phase[o] # "idle"}
Inherited(p) == IF p = NoOp THEN {} ELSE store[p]

TypeOK ==
  /\ phase \in [Op -> {"idle", "queued", "running"}]
  /\ need \in [Op -> SUBSET Key]
  /\ store \in [Op -> SUBSET Key]
  /\ parent \in [Op -> Op \cup {NoOp}]
  /\ waits \in [Op -> SUBSET Op]
  /\ chain \in [Key -> SUBSET Op]
  /\ count \in [Key -> Nat]
  /\ older \in SUBSET (Op \X Op)

Init ==
  /\ phase = [o \in Op |-> "idle"]
  /\ need = [o \in Op |-> {}]
  /\ store = [o \in Op |-> {}]
  /\ parent = [o \in Op |-> NoOp]
  /\ waits = [o \in Op |-> {}]
  /\ chain = [k \in Key |-> {}]
  /\ count = [k \in Key |-> 0]
  /\ older = {}

-----------------------------------------------------------------------------
(* Mutant: only the first key's predecessors are awaited. *)
EnqueueFirstOnly(o, ks) ==
  /\ waits' = [waits EXCEPT ![o] = chain[CHOOSE k \in ks : TRUE]]
  /\ chain' = [k \in Key |-> IF k \in ks THEN chain[k] \cup {o} ELSE chain[k]]
  /\ count' = [k \in Key |-> IF k \in ks THEN count[k] + 1 ELSE count[k]]

(* enqueue: capture the tail of every named key, then become that tail. *)
Enqueue(o, ks) ==
  /\ waits' = [waits EXCEPT ![o] = UNION {chain[k] : k \in ks}]
  /\ chain' = [k \in Key |-> IF k \in ks THEN chain[k] \cup {o} ELSE chain[k]]
  /\ count' = [k \in Key |-> IF k \in ks THEN count[k] + 1 ELSE count[k]]

(* The synchronous half of withOp: everything before its first await. *)
Acquire(o, p, ks) ==
  /\ phase[o] = "idle"
  /\ ks # {}
  /\ Enqueue(o, ks)
  /\ phase' = [phase EXCEPT ![o] = "queued"]
  /\ need' = [need EXCEPT ![o] = ks]
  /\ store' = [store EXCEPT ![o] = Inherited(p) \cup ks]
  /\ parent' = [parent EXCEPT ![o] = p]
  /\ older' = older \cup (Outstanding \X {o})

WithOp(o, ks) == Acquire(o, NoOp, ks)

(* A caller is outside every operation, or the running body of an outermost *)
(* one: the only nested body is a sleep, which acquires nothing itself.    *)
Caller(p) == p = NoOp \/ (p \in Op /\ phase[p] = "running" /\ parent[p] = NoOp)

(* Mutant: a busy key queues the nested caller instead of refusing it. *)
TryWithOpQueues(o, p, ks) ==
  /\ Caller(p)
  /\ Acquire(o, p, ks \ Inherited(p))

(* withOp that refuses: any needed key held or queued answers null. *)
TryWithOp(o, p, ks) ==
  /\ Caller(p)
  /\ \A k \in ks \ Inherited(p) : count[k] = 0
  /\ Acquire(o, p, ks \ Inherited(p))

(* gate.ready settled: the body starts under its own store. *)
Enter(o) ==
  /\ phase[o] = "queued"
  /\ waits[o] = {}
  /\ phase' = [phase EXCEPT ![o] = "running"]
  /\ UNCHANGED <<need, store, parent, waits, chain, count, older>>

(* Mutant: the entry is dropped while others are still counted on it. *)
ReleaseForgetsEntry(o) ==
  /\ count' = [k \in Key |-> IF k \in need[o] THEN 0 ELSE count[k]]
  /\ chain' = [k \in Key |-> IF k \in need[o] THEN {} ELSE chain[k] \ {o}]

(* Mutant: the body's whole store is released, its inherited keys too. *)
ReleaseInherited(o) ==
  /\ count' = [k \in Key |-> IF k \in store[o] THEN count[k] - 1 ELSE count[k]]
  /\ chain' = [k \in Key |->
                 IF k \in store[o] /\ count[k] <= 1 THEN {} ELSE chain[k] \ {o}]

(* release(key): count down, and forget the entry with the last taker. *)
ReleaseKeys(o) ==
  /\ count' = [k \in Key |-> IF k \in need[o] THEN count[k] - 1 ELSE count[k]]
  /\ chain' = [k \in Key |->
                 IF k \in need[o] /\ count[k] <= 1 THEN {} ELSE chain[k] \ {o}]

(* Mutant: a body may return before the acquisitions it started have. *)
FinishUnawaited(o) ==
  /\ phase[o] = "running"
  /\ ReleaseKeys(o)
  /\ waits' = [w \in Op |-> waits[w] \ {o}]
  /\ phase' = [phase EXCEPT ![o] = "idle"]
  /\ need' = [need EXCEPT ![o] = {}]
  /\ store' = [store EXCEPT ![o] = {}]
  /\ parent' = [parent EXCEPT ![o] = NoOp]
  /\ older' = {p \in older : o \notin {p[1], p[2]}}

(* The finally block: the body returned or threw, everything it started    *)
(* under its store has been awaited, and both settle paths open the gate.  *)
Finish(o) ==
  /\ phase[o] = "running"
  /\ \A c \in Outstanding : parent[c] # o
  /\ ReleaseKeys(o)
  /\ waits' = [w \in Op |-> waits[w] \ {o}]
  /\ phase' = [phase EXCEPT ![o] = "idle"]
  /\ need' = [need EXCEPT ![o] = {}]
  /\ store' = [store EXCEPT ![o] = {}]
  /\ parent' = [parent EXCEPT ![o] = NoOp]
  /\ older' = {p \in older : o \notin {p[1], p[2]}}

Next ==
  \E o \in Op :
    \/ \E ks \in SUBSET Key : WithOp(o, ks)
    \/ \E p \in Op \cup {NoOp}, ks \in SUBSET Key : TryWithOp(o, p, ks)
    \/ Enter(o)
    \/ Finish(o)

Spec == Init /\ [][Next]_opVars

(* A waiter whose predecessors have released is resumed by the event loop. *)
(* A body ends: every docker call it makes has its own timeout, and the    *)
(* eviction loop tries each victim once, so a body that keeps starting     *)
(* nested stops runs out of them.                                          *)
Fairness ==
  \A o \in Op : WF_opVars(Enter(o)) /\ SF_opVars(Finish(o))

FairSpec == Spec /\ Fairness

-----------------------------------------------------------------------------
Running == {o \in Op : phase[o] = "running"}
Contend(a, b) == need[a] \cap need[b] # {}

(* Two bodies that touch a common key never overlap, whatever mix of       *)
(* blocking, refusing, nested and multi-key acquisitions led to them       *)
(* (withOp: "THE mutual exclusion for container work").                    *)
MutualExclusion ==
  \A a, b \in Running : a # b => ~Contend(a, b)

(* The counter tryWithOp refuses on and the chain withOp waits on describe *)
(* the same acquisitions: the entry is forgotten exactly with its last     *)
(* taker, so a refusal test never misses an operation still in the chain.  *)
BooksAgree ==
  \A k \in Key :
    /\ chain[k] = {o \in Outstanding : k \in need[o]}
    /\ count[k] = Cardinality(chain[k])

(* An acquisition made from inside another operation never waits, which is *)
(* why a wake that evicts to make room cannot be part of a circular wait.  *)
NestedNeverWaits ==
  \A o \in Op : parent[o] # NoOp => waits[o] = {}

(* A key that a body would skip as already owned (the `inherited` filter)  *)
(* really is held, by its own acquisition or by the running one around it. *)
OwnedIsHeld ==
  \A o \in Outstanding : \A k \in store[o] :
    \/ k \in need[o]
    \/ parent[o] \in Running /\ k \in need[parent[o]]

(* What callers of the lock rely on, and what the lock itself relies on.   *)
LockIsSound == MutualExclusion /\ BooksAgree /\ NestedNeverWaits /\ OwnedIsHeld

(* Every operation that queued for its keys eventually runs. *)
EveryoneEnters ==
  \A o \in Op : phase[o] = "queued" ~> phase[o] = "running"

(* Refinement: the chains and counters are one first-come first-served     *)
(* lock over sets of keys.                                                 *)
Abstract == INSTANCE FifoMutex WITH inside <- Running

ImplementsFifoMutex == Abstract!LockSpec
=============================================================================
