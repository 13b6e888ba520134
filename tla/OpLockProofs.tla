---------------------------- MODULE OpLockProofs ----------------------------
(***************************************************************************)
(* For every finite set of acquisitions over any set of keys, the promise  *)
(* chains keep bodies exclusive and implement FifoMutex.                   *)
(*                                                                         *)
(* The inductive invariant says what the chains know.  Each key's chain is *)
(* exactly the outstanding acquisitions of that key (Books); what an       *)
(* acquisition still waits for is exactly who arrived before it and wants  *)
(* one of its keys (Predecessors); and arrival is total (Arrival).  Two    *)
(* bodies that share a key would be ordered, and the later one would still *)
(* be waiting.                                                             *)
(***************************************************************************)
EXTENDS OpLock, FiniteSetTheorems, TLAPS

(* A slot is idle, outermost or nested in a running outermost acquisition. *)
Nesting ==
  \A o \in Op :
    /\ phase[o] = "idle" <=> need[o] = {}
    /\ phase[o] = "idle" => parent[o] = NoOp
    /\ phase[o] = "running" => waits[o] = {}
    /\ store[o] = need[o] \cup Inherited(parent[o])
    /\ parent[o] # NoOp => /\ phase[parent[o]] = "running"
                           /\ parent[parent[o]] = NoOp

Arrival ==
  /\ older \in SUBSET (Outstanding \X Outstanding)
  /\ \A a, b \in Outstanding : a # b => <<a, b>> \in older \/ <<b, a>> \in older

Predecessors ==
  \A b \in Outstanding :
    waits[b] = {a \in Outstanding : <<a, b>> \in older /\ Contend(a, b)}

IInv == TypeOK /\ Nesting /\ Arrival /\ Predecessors /\ BooksAgree /\ NestedNeverWaits

-----------------------------------------------------------------------------
LEMMA InitIInv == Init => IInv
<1> SUFFICES ASSUME Init PROVE IInv
  OBVIOUS
<1> USE DEF Init
<1>1. TypeOK
  BY DEF TypeOK
<1>2. Outstanding = {}
  BY DEF Outstanding
<1>3. BooksAgree
  BY <1>2, FS_EmptySet DEF BooksAgree
<1>4. QED
  BY <1>1, <1>2, <1>3 DEF IInv, Nesting, Inherited, Arrival, Predecessors,
     NestedNeverWaits

(* The three things Acquire does to the books of the keys it names. *)
LEMMA AcquireStep ==
  ASSUME IInv, NEW o \in Op, NEW p \in Op \cup {NoOp}, NEW ks \in SUBSET Key,
         p = NoOp \/ (phase[p] = "running" /\ parent[p] = NoOp),
         p = NoOp \/ \A k \in ks : count[k] = 0,
         Acquire(o, p, ks)
  PROVE  IInv'
<1> USE OpLockAssumption
<1> USE DEF IInv
<1>1. TypeOK'
  BY DEF TypeOK, Acquire, Enqueue, Inherited, Outstanding
<1>2. /\ Outstanding' = Outstanding \cup {o}
      /\ o \notin Outstanding
  BY DEF Outstanding, Acquire, TypeOK
<1>3. /\ need' = [need EXCEPT ![o] = ks]
      /\ need[o] = {}
      /\ parent[o] = NoOp
      /\ ks # {}
  BY DEF Acquire, Nesting
<1>4. \A k \in Key : IsFiniteSet(chain[k])
  <2> SUFFICES ASSUME NEW k \in Key PROVE IsFiniteSet(chain[k])
    OBVIOUS
  <2> QED
    BY FS_Subset DEF TypeOK
<1>5. BooksAgree'
  <2> SUFFICES ASSUME NEW k \in Key
               PROVE  /\ chain'[k] = {a \in Outstanding' : k \in need'[a]}
                      /\ count'[k] = Cardinality(chain'[k])
    BY DEF BooksAgree
  <2>1. chain'[k] = {a \in Outstanding' : k \in need'[a]}
    BY <1>2, <1>3 DEF BooksAgree, Acquire, Enqueue, TypeOK, Outstanding
  <2>2. CASE k \in ks
    <3>1. o \notin chain[k]
      BY <1>2 DEF BooksAgree
    <3>2. /\ chain'[k] = chain[k] \cup {o}
          /\ count'[k] = count[k] + 1
      BY <2>2 DEF Acquire, Enqueue
    <3>3. Cardinality(chain[k] \cup {o}) = Cardinality(chain[k]) + 1
      BY <1>4, <3>1, FS_AddElement
    <3> QED
      BY <2>1, <3>2, <3>3 DEF BooksAgree
  <2>3. CASE k \notin ks
    BY <2>1, <2>3 DEF Acquire, Enqueue, BooksAgree
  <2> QED
    BY <2>2, <2>3
<1>6. Arrival'
  BY <1>2 DEF Arrival, Acquire
<1>7. Predecessors'
  <2> SUFFICES ASSUME NEW b \in Outstanding'
               PROVE  waits'[b] = {a \in Outstanding' : <<a, b>> \in older' /\ Contend(a, b)'}
    BY DEF Predecessors
  <2>1. \A a : <<a, o>> \notin older /\ <<o, a>> \notin older
    BY <1>2 DEF Arrival
  <2>2. CASE b = o
    <3>1. waits'[o] = UNION {chain[k] : k \in ks}
      BY DEF Acquire, Enqueue, TypeOK
    <3>2. \A a \in Op : <<a, o>> \in older' <=> a \in Outstanding
      BY <2>1 DEF Acquire
    <3>3. \A a \in Outstanding : Contend(a, o)' <=> \E k \in ks : k \in need[a]
      BY <1>2, <1>3 DEF Contend, TypeOK, Outstanding
    <3>4. \A a : a \in waits'[o] <=> a \in Outstanding /\ \E k \in ks : k \in need[a]
      BY <3>1 DEF BooksAgree
    <3> QED
      BY <2>2, <1>2, <3>2, <3>3, <3>4 DEF Outstanding
  <2>3. CASE b # o
    <3>1. b \in Outstanding /\ waits'[b] = waits[b]
      BY <1>2, <2>3 DEF Acquire, Enqueue
    <3>2. \A a : <<a, b>> \in older' <=> <<a, b>> \in older
      BY <2>3 DEF Acquire
    <3>3. \A a \in Outstanding : Contend(a, b)' <=> Contend(a, b)
      BY <1>2, <1>3, <2>3 DEF Contend, Outstanding, TypeOK
    <3> QED
      BY <1>2, <2>1, <3>1, <3>2, <3>3 DEF Predecessors
  <2> QED
    BY <2>2, <2>3
<1>8. Nesting' /\ NestedNeverWaits'
  <2>1. /\ phase' = [phase EXCEPT ![o] = "queued"]
        /\ store' = [store EXCEPT ![o] = Inherited(p) \cup ks]
        /\ parent' = [parent EXCEPT ![o] = p]
        /\ phase[o] = "idle"
        /\ \A x \in Op : x # o => waits'[x] = waits[x]
        /\ p # o
    BY DEF Acquire, Enqueue, TypeOK
  <2>2. \A x \in Op : parent[x] # o
    BY <2>1 DEF Nesting
  <2>3. Nesting'
    BY <1>3, <2>1, <2>2 DEF Nesting, Inherited, TypeOK
  <2>4. p # NoOp => waits'[o] = {}
    <3> SUFFICES ASSUME p # NoOp PROVE waits'[o] = {}
      OBVIOUS
    <3>1. \A k \in ks : chain[k] = {}
      BY <1>4, FS_EmptySet DEF BooksAgree
    <3> QED
      BY <3>1 DEF Acquire, Enqueue, TypeOK
  <2> QED
    BY <2>1, <2>3, <2>4 DEF NestedNeverWaits, TypeOK
<1> QED
  BY <1>1, <1>5, <1>6, <1>7, <1>8

LEMMA EnterStep ==
  ASSUME IInv, NEW o \in Op, Enter(o)
  PROVE  IInv'
<1> USE OpLockAssumption
<1> USE DEF IInv, Enter
<1>1. TypeOK'
  BY DEF TypeOK
<1>2. Outstanding' = Outstanding
  BY DEF Outstanding, TypeOK
<1>3. Nesting'
  BY DEF Nesting, Inherited, TypeOK
<1> QED
  BY <1>1, <1>2, <1>3
     DEF Arrival, Predecessors, BooksAgree, NestedNeverWaits, Contend

LEMMA FinishStep ==
  ASSUME IInv, NEW o \in Op, Finish(o)
  PROVE  IInv'
<1> USE OpLockAssumption
<1> USE DEF IInv
<1>1. /\ Outstanding' = Outstanding \ {o}
      /\ o \in Outstanding
  BY DEF Outstanding, Finish, TypeOK
<1>2. \A k \in Key : IsFiniteSet(chain[k])
  <2> SUFFICES ASSUME NEW k \in Key PROVE IsFiniteSet(chain[k])
    OBVIOUS
  <2> QED
    BY FS_Subset DEF TypeOK
<1>3. \A k \in Key : /\ chain'[k] = chain[k] \ {o}
                     /\ count'[k] = Cardinality(chain'[k])
  <2> SUFFICES ASSUME NEW k \in Key
               PROVE  /\ chain'[k] = chain[k] \ {o}
                      /\ count'[k] = Cardinality(chain'[k])
    OBVIOUS
  <2>1. CASE k \in need[o]
    <3>1. o \in chain[k]
      BY <1>1, <2>1 DEF BooksAgree
    <3>2. /\ IsFiniteSet(chain[k] \ {o})
          /\ Cardinality(chain[k] \ {o}) = Cardinality(chain[k]) - 1
      BY <1>2, <3>1, FS_RemoveElement
    <3>3. count[k] = Cardinality(chain[k]) /\ count[k] \in Nat
      BY DEF BooksAgree, TypeOK
    <3>4. CASE count[k] <= 1
      <4>1. Cardinality(chain[k] \ {o}) \in Nat
        BY <3>2, FS_CardinalityType
      <4>2. Cardinality(chain[k] \ {o}) = 0
        BY <3>2, <3>3, <3>4, <4>1
      <4>3. chain[k] \ {o} = {}
        BY <3>2, <4>2, FS_EmptySet
      <4>4. chain'[k] = {} /\ count'[k] = count[k] - 1
        BY <2>1, <3>4 DEF Finish, ReleaseKeys
      <4> QED
        BY <3>2, <3>3, <4>3, <4>4
    <3>5. CASE ~(count[k] <= 1)
      <4>1. chain'[k] = chain[k] \ {o} /\ count'[k] = count[k] - 1
        BY <2>1, <3>5 DEF Finish, ReleaseKeys
      <4> QED
        BY <3>2, <3>3, <4>1
    <3> QED
      BY <3>4, <3>5
  <2>2. CASE k \notin need[o]
    <3>1. o \notin chain[k]
      BY <2>2 DEF BooksAgree
    <3>2. chain'[k] = chain[k] \ {o} /\ count'[k] = count[k]
      BY <2>2 DEF Finish, ReleaseKeys
    <3>3. chain[k] \ {o} = chain[k]
      BY <3>1
    <3> QED
      BY <3>2, <3>3 DEF BooksAgree
  <2> QED
    BY <2>1, <2>2
<1>4. /\ need' = [need EXCEPT ![o] = {}]
      /\ \A x \in Op : x # o => need'[x] = need[x]
  BY DEF Finish, TypeOK
<1>5. BooksAgree'
  <2> SUFFICES ASSUME NEW k \in Key
               PROVE  chain'[k] = {a \in Outstanding' : k \in need'[a]}
    BY <1>3 DEF BooksAgree
  <2> QED
    BY <1>1, <1>3, <1>4 DEF BooksAgree, Outstanding
<1>6. TypeOK'
  <2>1. \A k \in Key : count'[k] \in Nat
    <3> SUFFICES ASSUME NEW k \in Key PROVE count'[k] \in Nat
      OBVIOUS
    <3>1. IsFiniteSet(chain'[k])
      BY <1>2, <1>3, FS_Subset
    <3> QED
      BY <1>3, <3>1, FS_CardinalityType
  <2>2. /\ count' = [k \in Key |-> count'[k]]
        /\ chain' = [k \in Key |-> chain'[k]]
    BY DEF Finish, ReleaseKeys
  <2>3. /\ phase' \in [Op -> {"idle", "queued", "running"}]
        /\ need' \in [Op -> SUBSET Key]
        /\ store' \in [Op -> SUBSET Key]
        /\ parent' \in [Op -> Op \cup {NoOp}]
        /\ waits' \in [Op -> SUBSET Op]
        /\ older' \in SUBSET (Op \X Op)
    BY DEF Finish, TypeOK
  <2>4. chain' \in [Key -> SUBSET Op]
    BY <1>3, <2>2 DEF TypeOK
  <2> QED
    BY <2>1, <2>2, <2>3, <2>4 DEF TypeOK
<1>7. Arrival'
  BY <1>1 DEF Arrival, Finish
<1>8. Predecessors'
  <2> SUFFICES ASSUME NEW b \in Outstanding'
               PROVE  waits'[b] = {a \in Outstanding' : <<a, b>> \in older' /\ Contend(a, b)'}
    BY DEF Predecessors
  <2>1. b \in Outstanding /\ b # o /\ b \in Op
    BY <1>1 DEF Outstanding
  <2>2. waits'[b] = waits[b] \ {o}
    BY <2>1 DEF Finish
  <2>3. \A a : a # o => (<<a, b>> \in older' <=> <<a, b>> \in older)
    BY <2>1 DEF Finish
  <2>4. \A a \in Outstanding' : Contend(a, b)' <=> Contend(a, b)
    BY <1>1, <1>4, <2>1 DEF Contend, Outstanding
  <2> QED
    BY <1>1, <2>1, <2>2, <2>3, <2>4 DEF Predecessors
<1>9. Nesting'
  BY <1>1 DEF Nesting, Inherited, Finish, TypeOK, Outstanding
<1>10. NestedNeverWaits'
  BY DEF NestedNeverWaits, Finish, TypeOK
<1> QED
  BY <1>5, <1>6, <1>7, <1>8, <1>9, <1>10

LEMMA NextIInv == IInv /\ [Next]_opVars => IInv'
<1> SUFFICES ASSUME IInv, [Next]_opVars PROVE IInv'
  OBVIOUS
<1>1. ASSUME NEW o \in Op, NEW ks \in SUBSET Key, WithOp(o, ks)
      PROVE  IInv'
  BY <1>1, AcquireStep DEF WithOp
<1>2. ASSUME NEW o \in Op, NEW p \in Op \cup {NoOp}, NEW ks \in SUBSET Key,
             TryWithOp(o, p, ks)
      PROVE  IInv'
  <2>1. ks \ Inherited(p) \in SUBSET Key
    OBVIOUS
  <2> QED
    BY <1>2, <2>1, AcquireStep DEF TryWithOp, Caller
<1>3. ASSUME NEW o \in Op, Enter(o) PROVE IInv'
  BY <1>3, EnterStep
<1>4. ASSUME NEW o \in Op, Finish(o) PROVE IInv'
  BY <1>4, FinishStep
<1>5. CASE UNCHANGED opVars
  BY <1>5 DEF opVars, IInv, TypeOK, Nesting, Inherited, Arrival, Predecessors,
     BooksAgree, NestedNeverWaits, Outstanding, Contend
<1> QED
  BY <1>1, <1>2, <1>3, <1>4, <1>5 DEF Next

(* The books of the lock are consistent in every reachable state. *)
THEOREM Invariant == Spec => []IInv
<1>1. QED
  BY InitIInv, NextIInv, PTL DEF Spec

-----------------------------------------------------------------------------
LEMMA IInvMutualExclusion == IInv => MutualExclusion
<1> SUFFICES ASSUME IInv, NEW a \in Running, NEW b \in Running, a # b
             PROVE  ~Contend(a, b)
  BY DEF MutualExclusion
<1> USE DEF IInv
<1>1. a \in Outstanding /\ b \in Outstanding /\ waits[a] = {} /\ waits[b] = {}
  BY DEF Running, Outstanding, Nesting
<1>2. CASE <<a, b>> \in older
  BY <1>1, <1>2 DEF Predecessors
<1>3. CASE <<b, a>> \in older
  <2>1. ~Contend(b, a)
    BY <1>1, <1>3 DEF Predecessors
  <2> QED
    BY <2>1 DEF Contend
<1> QED
  BY <1>1, <1>2, <1>3 DEF Arrival

(* Two running bodies never share a key. *)
THEOREM ExclusiveBodies == Spec => []MutualExclusion
<1> QED
  BY Invariant, IInvMutualExclusion, PTL

(* The variables keep their types; in particular no counter goes negative. *)
THEOREM TypeCorrect == Spec => []TypeOK
<1>1. IInv => TypeOK
  BY DEF IInv
<1> QED
  BY <1>1, Invariant, PTL

(* The counter and the chain of a key name the same acquisitions. *)
THEOREM BooksStayTogether == Spec => []BooksAgree
<1>1. IInv => BooksAgree
  BY DEF IInv
<1> QED
  BY <1>1, Invariant, PTL

(* A nested acquisition never waits: no operation holds keys while it       *)
(* blocks on others.                                                       *)
THEOREM NoHoldAndWait == Spec => []NestedNeverWaits
<1>1. IInv => NestedNeverWaits
  BY DEF IInv
<1> QED
  BY <1>1, Invariant, PTL

(* A body that re-enters a key finds it held by itself or its caller. *)
THEOREM ReentryIsCovered == Spec => []OwnedIsHeld
<1>1. IInv => OwnedIsHeld
  <2> SUFFICES ASSUME IInv, NEW o \in Outstanding, NEW k \in store[o], k \notin need[o]
               PROVE  parent[o] \in Running /\ k \in need[parent[o]]
    BY DEF OwnedIsHeld
  <2> USE OpLockAssumption DEF IInv
  <2>1. o \in Op /\ k \in Inherited(parent[o])
    BY DEF Outstanding, Nesting
  <2>2. parent[o] # NoOp /\ parent[o] \in Op /\ k \in store[parent[o]]
    BY <2>1 DEF Inherited, TypeOK
  <2>3. parent[o] \in Running /\ parent[parent[o]] = NoOp
    BY <2>1, <2>2 DEF Nesting, Running
  <2>4. store[parent[o]] = need[parent[o]]
    <3>1. store[parent[o]] = need[parent[o]] \cup Inherited(parent[parent[o]])
      BY <2>2 DEF Nesting
    <3>2. Inherited(parent[parent[o]]) = {}
      BY <2>3 DEF Inherited
    <3> QED
      BY <3>1, <3>2
  <2> QED
    BY <2>2, <2>3, <2>4
<1> QED
  BY <1>1, Invariant, PTL

(* All that the lock promises its callers, for any keys and operations.    *)
THEOREM LockStaysSound == Spec => []LockIsSound
<1>1. MutualExclusion /\ BooksAgree /\ NestedNeverWaits /\ OwnedIsHeld => LockIsSound
  BY DEF LockIsSound
<1> QED
  BY <1>1, ExclusiveBodies, BooksStayTogether, NoHoldAndWait, ReentryIsCovered, PTL

-----------------------------------------------------------------------------
LEMMA OutstandingIsAbstract == IInv => Abstract!Outstanding = Outstanding
BY DEF IInv, Nesting, Outstanding, Abstract!Outstanding

LEMMA StepImplements == IInv /\ [Next]_opVars => [Abstract!LockNext]_Abstract!lockVars
<1> SUFFICES ASSUME IInv, [Next]_opVars
             PROVE  [Abstract!LockNext]_Abstract!lockVars
  OBVIOUS
<1> USE OpLockAssumption
<1>1. ASSUME NEW o \in Op, NEW p \in Op \cup {NoOp}, NEW ks \in SUBSET Key,
             Acquire(o, p, ks)
      PROVE  Abstract!Arrive(o, ks)
  <2>1. need[o] = {} /\ ks # {}
    BY <1>1 DEF Acquire, IInv, Nesting
  <2>2. Running' = Running
    BY <1>1 DEF Acquire, Running, IInv, TypeOK
  <2> QED
    BY <1>1, <2>1, <2>2, OutstandingIsAbstract DEF Acquire, Abstract!Arrive
<1>2. ASSUME NEW o \in Op, Enter(o) PROVE Abstract!Enter(o)
  <2>1. o \notin Running /\ Running' = Running \cup {o}
    BY <1>2 DEF Enter, Running, IInv, TypeOK
  <2>2. need[o] # {} /\ o \in Outstanding /\ waits[o] = {}
    BY <1>2 DEF Enter, IInv, Nesting, Outstanding
  <2>3. ASSUME NEW a \in Op, <<a, o>> \in older
        PROVE  ~Abstract!Contend(a, o)
    <3>1. a \in Outstanding
      BY <2>3 DEF IInv, Arrival
    <3>2. ~Contend(a, o)
      BY <2>2, <2>3, <3>1 DEF IInv, Predecessors
    <3> QED
      BY <3>2 DEF Contend, Abstract!Contend
  <2> QED
    BY <1>2, <2>1, <2>2, <2>3 DEF Enter, Abstract!Enter, Abstract!MayEnter
<1>3. ASSUME NEW o \in Op, Finish(o) PROVE Abstract!Leave(o)
  BY <1>3 DEF Finish, Abstract!Leave, Running, IInv, TypeOK
<1>4. ASSUME NEW o \in Op, NEW ks \in SUBSET Key, WithOp(o, ks)
      PROVE  Abstract!LockNext
  BY <1>1, <1>4 DEF WithOp, Abstract!LockNext
<1>5. ASSUME NEW o \in Op, NEW p \in Op \cup {NoOp}, NEW ks \in SUBSET Key,
             TryWithOp(o, p, ks)
      PROVE  Abstract!LockNext
  <2> DEFINE asked == ks \ Inherited(p)
  <2>1. asked \in SUBSET Key /\ Acquire(o, p, asked)
    BY <1>5 DEF TryWithOp
  <2> HIDE DEF asked
  <2>2. Abstract!Arrive(o, asked)
    BY <1>1, <2>1
  <2> QED
    BY <2>1, <2>2 DEF Abstract!LockNext
<1>6. CASE UNCHANGED opVars
  BY <1>6 DEF opVars, Abstract!lockVars, Running
<1> QED
  BY <1>2, <1>3, <1>4, <1>5, <1>6 DEF Next, Abstract!LockNext

(* The chains and counters of scheduler.ts are one first-come first-served *)
(* lock over sets of keys: every step of theirs is a step of FifoMutex.    *)
THEOREM ImplementsLock == Spec => ImplementsFifoMutex
<1>1. Init => Abstract!LockInit
  BY DEF Init, Abstract!LockInit, Running
<1> QED
  BY <1>1, Invariant, StepImplements, PTL DEF Spec, ImplementsFifoMutex, Abstract!LockSpec
=============================================================================
