-------------------------- MODULE GitDeployProofs --------------------------
(***************************************************************************)
(* Proofs about GitDeploy, for every set of bindings, number of pushes and *)
(* number of slots.                                                        *)
(***************************************************************************)
EXTENDS GitDeploy, FiniteSetTheorems, TLAPS

-----------------------------------------------------------------------------
(* The line for a slot.                                                    *)

Line == {waiters[i] : i \in DOMAIN waiters}
Queued == {b \in Binding : phase[b] = "queued"}
Building == {b \in Binding : phase[b] = "building"}

LineFits ==
  /\ Line = Queued
  /\ \A i, j \in DOMAIN waiters : waiters[i] = waiters[j] => i = j

SlotCount == slots + Cardinality(Building) + abroad = Slots

NoneFree == waiters # <<>> => slots = 0

\* the first in line leaves it
LEMMA FirstLeaves ==
  ASSUME GitTypeOK, LineFits, waiters # <<>>
  PROVE  /\ Head(waiters) \in Queued /\ Tail(waiters) \in Seq(Binding)
         /\ {Tail(waiters)[i] : i \in DOMAIN Tail(waiters)} = Queued \ {Head(waiters)}
         /\ \A i, j \in DOMAIN Tail(waiters) : Tail(waiters)[i] = Tail(waiters)[j] => i = j
<1> DEFINE w == waiters
           n == Len(w)
<1>1. w \in Seq(Binding) /\ n \in Nat \ {0} /\ DOMAIN w = 1..n
  BY DEF GitTypeOK
<1>2. Head(w) = w[1]
  BY <1>1
<1>3. Tail(w) \in Seq(Binding) /\ DOMAIN Tail(w) = 1..(n - 1) /\ \A i \in 1..(n - 1) : Tail(w)[i] = w[i + 1]
  BY <1>1
<1>4. Queued = {w[i] : i \in 1..n}
  BY <1>1 DEF LineFits, Line
<1>5. \A i, j \in 1..n : w[i] = w[j] => i = j
  BY <1>1 DEF LineFits
<1>6. Head(w) \in Queued
  BY <1>1, <1>2, <1>4
<1>7. ASSUME NEW i \in 1..(n - 1) PROVE Tail(w)[i] \in Queued \ {Head(w)}
  <2>1. i + 1 \in 1..n /\ 1 \in 1..n /\ i + 1 # 1
    BY <1>1
  <2> QED
    BY <2>1, <1>2, <1>3, <1>4, <1>5
<1>8. ASSUME NEW b \in Queued \ {Head(w)} PROVE \E i \in 1..(n - 1) : b = Tail(w)[i]
  <2>1. PICK k \in 1..n : b = w[k]
    BY <1>4
  <2>2. k # 1 /\ k - 1 \in 1..(n - 1) /\ (k - 1) + 1 = k
    BY <2>1, <1>1, <1>2
  <2>3. b = Tail(w)[k - 1]
    BY <2>1, <2>2, <1>3
  <2> QED
    BY <2>2, <2>3
<1>9. ASSUME NEW i \in 1..(n - 1), NEW j \in 1..(n - 1), Tail(w)[i] = Tail(w)[j] PROVE i = j
  <2>1. i + 1 \in 1..n /\ j + 1 \in 1..n /\ w[i + 1] = w[j + 1]
    BY <1>1, <1>3, <1>9
  <2>2. i + 1 = j + 1
    BY <2>1, <1>5
  <2> QED
    BY <2>2, <1>1
<1>10. {Tail(w)[i] : i \in 1..(n - 1)} = Queued \ {Head(w)}
  BY <1>7, <1>8
<1> QED
  BY <1>3, <1>6, <1>9, <1>10

\* one more at its end
LEMMA LastComes ==
  ASSUME GitTypeOK, LineFits, NEW b \in Binding, b \notin Queued
  PROVE  LET w == Append(waiters, b) IN
         /\ w \in Seq(Binding) /\ w # <<>>
         /\ {w[i] : i \in DOMAIN w} = Queued \cup {b}
         /\ \A i, j \in DOMAIN w : w[i] = w[j] => i = j
<1> DEFINE n == Len(waiters)
           w == Append(waiters, b)
<1>1. waiters \in Seq(Binding) /\ n \in Nat /\ DOMAIN waiters = 1..n
  BY DEF GitTypeOK
<1>2. /\ w \in Seq(Binding) /\ DOMAIN w = 1..(n + 1) /\ Len(w) = n + 1
      /\ w[n + 1] = b /\ \A i \in 1..n : w[i] = waiters[i]
  BY <1>1
<1>3. Queued = {waiters[i] : i \in 1..n} /\ \A i, j \in 1..n : waiters[i] = waiters[j] => i = j
  BY <1>1 DEF LineFits, Line
<1>4. 1..(n + 1) = 1..n \cup {n + 1}
  BY <1>1
<1>5. {w[i] : i \in DOMAIN w} = Queued \cup {b}
  BY <1>2, <1>3, <1>4
<1>6. ASSUME NEW i \in 1..(n + 1), NEW j \in 1..(n + 1), w[i] = w[j] PROVE i = j
  <2>1. \A k \in 1..n : w[k] # b
    BY <1>2, <1>3
  <2> QED
    BY <2>1, <1>2, <1>3, <1>4, <1>6
<1>7. w # <<>>
  BY <1>1, <1>2
<1> QED
  BY <1>2, <1>5, <1>6, <1>7

-----------------------------------------------------------------------------
(* The builds under a slot are counted.                                    *)

LEMMA BuildingFinite ==
  ASSUME NEW S \in SUBSET Binding
  PROVE  IsFiniteSet(S) /\ Cardinality(S) \in Nat
BY GitAssumption, FS_Subset, FS_CardinalityType

LEMMA OneMore ==
  ASSUME NEW S \in SUBSET Binding, NEW b \in Binding, b \notin S
  PROVE  Cardinality(S \cup {b}) = Cardinality(S) + 1
BY BuildingFinite, FS_AddElement

LEMMA OneLess ==
  ASSUME NEW S \in SUBSET Binding, NEW b \in S
  PROVE  Cardinality(S \ {b}) = Cardinality(S) - 1 /\ Cardinality(S) > 0
<1>1. Cardinality(S \ {b}) = Cardinality(S) - 1
  BY BuildingFinite, FS_RemoveElement
<1>2. Cardinality(S \ {b}) \in Nat /\ Cardinality(S) \in Nat
  BY BuildingFinite
<1> QED
  BY <1>1, <1>2

\* the slots and the line they are given out by
LinesOK == /\ GitTypeOK /\ LineFits /\ SlotCount /\ NoneFree

LinesNext ==
  /\ phase' \in [Binding -> Phase] /\ waiters' \in Seq(Binding) /\ slots' \in 0..Slots /\ abroad' \in 0..Slots
  /\ LineFits' /\ SlotCount' /\ NoneFree'

LEMMA Frees ==
  ASSUME LinesOK, NEW b \in Binding, phase[b] = "building", NEW l \in {"deciding", "cleaning"},
         FreesSlot(b, l), abroad' = abroad
  PROVE  /\ LinesNext /\ phase'[b] = l
         /\ \A c \in Binding \ {b} :
              phase'[c] = phase[c] \/ (phase[c] = "queued" /\ phase'[c] = "building")
<1> USE DEF LinesOK
<1>1. phase \in [Binding -> Phase] /\ slots \in 0..Slots /\ abroad \in 0..Slots /\ Slots \in Nat \ {0}
  BY GitAssumption DEF GitTypeOK
<1>2. Building \in SUBSET Binding /\ b \in Building /\ Cardinality(Building) \in Nat
  BY BuildingFinite DEF Building
<1>3. CASE waiters = <<>>
  <2>1. phase' = [phase EXCEPT ![b] = l] /\ slots' = slots + 1 /\ waiters' = waiters
    BY <1>3 DEF FreesSlot
  <2>2. Building' = Building \ {b} /\ Queued' = Queued
    BY <1>1, <1>2, <2>1 DEF Building, Queued
  <2>3. SlotCount' /\ slots' \in 0..Slots
    <3>1. Cardinality(Building') = Cardinality(Building) - 1 /\ Cardinality(Building) > 0
      BY <1>2, <2>2, OneLess
    <3>2. slots + Cardinality(Building) + abroad = Slots
      BY DEF SlotCount
    <3> QED
      BY <1>1, <1>2, <2>1, <3>1, <3>2 DEF SlotCount
  <2>4. LineFits' /\ NoneFree'
    BY <1>3, <2>1, <2>2 DEF LineFits, Line, NoneFree
  <2>5. phase' \in [Binding -> Phase]
    BY <1>1, <2>1 DEF Phase
  <2>6. phase'[b] = l /\ \A c \in Binding \ {b} : phase'[c] = phase[c]
    BY <1>1, <2>1
  <2>7. waiters' \in Seq(Binding)
    BY <2>1 DEF GitTypeOK
  <2>8. LinesNext
    BY <1>1, <2>3, <2>4, <2>5, <2>7 DEF LinesNext
  <2> QED
    BY <2>6, <2>8
<1>4. CASE waiters # <<>>
  <2> DEFINE h == Head(waiters)
  <2>1. phase' = [phase EXCEPT ![b] = l, ![h] = "building"] /\ slots' = slots /\ waiters' = Tail(waiters)
    BY <1>4 DEF FreesSlot
  <2>2. h \in Queued /\ h \in Binding /\ h # b /\ h \notin Building
    BY <1>4, FirstLeaves DEF Queued, Building
  <2>3. Building' = (Building \ {b}) \cup {h}
    BY <1>1, <1>2, <2>1, <2>2 DEF Building
  <2>4. Queued' = Queued \ {h}
    BY <1>1, <1>2, <2>1, <2>2 DEF Queued, Building
  <2>5. Cardinality(Building') = Cardinality(Building)
    <3>1. Cardinality(Building \ {b}) = Cardinality(Building) - 1 /\ Building \ {b} \in SUBSET Binding
      BY <1>2, OneLess
    <3>2. Cardinality((Building \ {b}) \cup {h}) = Cardinality(Building \ {b}) + 1
      BY <2>2, <3>1, OneMore
    <3> QED
      BY <1>2, <2>3, <3>1, <3>2
  <2>6. SlotCount'
    BY <2>1, <2>5 DEF SlotCount
  <2>7. LineFits' /\ waiters' \in Seq(Binding)
    BY <1>4, <2>1, <2>4, FirstLeaves DEF LineFits, Line
  <2>8. NoneFree'
    BY <1>4, <2>1 DEF NoneFree
  <2>9. phase' \in [Binding -> Phase]
    BY <1>1, <2>1 DEF Phase
  <2>10. /\ phase'[b] = l /\ phase[h] = "queued" /\ phase'[h] = "building"
         /\ \A c \in Binding \ {b, h} : phase'[c] = phase[c]
    BY <1>1, <2>1, <2>2 DEF Queued
  <2>11. slots' \in 0..Slots /\ abroad' \in 0..Slots
    BY <1>1, <2>1
  <2>12. LinesNext
    BY <2>6, <2>7, <2>8, <2>9, <2>11 DEF LinesNext
  <2>13. \A c \in Binding \ {b} : phase'[c] = phase[c] \/ (phase[c] = "queued" /\ phase'[c] = "building")
    BY <2>10
  <2> QED
    BY <2>10, <2>12, <2>13
<1> QED
  BY <1>3, <1>4

LEMMA BeginsInLine ==
  ASSUME LinesOK, NEW b \in Binding, phase[b] \in {"idle", "cleaning"}, NEW j \in Job,
         Begins(b, j), abroad' = abroad
  PROVE  /\ LinesNext /\ phase'[b] \in {"queued", "building"}
         /\ \A c \in Binding \ {b} : phase'[c] = phase[c]
<1> USE DEF LinesOK
<1>1. phase \in [Binding -> Phase] /\ slots \in 0..Slots /\ abroad \in 0..Slots /\ Slots \in Nat \ {0}
  BY GitAssumption DEF GitTypeOK
<1>2. /\ Building \in SUBSET Binding /\ b \notin Building /\ b \notin Queued
      /\ Cardinality(Building) \in Nat
  BY BuildingFinite DEF Building, Queued
<1>3. CASE slots > 0
  <2>1. phase' = [phase EXCEPT ![b] = "building"] /\ slots' = slots - 1 /\ waiters' = waiters
    BY <1>3 DEF Begins
  <2>2. Building' = Building \cup {b} /\ Queued' = Queued
    BY <1>1, <1>2, <2>1 DEF Building, Queued
  <2>3. SlotCount'
    BY <1>1, <1>2, <2>1, <2>2, OneMore DEF SlotCount
  <2>4. LineFits' /\ NoneFree'
    BY <1>1, <1>3, <2>1, <2>2 DEF LineFits, Line, NoneFree
  <2>5. phase' \in [Binding -> Phase]
    BY <1>1, <2>1 DEF Phase
  <2> QED
    BY <1>1, <1>3, <2>1, <2>3, <2>4, <2>5 DEF LinesNext, GitTypeOK
<1>4. CASE ~(slots > 0)
  <2>1. phase' = [phase EXCEPT ![b] = "queued"] /\ waiters' = Append(waiters, b) /\ slots' = slots
    BY <1>4 DEF Begins
  <2>2. Building' = Building /\ Queued' = Queued \cup {b}
    BY <1>1, <1>2, <2>1 DEF Building, Queued
  <2>3. LineFits' /\ waiters' \in Seq(Binding)
    BY <1>2, <2>1, <2>2, LastComes DEF LineFits, Line
  <2>4. SlotCount' /\ NoneFree'
    BY <1>1, <1>4, <2>1, <2>2 DEF SlotCount, NoneFree
  <2>5. phase' \in [Binding -> Phase]
    BY <1>1, <2>1 DEF Phase
  <2> QED
    BY <1>1, <2>1, <2>3, <2>4, <2>5 DEF LinesNext
<1> QED
  BY <1>3, <1>4

LEMMA MovesOn ==
  ASSUME LinesOK, NEW b \in Binding, phase[b] \notin {"queued", "building"},
         NEW l \in Phase \ {"queued", "building"}, KeepsSlot(b, l), abroad' = abroad
  PROVE  LinesNext
<1> USE DEF LinesOK
<1>1. Building' = Building /\ Queued' = Queued
  BY DEF Building, Queued, KeepsSlot, GitTypeOK
<1>2. LineFits' /\ SlotCount' /\ NoneFree'
  BY <1>1 DEF LineFits, SlotCount, NoneFree, Line, KeepsSlot
<1> QED
  BY <1>2 DEF LinesNext, KeepsSlot, GitTypeOK

LEMMA LinesRest ==
  ASSUME LinesOK, UNCHANGED <<phase, waiters, slots, abroad>>
  PROVE  LinesNext
BY DEF LinesOK, LinesNext, GitTypeOK, LineFits, Line, Queued, SlotCount, Building, NoneFree

-----------------------------------------------------------------------------
(* The inductive invariant: which binding may run a job, what its job and  *)
(* its pending push stand for, and how they stand to what the service runs.*)

InLine(b) == phase[b] \in {"queued", "building", "deciding", "deploying"}
Idle(b) == phase[b] = "idle"
Deploying(b) == phase[b] = "deploying"

OneBound ==
  /\ \A b, c \in Binding : bound[b] = "bound" /\ bound[c] = "bound" => b = c
  /\ \A b \in Binding : bound[b] = "bound" => app

\* a binding not yet connected has left no trace
Fresh ==
  \A b \in Binding : bound[b] = "new" =>
    /\ Idle(b) /\ live.of # b /\ b \notin answered
    /\ \A s \in settling : s.of # b

\* one that is not in gitBindings notes nothing and takes no push
Unbound ==
  \A b \in Binding : bound[b] # "bound" => lastAt[b] = 0 /\ owed[b] = 0 /\ b \notin told

Pending ==
  \A b \in Binding : next[b] # 0 /\ (Idle(b) => next[b] = NoJob)

\* a connect's build is the binding's first job, and there is one connect
ConnectFirst ==
  \A s \in settling : s.kind = "connect" =>
    /\ Idle(s.of) /\ s.of \notin told /\ live.of # s.of
    /\ \A t \in settling : t.kind = "connect" /\ t.of = s.of => t = s

JobNewer ==
  \A b \in Binding : InLine(b) /\ live.of = b =>
    /\ job[b] = 0 => live.job = 0
    /\ job[b] # 0 /\ live.noted /\ live.job \in Commit => job[b] > live.job

Noted ==
  \A b \in Binding : bound[b] = "bound" /\ live.of = b /\ live.noted /\ live.job \in Commit
                       => lastAt[b] >= live.job

NotStale ==
  \A b \in Binding : bound[b] = "bound" /\ InLine(b) /\ job[b] # 0 => job[b] > lastAt[b]

OneDeploys == \A b, c \in Binding : Deploying(b) /\ Deploying(c) => b = c

NotOver ==
  \A b, c \in Binding : Deploying(b) /\ c # b /\ bound[c] = "bound" => live.of # c

Answered == \A b \in answered : bound[b] = "gone" /\ Idle(b)

Disconnects ==
  \A s \in settling : s.kind = "disconnect" =>
    bound[s.of] = "gone" /\ (~Idle(s.of) => s.of \in s.on)

Owes ==
  \A b \in Binding :
    /\ owed[b] <= lastAt[b] \/ (InLine(b) /\ owed[b] <= job[b]) \/ owed[b] <= next[b]
    /\ closing => owed[b] = 0

GitIInv ==
  /\ GitTypeOK /\ LineFits /\ SlotCount /\ NoneFree
  /\ OneBound /\ Fresh /\ Unbound /\ Pending /\ ConnectFirst /\ JobNewer /\ Noted /\ NotStale
  /\ OneDeploys /\ NotOver /\ Answered /\ Disconnects /\ Owes

\* how a binding's phase looks to the others does not change
Same(c) ==
  (Idle(c)' <=> Idle(c)) /\ (InLine(c)' <=> InLine(c)) /\ (Deploying(c)' <=> Deploying(c))

LEMMA FreesSame ==
  ASSUME LinesOK, NEW b \in Binding, phase[b] = "building", NEW l \in {"deciding", "cleaning"},
         FreesSlot(b, l), abroad' = abroad
  PROVE  \A x \in Binding \ {b} : Same(x)
BY Frees DEF Same, Idle, InLine, Deploying

LEMMA AbroadEnds ==
  ASSUME LinesOK, BuildAbroadEnds
  PROVE  LinesNext /\ \A x \in Binding : Same(x)
<1> USE DEF LinesOK
<1>1. phase \in [Binding -> Phase] /\ slots \in 0..Slots /\ abroad \in 0..Slots /\ Slots \in Nat \ {0}
  BY GitAssumption DEF GitTypeOK
<1>2. Building \in SUBSET Binding /\ Cardinality(Building) \in Nat
  BY BuildingFinite DEF Building
<1>3. CASE waiters = <<>>
  <2>1. phase' = phase /\ slots' = slots + 1 /\ waiters' = waiters /\ abroad' = abroad - 1 /\ abroad > 0
    BY <1>3 DEF BuildAbroadEnds
  <2>2. Building' = Building /\ Queued' = Queued
    BY <2>1 DEF Building, Queued
  <2>3. SlotCount' /\ slots' \in 0..Slots /\ abroad' \in 0..Slots
    BY <1>1, <1>2, <2>1, <2>2 DEF SlotCount
  <2>4. LineFits' /\ NoneFree'
    BY <1>3, <2>1, <2>2 DEF LineFits, Line, NoneFree
  <2>5. \A x \in Binding : Same(x)
    BY <2>1 DEF Same, Idle, InLine, Deploying
  <2> QED
    BY <1>1, <2>1, <2>3, <2>4, <2>5 DEF LinesNext, GitTypeOK
<1>4. CASE waiters # <<>>
  <2> DEFINE h == Head(waiters)
  <2>1. /\ phase' = [phase EXCEPT ![h] = "building"] /\ slots' = slots /\ waiters' = Tail(waiters)
        /\ abroad' = abroad - 1 /\ abroad > 0
    BY <1>4 DEF BuildAbroadEnds
  <2>2. h \in Queued /\ h \in Binding /\ h \notin Building
    BY <1>4, FirstLeaves DEF Queued, Building
  <2>3. Building' = Building \cup {h} /\ Queued' = Queued \ {h}
    BY <1>1, <2>1, <2>2 DEF Building, Queued
  <2>4. Cardinality(Building') = Cardinality(Building) + 1
    BY <1>2, <2>2, <2>3, OneMore
  <2>5. SlotCount' /\ slots' \in 0..Slots /\ abroad' \in 0..Slots
    BY <1>1, <1>2, <2>1, <2>4 DEF SlotCount
  <2>6. LineFits' /\ waiters' \in Seq(Binding)
    BY <1>4, <2>1, <2>3, FirstLeaves DEF LineFits, Line
  <2>7. NoneFree' /\ phase' \in [Binding -> Phase]
    BY <1>1, <1>4, <2>1 DEF NoneFree, Phase
  <2>8. \A x \in Binding : Same(x)
    BY <1>1, <2>1, <2>2 DEF Same, Idle, InLine, Deploying, Queued
  <2> QED
    BY <2>5, <2>6, <2>7, <2>8 DEF LinesNext
<1> QED
  BY <1>3, <1>4

\* what a dispatch does
DispatchDoes(b, j) ==
  /\ \A x \in Binding \ {b} : Same(x)
  /\ job' \in [Binding -> Job] /\ next' \in [Binding -> Job \cup {NoJob}] /\ moved' \subseteq moved
  /\ \A x \in Binding \ {b} : job'[x] = job[x] /\ next'[x] = next[x]
  /\ \/ (closing \/ (Idle(b) /\ ~Takes(b, j))) /\ Same(b) /\ job' = job /\ next' = next
     \/ ~closing /\ ~Idle(b) /\ Same(b) /\ job' = job /\ next'[b] = IF j >= next[b] THEN j ELSE next[b]
     \/ /\ ~closing /\ Idle(b) /\ Takes(b, j) /\ next' = next
        /\ ~Idle(b)' /\ ~Deploying(b)' /\ InLine(b)' /\ job'[b] = j

LEMMA DispatchMoves ==
  ASSUME GitIInv, NEW b \in Binding, NEW j \in Job, Dispatch(b, j), abroad' = abroad
  PROVE  LinesNext /\ DispatchDoes(b, j)
<1> USE DEF GitIInv, GitTypeOK
<1>1. LinesOK
  BY DEF LinesOK
<1>2. CASE UNCHANGED <<phase, job, next, moved, waiters, slots>> /\ (closing \/ (Idle(b) /\ ~Takes(b, j)))
  <2>1. LinesNext
    BY <1>1, <1>2, LinesRest
  <2>2. \A x \in Binding : Same(x)
    BY <1>2 DEF Same, Idle, InLine, Deploying
  <2> QED
    BY <1>2, <2>1, <2>2 DEF DispatchDoes
<1>3. CASE ~closing /\ Running(b)
  <2>1. Coalesce(b, j) /\ UNCHANGED <<phase, job, moved, waiters, slots>> /\ ~Idle(b)
    BY <1>3 DEF Dispatch, Running, Idle
  <2>2. LinesNext
    BY <1>1, <2>1, LinesRest
  <2>3. \A x \in Binding : Same(x)
    BY <2>1 DEF Same, Idle, InLine, Deploying
  <2> QED
    BY <1>3, <2>1, <2>2, <2>3 DEF DispatchDoes, Coalesce
<1>4. CASE ~closing /\ ~Running(b) /\ Takes(b, j)
  <2>1. Begins(b, j) /\ next' = next /\ Idle(b) /\ phase[b] = "idle"
    BY <1>4 DEF Dispatch, Running, Idle
  <2>2. /\ LinesNext /\ phase'[b] \in {"queued", "building"}
        /\ \A c \in Binding \ {b} : phase'[c] = phase[c]
    BY <1>1, <2>1, BeginsInLine
  <2>3. (\A x \in Binding \ {b} : Same(x)) /\ ~Idle(b)' /\ ~Deploying(b)' /\ InLine(b)'
    BY <2>2 DEF Same, Idle, InLine, Deploying
  <2>4. job' = [job EXCEPT ![b] = j] /\ moved' = moved \ {b}
    BY <2>1 DEF Begins
  <2> QED
    BY <1>4, <2>1, <2>2, <2>3, <2>4 DEF DispatchDoes
<1> QED
  BY <1>2, <1>3, <1>4 DEF Dispatch, Running, Idle

LEMMA PushKeeps ==
  ASSUME GitIInv, NEW b \in Binding, NEW c \in Commit, Push(b, c)
  PROVE  GitIInv'
<1> USE GitAssumption DEF GitIInv, GitTypeOK, Commit, Job, NoJob
<1>a. LinesNext /\ DispatchDoes(b, c)
  BY DispatchMoves DEF Push, Job
<1>b. \A x \in Binding \ {b} : Same(x)
  BY <1>a DEF DispatchDoes
<1>1. GitTypeOK'
  BY <1>a, <1>b DEF LinesNext, Push, DispatchDoes, Stale, Takes
<1>2. OneBound'
  BY <1>a, <1>b DEF Push, Same, OneBound, DispatchDoes, Stale, Takes
<1>3. Fresh'
  BY <1>a, <1>b DEF Push, Same, Fresh, DispatchDoes, Stale, Takes
<1>4. Unbound'
  BY <1>a, <1>b DEF Push, Same, Unbound, DispatchDoes, Stale, Takes
<1>5. Pending'
  BY <1>a, <1>b DEF Push, Same, Pending, DispatchDoes, Stale, Takes
<1>6. ConnectFirst'
  BY <1>a, <1>b DEF Push, Same, ConnectFirst, Fresh, Unbound, DispatchDoes, Stale, Takes
<1>7. JobNewer'
  BY <1>a, <1>b DEF Push, Same, JobNewer, ConnectFirst, Noted, NotStale, Pending, OneBound,
     DispatchDoes, Stale, Takes
<1>8. Noted'
  BY <1>a, <1>b DEF Push, Same, Noted, Fresh, OneDeploys, DispatchDoes, Stale, Takes
<1>9. NotStale'
  BY <1>a, <1>b DEF Push, Same, NotStale, Unbound, DispatchDoes, Stale, Takes
<1>10. OneDeploys'
  BY <1>a, <1>b DEF Push, Same, OneDeploys, DispatchDoes, Stale, Takes
<1>11. NotOver'
  BY <1>a, <1>b DEF Push, Same, NotOver, Fresh, OneBound, OneDeploys, DispatchDoes, Stale, Takes
<1>12. Answered'
  BY <1>a, <1>b DEF Push, Same, Answered, Disconnects, DispatchDoes, Stale, Takes
<1>13. Disconnects'
  BY <1>a, <1>b DEF Push, Same, Disconnects, Fresh, DispatchDoes, Stale, Takes
<1>14. Owes'
  <2>1. ASSUME NEW x \in Binding \ {b}
        PROVE  /\ owed'[x] <= lastAt'[x] \/ (InLine(x)' /\ owed'[x] <= job'[x]) \/ owed'[x] <= next'[x]
               /\ closing' => owed'[x] = 0
    BY <1>a, <1>b DEF Push, Owes, Same, DispatchDoes
  <2>2. closing' => owed'[b] = 0
    BY DEF Push, Owes
  <2>3. owed'[b] <= lastAt'[b] \/ (InLine(b)' /\ owed'[b] <= job'[b]) \/ owed'[b] <= next'[b]
    <3>1. /\ bound[b] = "bound" /\ app /\ lastAt' = lastAt
          /\ owed'[b] = IF closing \/ Stale(b, c) \/ c < owed[b] THEN owed[b] ELSE c
      BY DEF Push, OneBound
    <3>2. /\ owed[b] <= lastAt[b] \/ (InLine(b) /\ owed[b] <= job[b]) \/ owed[b] <= next[b]
          /\ Idle(b) => next[b] = NoJob /\ ~InLine(b)
          /\ closing => owed[b] = 0
      BY DEF Owes, Pending, Idle, InLine
    <3>3. CASE closing
      BY <3>1, <3>2, <3>3
    <3>4. CASE ~closing /\ ~Idle(b)
      BY SMTT(30), <1>a, <3>1, <3>2, <3>4 DEF DispatchDoes, Same, Stale
    <3>5. CASE ~closing /\ Idle(b)
      BY <1>a, <3>1, <3>2, <3>5 DEF DispatchDoes, Same, Stale, Takes
    <3> QED
      BY <3>3, <3>4, <3>5
  <2> QED
    BY <2>1, <2>2, <2>3 DEF Owes
<1> QED
  BY <1>a, <1>1, <1>2, <1>3, <1>4, <1>5, <1>6, <1>7, <1>8, <1>9, <1>10, <1>11, <1>12, <1>13,
     <1>14 DEF LinesNext

LEMMA PushHeldKeeps ==
  ASSUME GitIInv, NEW b \in Binding, NEW c \in Commit, PushHeld(b, c)
  PROVE  GitIInv'
<1> USE GitAssumption DEF GitIInv, GitTypeOK, Commit, Job, NoJob
<1>a. LinesNext
  BY LinesRest DEF PushHeld, LinesOK
<1>b. \A x \in Binding : Same(x)
  BY DEF PushHeld, Same, Idle, InLine, Deploying
<1>1. GitTypeOK'
  BY <1>a, <1>b DEF LinesNext, PushHeld, GiveUp
<1>2. OneBound'
  BY <1>a, <1>b DEF PushHeld, Same, OneBound, GiveUp
<1>3. Fresh'
  BY <1>a, <1>b DEF PushHeld, Same, Fresh, GiveUp
<1>4. Unbound'
  BY <1>a, <1>b DEF PushHeld, Same, Unbound, GiveUp
<1>5. Pending'
  BY <1>a, <1>b DEF PushHeld, Same, Pending, GiveUp
<1>6. ConnectFirst'
  BY <1>a, <1>b DEF PushHeld, Same, ConnectFirst, Fresh, Unbound, GiveUp
<1>7. JobNewer'
  BY <1>a, <1>b DEF PushHeld, Same, JobNewer, ConnectFirst, Noted, NotStale, Pending, OneBound,
     GiveUp
<1>8. Noted'
  BY <1>a, <1>b DEF PushHeld, Same, Noted, Fresh, OneDeploys, GiveUp
<1>9. NotStale'
  BY <1>a, <1>b DEF PushHeld, Same, NotStale, Unbound, GiveUp
<1>10. OneDeploys'
  BY <1>a, <1>b DEF PushHeld, Same, OneDeploys, GiveUp
<1>11. NotOver'
  BY <1>a, <1>b DEF PushHeld, Same, NotOver, Fresh, OneBound, OneDeploys, GiveUp
<1>12. Answered'
  BY <1>a, <1>b DEF PushHeld, Same, Answered, Disconnects, GiveUp
<1>13. Disconnects'
  BY <1>a, <1>b DEF PushHeld, Same, Disconnects, Fresh, GiveUp
<1>14. Owes'
  BY <1>a, <1>b DEF PushHeld, Same, Owes, Unbound, Pending, NotStale, OneBound, GiveUp
<1> QED
  BY <1>a, <1>1, <1>2, <1>3, <1>4, <1>5, <1>6, <1>7, <1>8, <1>9, <1>10, <1>11, <1>12, <1>13,
     <1>14 DEF LinesNext

LEMMA BuildAbroadKeeps ==
  ASSUME GitIInv, BuildAbroad
  PROVE  GitIInv'
<1> USE GitAssumption DEF GitIInv, GitTypeOK, Commit, Job, NoJob
<1>a. LinesNext
  <2>1. LineFits' /\ NoneFree'
    BY DEF BuildAbroad, LineFits, Line, Queued, NoneFree
  <2>2. Building' = Building /\ Cardinality(Building) \in Nat
    BY BuildingFinite DEF BuildAbroad, Building
  <2>3. SlotCount' /\ slots' \in 0..Slots /\ abroad' \in 0..Slots
    BY <2>2, GitAssumption DEF BuildAbroad, SlotCount
  <2> QED
    BY <2>1, <2>3 DEF BuildAbroad, LinesNext
<1>b. \A x \in Binding : Same(x)
  BY DEF BuildAbroad, Same, Idle, InLine, Deploying
<1>1. GitTypeOK'
  BY <1>a, <1>b DEF LinesNext, BuildAbroad
<1>2. OneBound'
  BY <1>a, <1>b DEF BuildAbroad, Same, OneBound
<1>3. Fresh'
  BY <1>a, <1>b DEF BuildAbroad, Same, Fresh
<1>4. Unbound'
  BY <1>a, <1>b DEF BuildAbroad, Same, Unbound
<1>5. Pending'
  BY <1>a, <1>b DEF BuildAbroad, Same, Pending
<1>6. ConnectFirst'
  BY <1>a, <1>b DEF BuildAbroad, Same, ConnectFirst, Fresh, Unbound
<1>7. JobNewer'
  BY <1>a, <1>b DEF BuildAbroad, Same, JobNewer, ConnectFirst, Noted, NotStale, Pending, OneBound
<1>8. Noted'
  BY <1>a, <1>b DEF BuildAbroad, Same, Noted, Fresh, OneDeploys
<1>9. NotStale'
  BY <1>a, <1>b DEF BuildAbroad, Same, NotStale, Unbound
<1>10. OneDeploys'
  BY <1>a, <1>b DEF BuildAbroad, Same, OneDeploys
<1>11. NotOver'
  BY <1>a, <1>b DEF BuildAbroad, Same, NotOver, Fresh, OneBound, OneDeploys
<1>12. Answered'
  BY <1>a, <1>b DEF BuildAbroad, Same, Answered, Disconnects
<1>13. Disconnects'
  BY <1>a, <1>b DEF BuildAbroad, Same, Disconnects, Fresh
<1>14. Owes'
  BY <1>a, <1>b DEF BuildAbroad, Same, Owes, Unbound, Pending, NotStale, OneBound
<1> QED
  BY <1>a, <1>1, <1>2, <1>3, <1>4, <1>5, <1>6, <1>7, <1>8, <1>9, <1>10, <1>11, <1>12, <1>13,
     <1>14 DEF LinesNext

LEMMA BuildAbroadEndsKeeps ==
  ASSUME GitIInv, BuildAbroadEnds
  PROVE  GitIInv'
<1> USE GitAssumption DEF GitIInv, GitTypeOK, Commit, Job, NoJob
<1>a. LinesNext /\ \A x \in Binding : Same(x)
  BY AbroadEnds DEF LinesOK
<1>b. \A x \in Binding : Same(x)
  BY <1>a
<1>1. GitTypeOK'
  BY <1>a, <1>b DEF LinesNext, BuildAbroadEnds
<1>2. OneBound'
  BY <1>a, <1>b DEF BuildAbroadEnds, Same, OneBound
<1>3. Fresh'
  BY <1>a, <1>b DEF BuildAbroadEnds, Same, Fresh
<1>4. Unbound'
  BY <1>a, <1>b DEF BuildAbroadEnds, Same, Unbound
<1>5. Pending'
  BY <1>a, <1>b DEF BuildAbroadEnds, Same, Pending
<1>6. ConnectFirst'
  BY <1>a, <1>b DEF BuildAbroadEnds, Same, ConnectFirst, Fresh, Unbound
<1>7. JobNewer'
  BY <1>a, <1>b DEF BuildAbroadEnds, Same, JobNewer, ConnectFirst, Noted, NotStale, Pending,
     OneBound
<1>8. Noted'
  BY <1>a, <1>b DEF BuildAbroadEnds, Same, Noted, Fresh, OneDeploys
<1>9. NotStale'
  BY <1>a, <1>b DEF BuildAbroadEnds, Same, NotStale, Unbound
<1>10. OneDeploys'
  BY <1>a, <1>b DEF BuildAbroadEnds, Same, OneDeploys
<1>11. NotOver'
  BY <1>a, <1>b DEF BuildAbroadEnds, Same, NotOver, Fresh, OneBound, OneDeploys
<1>12. Answered'
  BY <1>a, <1>b DEF BuildAbroadEnds, Same, Answered, Disconnects
<1>13. Disconnects'
  BY <1>a, <1>b DEF BuildAbroadEnds, Same, Disconnects, Fresh
<1>14. Owes'
  BY <1>a, <1>b DEF BuildAbroadEnds, Same, Owes, Unbound, Pending, NotStale, OneBound
<1> QED
  BY <1>a, <1>1, <1>2, <1>3, <1>4, <1>5, <1>6, <1>7, <1>8, <1>9, <1>10, <1>11, <1>12, <1>13,
     <1>14 DEF LinesNext

LEMMA BuildEndsKeeps ==
  ASSUME GitIInv, NEW b \in Binding, BuildEnds(b)
  PROVE  GitIInv'
<1> USE GitAssumption DEF GitIInv, GitTypeOK, Commit, Job, NoJob
<1>a. LinesNext /\ phase'[b] = "deciding" /\ \A x \in Binding \ {b} : Same(x)
  BY Frees, FreesSame DEF BuildEnds, LinesOK
<1>b. /\ \A x \in Binding \ {b} : Same(x)
      /\ InLine(b) /\ ~Idle(b) /\ ~Deploying(b)
      /\ ~Idle(b)' /\ ~Deploying(b)' /\ InLine(b)'
  BY <1>a DEF BuildEnds, Idle, InLine, Deploying
<1>1. GitTypeOK'
  BY <1>a, <1>b DEF LinesNext, BuildEnds
<1>2. OneBound'
  BY <1>a, <1>b DEF BuildEnds, Same, OneBound
<1>3. Fresh'
  BY <1>a, <1>b DEF BuildEnds, Same, Fresh
<1>4. Unbound'
  BY <1>a, <1>b DEF BuildEnds, Same, Unbound
<1>5. Pending'
  BY <1>a, <1>b DEF BuildEnds, Same, Pending
<1>6. ConnectFirst'
  BY <1>a, <1>b DEF BuildEnds, Same, ConnectFirst, Fresh, Unbound
<1>7. JobNewer'
  BY <1>a, <1>b DEF BuildEnds, Same, JobNewer, ConnectFirst, Noted, NotStale, Pending, OneBound
<1>8. Noted'
  BY <1>a, <1>b DEF BuildEnds, Same, Noted, Fresh, OneDeploys
<1>9. NotStale'
  BY <1>a, <1>b DEF BuildEnds, Same, NotStale, Unbound
<1>10. OneDeploys'
  BY <1>a, <1>b DEF BuildEnds, Same, OneDeploys
<1>11. NotOver'
  BY <1>a, <1>b DEF BuildEnds, Same, NotOver, Fresh, OneBound, OneDeploys
<1>12. Answered'
  BY <1>a, <1>b DEF BuildEnds, Same, Answered, Disconnects
<1>13. Disconnects'
  BY <1>a, <1>b DEF BuildEnds, Same, Disconnects, Fresh
<1>14. Owes'
  BY <1>a, <1>b DEF BuildEnds, Same, Owes, Unbound, Pending, NotStale, OneBound
<1> QED
  BY <1>a, <1>1, <1>2, <1>3, <1>4, <1>5, <1>6, <1>7, <1>8, <1>9, <1>10, <1>11, <1>12, <1>13,
     <1>14 DEF LinesNext

LEMMA BuildFailsKeeps ==
  ASSUME GitIInv, NEW b \in Binding, BuildFails(b)
  PROVE  GitIInv'
<1> USE GitAssumption DEF GitIInv, GitTypeOK, Commit, Job, NoJob
<1>a. LinesNext /\ phase'[b] = "cleaning" /\ \A x \in Binding \ {b} : Same(x)
  BY Frees, FreesSame DEF BuildFails, LinesOK
<1>b. /\ \A x \in Binding \ {b} : Same(x)
      /\ InLine(b) /\ ~Idle(b) /\ ~Deploying(b)
      /\ ~Idle(b)' /\ ~Deploying(b)' /\ ~InLine(b)'
  BY <1>a DEF BuildFails, Idle, InLine, Deploying
<1>1. GitTypeOK'
  BY <1>a, <1>b DEF LinesNext, BuildFails, JobOver, GiveUp
<1>2. OneBound'
  BY <1>a, <1>b DEF BuildFails, Same, OneBound, JobOver, GiveUp
<1>3. Fresh'
  BY <1>a, <1>b DEF BuildFails, Same, Fresh, JobOver, GiveUp
<1>4. Unbound'
  BY <1>a, <1>b DEF BuildFails, Same, Unbound, JobOver, GiveUp
<1>5. Pending'
  BY <1>a, <1>b DEF BuildFails, Same, Pending, JobOver, GiveUp
<1>6. ConnectFirst'
  BY <1>a, <1>b DEF BuildFails, Same, ConnectFirst, Fresh, Unbound, JobOver, GiveUp
<1>7. JobNewer'
  BY <1>a, <1>b DEF BuildFails, Same, JobNewer, ConnectFirst, Noted, NotStale, Pending,
     OneBound, JobOver, GiveUp
<1>8. Noted'
  BY <1>a, <1>b DEF BuildFails, Same, Noted, Fresh, OneDeploys, JobOver, GiveUp
<1>9. NotStale'
  BY <1>a, <1>b DEF BuildFails, Same, NotStale, Unbound, JobOver, GiveUp
<1>10. OneDeploys'
  BY <1>a, <1>b DEF BuildFails, Same, OneDeploys, JobOver, GiveUp
<1>11. NotOver'
  BY <1>a, <1>b DEF BuildFails, Same, NotOver, Fresh, OneBound, OneDeploys, JobOver, GiveUp
<1>12. Answered'
  BY <1>a, <1>b DEF BuildFails, Same, Answered, Disconnects, JobOver, GiveUp
<1>13. Disconnects'
  BY <1>a, <1>b DEF BuildFails, Same, Disconnects, Fresh, JobOver, GiveUp
<1>14. Owes'
  BY <1>a, <1>b DEF BuildFails, Same, Owes, Unbound, Pending, NotStale, OneBound, JobOver, GiveUp
<1> QED
  BY <1>a, <1>1, <1>2, <1>3, <1>4, <1>5, <1>6, <1>7, <1>8, <1>9, <1>10, <1>11, <1>12, <1>13,
     <1>14 DEF LinesNext

LEMMA DeployFromGitKeeps ==
  ASSUME GitIInv, NEW b \in Binding, DeployFromGit(b)
  PROVE  GitIInv'
<1> USE GitAssumption DEF GitIInv, GitTypeOK, Commit, Job, NoJob
<1>a. LinesNext
  BY MovesOn DEF DeployFromGit, LinesOK, Phase
<1>b. /\ \A x \in Binding \ {b} : Same(x) /\ ~Deploying(x)
      /\ ~Idle(b) /\ InLine(b) /\ ~Deploying(b) /\ ~Idle(b)'
      /\ \/ /\ bound[b] = "bound" /\ Deploying(b)' /\ InLine(b)' /\ UNCHANGED <<job, moved, owed>>
         \/ ~Deploying(b)' /\ ~InLine(b)' /\ JobOver(b) /\ GiveUp(b, job[b])
  BY DEF DeployFromGit, ServiceLocked, KeepsSlot, Same, Idle, InLine, Deploying
<1>1. GitTypeOK'
  <2>1. job' \in [Binding -> Job] /\ owed' \in [Binding -> Job] /\ moved' \subseteq Binding
    <3>1. job \in [Binding -> Job] /\ owed \in [Binding -> Job] /\ moved \subseteq Binding
      OBVIOUS
    <3>2. CASE UNCHANGED <<job, moved, owed>>
      BY <3>1, <3>2
    <3>3. CASE JobOver(b) /\ GiveUp(b, job[b])
      BY <3>1, <3>3 DEF JobOver, GiveUp
    <3> QED
      BY <1>b, <3>2, <3>3
  <2> QED
    BY <1>a, <2>1 DEF LinesNext, DeployFromGit
<1>2. OneBound'
  BY <1>a, <1>b DEF DeployFromGit, Same, OneBound, JobOver, GiveUp
<1>3. Fresh'
  BY <1>a, <1>b DEF DeployFromGit, Same, Fresh, JobOver, GiveUp
<1>4. Unbound'
  BY <1>a, <1>b DEF DeployFromGit, Same, Unbound, JobOver, GiveUp
<1>5. Pending'
  BY <1>a, <1>b DEF DeployFromGit, Same, Pending, JobOver, GiveUp
<1>6. ConnectFirst'
  BY <1>a, <1>b DEF DeployFromGit, Same, ConnectFirst, Fresh, Unbound, JobOver, GiveUp
<1>7. JobNewer'
  BY <1>a, <1>b DEF DeployFromGit, Same, JobNewer, ConnectFirst, Noted, NotStale, Pending,
     OneBound, JobOver, GiveUp
<1>8. Noted'
  BY <1>a, <1>b DEF DeployFromGit, Same, Noted, Fresh, OneDeploys, JobOver, GiveUp
<1>9. NotStale'
  BY <1>a, <1>b DEF DeployFromGit, Same, NotStale, Unbound, JobOver, GiveUp
<1>10. OneDeploys'
  BY <1>a, <1>b DEF DeployFromGit, Same, OneDeploys, JobOver, GiveUp
<1>11. NotOver'
  BY <1>a, <1>b DEF DeployFromGit, Same, NotOver, Fresh, OneBound, OneDeploys, JobOver, GiveUp
<1>12. Answered'
  BY <1>a, <1>b DEF DeployFromGit, Same, Answered, Disconnects, JobOver, GiveUp
<1>13. Disconnects'
  BY <1>a, <1>b DEF DeployFromGit, Same, Disconnects, Fresh, JobOver, GiveUp
<1>14. Owes'
  BY <1>a, <1>b DEF DeployFromGit, Same, Owes, Unbound, Pending, NotStale, OneBound, JobOver, GiveUp
<1> QED
  BY <1>a, <1>1, <1>2, <1>3, <1>4, <1>5, <1>6, <1>7, <1>8, <1>9, <1>10, <1>11, <1>12, <1>13,
     <1>14 DEF LinesNext

LEMMA ContainerReplacedKeeps ==
  ASSUME GitIInv, NEW b \in Binding, ContainerReplaced(b)
  PROVE  GitIInv'
<1> USE GitAssumption DEF GitIInv, GitTypeOK, Commit, Job, NoJob
<1>a. LinesNext
  BY LinesRest DEF ContainerReplaced, LinesOK
<1>b. \A x \in Binding : Same(x)
  BY DEF ContainerReplaced, Same, Idle, InLine, Deploying
<1>c. Deploying(b) /\ InLine(b) /\ ~Idle(b)
  BY DEF ContainerReplaced, Deploying, InLine, Idle
<1>1. GitTypeOK'
  BY <1>a, <1>b, <1>c DEF LinesNext, ContainerReplaced, Image
<1>2. OneBound'
  BY <1>a, <1>b, <1>c DEF ContainerReplaced, Same, OneBound, Image
<1>3. Fresh'
  BY <1>a, <1>b, <1>c DEF ContainerReplaced, Same, Fresh, Image
<1>4. Unbound'
  BY <1>a, <1>b, <1>c DEF ContainerReplaced, Same, Unbound, Image
<1>5. Pending'
  BY <1>a, <1>b, <1>c DEF ContainerReplaced, Same, Pending, Image
<1>6. ConnectFirst'
  BY <1>a, <1>b, <1>c DEF ContainerReplaced, Same, ConnectFirst, Fresh, Unbound, Image
<1>7. JobNewer'
  BY <1>a, <1>b, <1>c DEF ContainerReplaced, Same, JobNewer, ConnectFirst, Noted, NotStale,
     Pending, OneBound, Image
<1>8. Noted'
  BY <1>a, <1>b, <1>c DEF ContainerReplaced, Same, Noted, Fresh, OneDeploys, Image
<1>9. NotStale'
  BY <1>a, <1>b, <1>c DEF ContainerReplaced, Same, NotStale, Unbound, Image
<1>10. OneDeploys'
  BY <1>a, <1>b, <1>c DEF ContainerReplaced, Same, OneDeploys, Image
<1>11. NotOver'
  BY <1>a, <1>b, <1>c DEF ContainerReplaced, Same, NotOver, Fresh, OneBound, OneDeploys, Image
<1>12. Answered'
  BY <1>a, <1>b, <1>c DEF ContainerReplaced, Same, Answered, Disconnects, Image
<1>13. Disconnects'
  BY <1>a, <1>b, <1>c DEF ContainerReplaced, Same, Disconnects, Fresh, Image
<1>14. Owes'
  BY <1>a, <1>b, <1>c DEF ContainerReplaced, Same, Owes, Unbound, Pending, NotStale, OneBound, Image
<1> QED
  BY <1>a, <1>1, <1>2, <1>3, <1>4, <1>5, <1>6, <1>7, <1>8, <1>9, <1>10, <1>11, <1>12, <1>13,
     <1>14 DEF LinesNext

LEMMA DeployedKeeps ==
  ASSUME GitIInv, NEW b \in Binding, Deployed(b)
  PROVE  GitIInv'
<1> USE GitAssumption DEF GitIInv, GitTypeOK, Commit, Job, NoJob
<1>a. LinesNext
  BY MovesOn DEF Deployed, LinesOK, Phase
<1>b. /\ \A x \in Binding \ {b} : Same(x)
      /\ ~Idle(b) /\ InLine(b) /\ Deploying(b)
      /\ ~Idle(b)' /\ ~Deploying(b)' /\ ~InLine(b)'
  BY DEF Deployed, KeepsSlot, Same, Idle, InLine, Deploying
<1>1. GitTypeOK'
  BY <1>a, <1>b DEF LinesNext, Deployed, JobOver, Image
<1>2. OneBound'
  BY <1>a, <1>b DEF Deployed, Same, OneBound, JobOver, Image
<1>3. Fresh'
  BY <1>a, <1>b DEF Deployed, Same, Fresh, JobOver, Image
<1>4. Unbound'
  BY <1>a, <1>b DEF Deployed, Same, Unbound, JobOver, Image
<1>5. Pending'
  BY <1>a, <1>b DEF Deployed, Same, Pending, JobOver, Image
<1>6. ConnectFirst'
  BY <1>a, <1>b DEF Deployed, Same, ConnectFirst, Fresh, Unbound, JobOver, Image
<1>7. JobNewer'
  BY <1>a, <1>b DEF Deployed, Same, JobNewer, ConnectFirst, Noted, NotStale, Pending, OneBound,
     JobOver, Image
<1>8. Noted'
  BY <1>a, <1>b DEF Deployed, Same, Noted, Fresh, OneDeploys, JobOver, Image
<1>9. NotStale'
  BY <1>a, <1>b DEF Deployed, Same, NotStale, Unbound, JobOver, Image
<1>10. OneDeploys'
  BY <1>a, <1>b DEF Deployed, Same, OneDeploys, JobOver, Image
<1>11. NotOver'
  BY <1>a, <1>b DEF Deployed, Same, NotOver, Fresh, OneBound, OneDeploys, JobOver, Image
<1>12. Answered'
  BY <1>a, <1>b DEF Deployed, Same, Answered, Disconnects, JobOver, Image
<1>13. Disconnects'
  BY <1>a, <1>b DEF Deployed, Same, Disconnects, Fresh, JobOver, Image
<1>14. Owes'
  BY <1>a, <1>b DEF Deployed, Same, Owes, Unbound, Pending, NotStale, OneBound, JobOver, Image
<1> QED
  BY <1>a, <1>1, <1>2, <1>3, <1>4, <1>5, <1>6, <1>7, <1>8, <1>9, <1>10, <1>11, <1>12, <1>13,
     <1>14 DEF LinesNext

LEMMA DeployFailsKeeps ==
  ASSUME GitIInv, NEW b \in Binding, DeployFails(b)
  PROVE  GitIInv'
<1> USE GitAssumption DEF GitIInv, GitTypeOK, Commit, Job, NoJob
<1>a. LinesNext
  BY MovesOn DEF DeployFails, LinesOK, Phase
<1>b. /\ \A x \in Binding \ {b} : Same(x)
      /\ ~Idle(b) /\ InLine(b) /\ Deploying(b)
      /\ ~Idle(b)' /\ ~Deploying(b)' /\ ~InLine(b)'
  BY DEF DeployFails, KeepsSlot, Same, Idle, InLine, Deploying
<1>1. GitTypeOK'
  BY <1>a, <1>b DEF LinesNext, DeployFails, JobOver, GiveUp
<1>2. OneBound'
  BY <1>a, <1>b DEF DeployFails, Same, OneBound, JobOver, GiveUp
<1>3. Fresh'
  BY <1>a, <1>b DEF DeployFails, Same, Fresh, JobOver, GiveUp
<1>4. Unbound'
  BY <1>a, <1>b DEF DeployFails, Same, Unbound, JobOver, GiveUp
<1>5. Pending'
  BY <1>a, <1>b DEF DeployFails, Same, Pending, JobOver, GiveUp
<1>6. ConnectFirst'
  BY <1>a, <1>b DEF DeployFails, Same, ConnectFirst, Fresh, Unbound, JobOver, GiveUp
<1>7. JobNewer'
  BY <1>a, <1>b DEF DeployFails, Same, JobNewer, ConnectFirst, Noted, NotStale, Pending,
     OneBound, JobOver, GiveUp
<1>8. Noted'
  BY <1>a, <1>b DEF DeployFails, Same, Noted, Fresh, OneDeploys, JobOver, GiveUp
<1>9. NotStale'
  BY <1>a, <1>b DEF DeployFails, Same, NotStale, Unbound, JobOver, GiveUp
<1>10. OneDeploys'
  BY <1>a, <1>b DEF DeployFails, Same, OneDeploys, JobOver, GiveUp
<1>11. NotOver'
  BY <1>a, <1>b DEF DeployFails, Same, NotOver, Fresh, OneBound, OneDeploys, JobOver, GiveUp
<1>12. Answered'
  BY <1>a, <1>b DEF DeployFails, Same, Answered, Disconnects, JobOver, GiveUp
<1>13. Disconnects'
  BY <1>a, <1>b DEF DeployFails, Same, Disconnects, Fresh, JobOver, GiveUp
<1>14. Owes'
  BY <1>a, <1>b DEF DeployFails, Same, Owes, Unbound, Pending, NotStale, OneBound, JobOver, GiveUp
<1> QED
  BY <1>a, <1>1, <1>2, <1>3, <1>4, <1>5, <1>6, <1>7, <1>8, <1>9, <1>10, <1>11, <1>12, <1>13,
     <1>14 DEF LinesNext

LEMMA RunnerTurnsKeeps ==
  ASSUME GitIInv, NEW b \in Binding, RunnerTurns(b)
  PROVE  GitIInv'
<1> USE GitAssumption DEF GitIInv, GitTypeOK, Commit, Job, NoJob
<1>a. LinesNext
  BY MovesOn, BeginsInLine DEF RunnerTurns, LinesOK, Phase, Commit, Job, NoJob
<1>b. /\ \A x \in Binding \ {b} : Same(x)
      /\ ~Idle(b) /\ ~InLine(b) /\ ~Deploying(b) /\ ~Deploying(b)'
      /\ \/ ~closing /\ next[b] # NoJob /\ Takes(b, next[b]) /\ ~Idle(b)' /\ InLine(b)' /\ job' = [job EXCEPT ![b] = next[b]] /\ moved' = moved \ {b}
         \/ ~(~closing /\ next[b] # NoJob /\ Takes(b, next[b])) /\ Idle(b)' /\ ~InLine(b)' /\ UNCHANGED <<job, moved>>
  BY BeginsInLine DEF RunnerTurns, LinesOK, Begins, KeepsSlot, Same, Idle, InLine, Deploying,
     Job, NoJob
<1>1. GitTypeOK'
  BY <1>a, <1>b DEF LinesNext, RunnerTurns, Takes, Stale
<1>2. OneBound'
  BY <1>a, <1>b DEF RunnerTurns, Same, OneBound, Takes, Stale
<1>3. Fresh'
  BY <1>a, <1>b DEF RunnerTurns, Same, Fresh, Takes, Stale
<1>4. Unbound'
  BY <1>a, <1>b DEF RunnerTurns, Same, Unbound, Takes, Stale
<1>5. Pending'
  BY <1>a, <1>b DEF RunnerTurns, Same, Pending, Takes, Stale
<1>6. ConnectFirst'
  BY <1>a, <1>b DEF RunnerTurns, Same, ConnectFirst, Fresh, Unbound, Takes, Stale
<1>7. JobNewer'
  BY <1>a, <1>b DEF RunnerTurns, Same, JobNewer, ConnectFirst, Noted, NotStale, Pending,
     OneBound, Takes, Stale
<1>8. Noted'
  BY <1>a, <1>b DEF RunnerTurns, Same, Noted, Fresh, OneDeploys, Takes, Stale
<1>9. NotStale'
  BY <1>a, <1>b DEF RunnerTurns, Same, NotStale, Unbound, Takes, Stale
<1>10. OneDeploys'
  BY <1>a, <1>b DEF RunnerTurns, Same, OneDeploys, Takes, Stale
<1>11. NotOver'
  BY <1>a, <1>b DEF RunnerTurns, Same, NotOver, Fresh, OneBound, OneDeploys, Takes, Stale
<1>12. Answered'
  BY <1>a, <1>b DEF RunnerTurns, Same, Answered, Disconnects, Takes, Stale
<1>13. Disconnects'
  BY <1>a, <1>b DEF RunnerTurns, Same, Disconnects, Fresh, Takes, Stale
<1>14. Owes'
  BY <1>a, <1>b DEF RunnerTurns, Same, Owes, Unbound, Pending, NotStale, OneBound, Takes, Stale
<1> QED
  BY <1>a, <1>1, <1>2, <1>3, <1>4, <1>5, <1>6, <1>7, <1>8, <1>9, <1>10, <1>11, <1>12, <1>13,
     <1>14 DEF LinesNext

LEMMA RunnerHoldsKeeps ==
  ASSUME GitIInv, NEW b \in Binding, RunnerHolds(b)
  PROVE  GitIInv'
<1> USE GitAssumption DEF GitIInv, GitTypeOK, Commit, Job, NoJob
<1>a. LinesNext
  BY MovesOn DEF RunnerHolds, LinesOK, Phase
<1>b. /\ \A x \in Binding \ {b} : Same(x)
      /\ ~Idle(b) /\ ~InLine(b) /\ ~Deploying(b)
      /\ Idle(b)' /\ ~Deploying(b)' /\ ~InLine(b)'
  BY DEF RunnerHolds, KeepsSlot, Same, Idle, InLine, Deploying
<1>1. GitTypeOK'
  BY <1>a, <1>b DEF LinesNext, RunnerHolds, GiveUp
<1>2. OneBound'
  BY <1>a, <1>b DEF RunnerHolds, Same, OneBound, GiveUp
<1>3. Fresh'
  BY <1>a, <1>b DEF RunnerHolds, Same, Fresh, GiveUp
<1>4. Unbound'
  BY <1>a, <1>b DEF RunnerHolds, Same, Unbound, GiveUp
<1>5. Pending'
  BY <1>a, <1>b DEF RunnerHolds, Same, Pending, GiveUp
<1>6. ConnectFirst'
  BY <1>a, <1>b DEF RunnerHolds, Same, ConnectFirst, Fresh, Unbound, GiveUp
<1>7. JobNewer'
  BY <1>a, <1>b DEF RunnerHolds, Same, JobNewer, ConnectFirst, Noted, NotStale, Pending,
     OneBound, GiveUp
<1>8. Noted'
  BY <1>a, <1>b DEF RunnerHolds, Same, Noted, Fresh, OneDeploys, GiveUp
<1>9. NotStale'
  BY <1>a, <1>b DEF RunnerHolds, Same, NotStale, Unbound, GiveUp
<1>10. OneDeploys'
  BY <1>a, <1>b DEF RunnerHolds, Same, OneDeploys, GiveUp
<1>11. NotOver'
  BY <1>a, <1>b DEF RunnerHolds, Same, NotOver, Fresh, OneBound, OneDeploys, GiveUp
<1>12. Answered'
  BY <1>a, <1>b DEF RunnerHolds, Same, Answered, Disconnects, GiveUp
<1>13. Disconnects'
  BY <1>a, <1>b DEF RunnerHolds, Same, Disconnects, Fresh, GiveUp
<1>14. Owes'
  BY <1>a, <1>b DEF RunnerHolds, Same, Owes, Unbound, Pending, NotStale, OneBound, GiveUp
<1> QED
  BY <1>a, <1>1, <1>2, <1>3, <1>4, <1>5, <1>6, <1>7, <1>8, <1>9, <1>10, <1>11, <1>12, <1>13,
     <1>14 DEF LinesNext

LEMMA ConnectKeeps ==
  ASSUME GitIInv, NEW b \in Binding, Connect(b)
  PROVE  GitIInv'
<1> USE GitAssumption DEF GitIInv, GitTypeOK, Commit, Job, NoJob
<1>a. LinesNext
  BY LinesRest DEF Connect, LinesOK
<1>b. \A x \in Binding : Same(x)
  BY DEF Connect, Same, Idle, InLine, Deploying
<1>1. GitTypeOK'
  BY <1>a, <1>b DEF LinesNext, Connect, Unbinds, Request, RunnersOf, Running, Idle
<1>2. OneBound'
  BY <1>a, <1>b DEF Connect, Same, OneBound, Unbinds, Request, RunnersOf, Running, Idle
<1>3. Fresh'
  BY <1>a, <1>b DEF Connect, Same, Fresh, Unbinds, Request, RunnersOf, Running, Idle
<1>4. Unbound'
  BY <1>a, <1>b DEF Connect, Same, Unbound, Unbinds, Request, RunnersOf, Running, Idle
<1>5. Pending'
  BY <1>a, <1>b DEF Connect, Same, Pending, Unbinds, Request, RunnersOf, Running, Idle
<1>6. ConnectFirst'
  <2> SUFFICES ASSUME NEW s \in settling', s.kind = "connect"
               PROVE  /\ Idle(s.of)' /\ s.of \notin told' /\ live'.of # s.of
                      /\ \A t \in settling' : t.kind = "connect" /\ t.of = s.of => t = s
    BY DEF ConnectFirst
  <2> DEFINE new == Request("connect", b, RunnersOf({r \in Binding : bound[r] = "bound"}))
  <2>1. settling' = settling \cup {new} /\ new.of = b /\ told' \subseteq told /\ live' = live /\ bound[b] = "new"
    BY DEF Connect, Request, Unbinds
  <2>2. Idle(b) /\ live.of # b /\ b \notin told /\ \A t \in settling : t.of # b
    BY <2>1 DEF Fresh, Unbound
  <2>3. CASE s = new
    BY <1>b, <2>1, <2>2, <2>3 DEF Same
  <2>4. CASE s \in settling
    BY <1>b, <2>1, <2>2, <2>4 DEF Same, ConnectFirst
  <2> QED
    BY <2>1, <2>3, <2>4
<1>7. JobNewer'
  BY <1>a, <1>b DEF Connect, Same, JobNewer, ConnectFirst, Noted, NotStale, Pending, OneBound,
     Unbinds, Request, RunnersOf, Running, Idle
<1>8. Noted'
  BY <1>a, <1>b DEF Connect, Same, Noted, Fresh, OneDeploys, Unbinds, Request, RunnersOf,
     Running, Idle
<1>9. NotStale'
  BY <1>a, <1>b DEF Connect, Same, NotStale, Unbound, Unbinds, Request, RunnersOf, Running, Idle
<1>10. OneDeploys'
  BY <1>a, <1>b DEF Connect, Same, OneDeploys, Unbinds, Request, RunnersOf, Running, Idle
<1>11. NotOver'
  BY <1>a, <1>b DEF Connect, Same, NotOver, Fresh, OneBound, OneDeploys, Unbinds, Request,
     RunnersOf, Running, Idle
<1>12. Answered'
  BY <1>a, <1>b DEF Connect, Same, Answered, Disconnects, Unbinds, Request, RunnersOf, Running, Idle
<1>13. Disconnects'
  BY <1>a, <1>b DEF Connect, Same, Disconnects, Fresh, Unbinds, Request, RunnersOf, Running, Idle
<1>14. Owes'
  BY <1>a, <1>b DEF Connect, Same, Owes, Unbound, Pending, NotStale, OneBound, Unbinds, Request,
     RunnersOf, Running, Idle
<1> QED
  BY <1>a, <1>1, <1>2, <1>3, <1>4, <1>5, <1>6, <1>7, <1>8, <1>9, <1>10, <1>11, <1>12, <1>13,
     <1>14 DEF LinesNext

LEMMA ConnectBuildsKeeps ==
  ASSUME GitIInv, NEW b \in Binding, ConnectBuilds(b)
  PROVE  GitIInv'
<1> USE GitAssumption DEF GitIInv, GitTypeOK, Commit, Job, NoJob
<1>a. LinesNext /\ DispatchDoes(b, 0)
  BY DispatchMoves DEF ConnectBuilds, Job
<1>b. \A x \in Binding \ {b} : Same(x)
  BY <1>a DEF DispatchDoes
<1>1. GitTypeOK'
  BY <1>a, <1>b DEF LinesNext, ConnectBuilds, DispatchDoes, Stale, Takes
<1>2. OneBound'
  BY <1>a, <1>b DEF ConnectBuilds, Same, OneBound, DispatchDoes, Stale, Takes
<1>3. Fresh'
  BY <1>a, <1>b DEF ConnectBuilds, Same, Fresh, DispatchDoes, Stale, Takes
<1>4. Unbound'
  BY <1>a, <1>b DEF ConnectBuilds, Same, Unbound, DispatchDoes, Stale, Takes
<1>5. Pending'
  <2>1. Idle(b)
    BY DEF ConnectBuilds, ConnectFirst
  <2> QED
    BY <1>b, <1>a, <2>1 DEF Same, Pending, DispatchDoes
<1>6. ConnectFirst'
  BY <1>a, <1>b DEF ConnectBuilds, Same, ConnectFirst, Fresh, Unbound, DispatchDoes, Stale, Takes
<1>7. JobNewer'
  BY <1>a, <1>b DEF ConnectBuilds, Same, JobNewer, ConnectFirst, Noted, NotStale, Pending,
     OneBound, DispatchDoes, Stale, Takes
<1>8. Noted'
  BY <1>a, <1>b DEF ConnectBuilds, Same, Noted, Fresh, OneDeploys, DispatchDoes, Stale, Takes
<1>9. NotStale'
  BY <1>a, <1>b DEF ConnectBuilds, Same, NotStale, Unbound, DispatchDoes, Stale, Takes
<1>10. OneDeploys'
  BY <1>a, <1>b DEF ConnectBuilds, Same, OneDeploys, DispatchDoes, Stale, Takes
<1>11. NotOver'
  BY <1>a, <1>b DEF ConnectBuilds, Same, NotOver, Fresh, OneBound, OneDeploys, DispatchDoes,
     Stale, Takes
<1>12. Answered'
  BY <1>a, <1>b DEF ConnectBuilds, Same, Answered, Disconnects, DispatchDoes, Stale, Takes
<1>13. Disconnects'
  BY <1>a, <1>b DEF ConnectBuilds, Same, Disconnects, Fresh, DispatchDoes, Stale, Takes
<1>14. Owes'
  <2>1. ASSUME NEW x \in Binding \ {b}
        PROVE  /\ owed'[x] <= lastAt'[x] \/ (InLine(x)' /\ owed'[x] <= job'[x]) \/ owed'[x] <= next'[x]
               /\ closing' => owed'[x] = 0
    BY <1>a, <1>b DEF ConnectBuilds, Owes, Same, DispatchDoes
  <2>2. closing' => owed'[b] = 0
    BY DEF ConnectBuilds, Owes
  <2>3. owed'[b] <= lastAt'[b] \/ (InLine(b)' /\ owed'[b] <= job'[b]) \/ owed'[b] <= next'[b]
    <3>1. Idle(b) /\ next[b] = NoJob /\ owed' = owed /\ lastAt' = lastAt
      BY DEF ConnectBuilds, ConnectFirst, Pending
    <3>2. owed[b] <= lastAt[b]
      BY <3>1 DEF Owes, Idle, InLine
    <3> QED
      BY <3>1, <3>2
  <2> QED
    BY <2>1, <2>2, <2>3 DEF Owes
<1> QED
  BY <1>a, <1>1, <1>2, <1>3, <1>4, <1>5, <1>6, <1>7, <1>8, <1>9, <1>10, <1>11, <1>12, <1>13,
     <1>14 DEF LinesNext

LEMMA DisconnectKeeps ==
  ASSUME GitIInv, NEW b \in Binding, Disconnect(b)
  PROVE  GitIInv'
<1> USE GitAssumption DEF GitIInv, GitTypeOK, Commit, Job, NoJob
<1>a. LinesNext
  BY LinesRest DEF Disconnect, LinesOK
<1>b. \A x \in Binding : Same(x)
  BY DEF Disconnect, Same, Idle, InLine, Deploying
<1>1. GitTypeOK'
  BY <1>a, <1>b DEF LinesNext, Disconnect, Unbinds, Request, RunnersOf, Running, Idle
<1>2. OneBound'
  BY <1>a, <1>b DEF Disconnect, Same, OneBound, Unbinds, Request, RunnersOf, Running, Idle
<1>3. Fresh'
  BY <1>a, <1>b DEF Disconnect, Same, Fresh, Unbinds, Request, RunnersOf, Running, Idle
<1>4. Unbound'
  BY <1>a, <1>b DEF Disconnect, Same, Unbound, Unbinds, Request, RunnersOf, Running, Idle
<1>5. Pending'
  BY <1>a, <1>b DEF Disconnect, Same, Pending, Unbinds, Request, RunnersOf, Running, Idle
<1>6. ConnectFirst'
  BY <1>a, <1>b DEF Disconnect, Same, ConnectFirst, Fresh, Unbound, Unbinds, Request, RunnersOf,
     Running, Idle
<1>7. JobNewer'
  BY <1>a, <1>b DEF Disconnect, Same, JobNewer, ConnectFirst, Noted, NotStale, Pending,
     OneBound, Unbinds, Request, RunnersOf, Running, Idle
<1>8. Noted'
  BY <1>a, <1>b DEF Disconnect, Same, Noted, Fresh, OneDeploys, Unbinds, Request, RunnersOf,
     Running, Idle
<1>9. NotStale'
  BY <1>a, <1>b DEF Disconnect, Same, NotStale, Unbound, Unbinds, Request, RunnersOf, Running, Idle
<1>10. OneDeploys'
  BY <1>a, <1>b DEF Disconnect, Same, OneDeploys, Unbinds, Request, RunnersOf, Running, Idle
<1>11. NotOver'
  BY <1>a, <1>b DEF Disconnect, Same, NotOver, Fresh, OneBound, OneDeploys, Unbinds, Request,
     RunnersOf, Running, Idle
<1>12. Answered'
  BY <1>a, <1>b DEF Disconnect, Same, Answered, Disconnects, Unbinds, Request, RunnersOf,
     Running, Idle
<1>13. Disconnects'
  BY <1>a, <1>b DEF Disconnect, Same, Disconnects, Fresh, Unbinds, Request, RunnersOf, Running, Idle
<1>14. Owes'
  BY <1>a, <1>b DEF Disconnect, Same, Owes, Unbound, Pending, NotStale, OneBound, Unbinds,
     Request, RunnersOf, Running, Idle
<1> QED
  BY <1>a, <1>1, <1>2, <1>3, <1>4, <1>5, <1>6, <1>7, <1>8, <1>9, <1>10, <1>11, <1>12, <1>13,
     <1>14 DEF LinesNext

LEMMA DisconnectAnswersKeeps ==
  ASSUME GitIInv, NEW b \in Binding, DisconnectAnswers(b)
  PROVE  GitIInv'
<1> USE GitAssumption DEF GitIInv, GitTypeOK, Commit, Job, NoJob
<1>a. LinesNext
  BY LinesRest DEF DisconnectAnswers, LinesOK
<1>b. \A x \in Binding : Same(x)
  BY DEF DisconnectAnswers, Same, Idle, InLine, Deploying
<1>1. GitTypeOK'
  BY <1>a, <1>b DEF LinesNext, DisconnectAnswers, RunnersOf, Running, Idle
<1>2. OneBound'
  BY <1>a, <1>b DEF DisconnectAnswers, Same, OneBound, RunnersOf, Running, Idle
<1>3. Fresh'
  BY <1>a, <1>b DEF DisconnectAnswers, Same, Fresh, RunnersOf, Running, Idle
<1>4. Unbound'
  BY <1>a, <1>b DEF DisconnectAnswers, Same, Unbound, RunnersOf, Running, Idle
<1>5. Pending'
  BY <1>a, <1>b DEF DisconnectAnswers, Same, Pending, RunnersOf, Running, Idle
<1>6. ConnectFirst'
  BY <1>a, <1>b DEF DisconnectAnswers, Same, ConnectFirst, Fresh, Unbound, RunnersOf, Running, Idle
<1>7. JobNewer'
  BY <1>a, <1>b DEF DisconnectAnswers, Same, JobNewer, ConnectFirst, Noted, NotStale, Pending,
     OneBound, RunnersOf, Running, Idle
<1>8. Noted'
  BY <1>a, <1>b DEF DisconnectAnswers, Same, Noted, Fresh, OneDeploys, RunnersOf, Running, Idle
<1>9. NotStale'
  BY <1>a, <1>b DEF DisconnectAnswers, Same, NotStale, Unbound, RunnersOf, Running, Idle
<1>10. OneDeploys'
  BY <1>a, <1>b DEF DisconnectAnswers, Same, OneDeploys, RunnersOf, Running, Idle
<1>11. NotOver'
  BY <1>a, <1>b DEF DisconnectAnswers, Same, NotOver, Fresh, OneBound, OneDeploys, RunnersOf,
     Running, Idle
<1>12. Answered'
  BY <1>a, <1>b DEF DisconnectAnswers, Same, Answered, Disconnects, RunnersOf, Running, Idle
<1>13. Disconnects'
  BY <1>a, <1>b DEF DisconnectAnswers, Same, Disconnects, Fresh, RunnersOf, Running, Idle
<1>14. Owes'
  BY <1>a, <1>b DEF DisconnectAnswers, Same, Owes, Unbound, Pending, NotStale, OneBound,
     RunnersOf, Running, Idle
<1> QED
  BY <1>a, <1>1, <1>2, <1>3, <1>4, <1>5, <1>6, <1>7, <1>8, <1>9, <1>10, <1>11, <1>12, <1>13,
     <1>14 DEF LinesNext

LEMMA ServiceRemovedKeeps ==
  ASSUME GitIInv, ServiceRemoved
  PROVE  GitIInv'
<1> USE GitAssumption DEF GitIInv, GitTypeOK, Commit, Job, NoJob
<1>a. LinesNext
  BY LinesRest DEF ServiceRemoved, LinesOK
<1>b. \A x \in Binding : Same(x)
  BY DEF ServiceRemoved, Same, Idle, InLine, Deploying
<1>1. GitTypeOK'
  BY <1>a, <1>b DEF LinesNext, ServiceRemoved, Unbinds
<1>2. OneBound'
  BY <1>a, <1>b DEF ServiceRemoved, Same, OneBound, Unbinds
<1>3. Fresh'
  BY <1>a, <1>b DEF ServiceRemoved, Same, Fresh, Unbinds
<1>4. Unbound'
  BY <1>a, <1>b DEF ServiceRemoved, Same, Unbound, Unbinds
<1>5. Pending'
  BY <1>a, <1>b DEF ServiceRemoved, Same, Pending, Unbinds
<1>6. ConnectFirst'
  BY <1>a, <1>b DEF ServiceRemoved, Same, ConnectFirst, Fresh, Unbound, Unbinds
<1>7. JobNewer'
  BY <1>a, <1>b DEF ServiceRemoved, Same, JobNewer, ConnectFirst, Noted, NotStale, Pending,
     OneBound, Unbinds
<1>8. Noted'
  BY <1>a, <1>b DEF ServiceRemoved, Same, Noted, Fresh, OneDeploys, Unbinds
<1>9. NotStale'
  BY <1>a, <1>b DEF ServiceRemoved, Same, NotStale, Unbound, Unbinds
<1>10. OneDeploys'
  BY <1>a, <1>b DEF ServiceRemoved, Same, OneDeploys, Unbinds
<1>11. NotOver'
  BY <1>a, <1>b DEF ServiceRemoved, Same, NotOver, Fresh, OneBound, OneDeploys, Unbinds
<1>12. Answered'
  BY <1>a, <1>b DEF ServiceRemoved, Same, Answered, Disconnects, Unbinds
<1>13. Disconnects'
  BY <1>a, <1>b DEF ServiceRemoved, Same, Disconnects, Fresh, Unbinds
<1>14. Owes'
  BY <1>a, <1>b DEF ServiceRemoved, Same, Owes, Unbound, Pending, NotStale, OneBound, Unbinds
<1> QED
  BY <1>a, <1>1, <1>2, <1>3, <1>4, <1>5, <1>6, <1>7, <1>8, <1>9, <1>10, <1>11, <1>12, <1>13,
     <1>14 DEF LinesNext

LEMMA ServiceRenamedKeeps ==
  ASSUME GitIInv, ServiceRenamed
  PROVE  GitIInv'
<1> USE GitAssumption DEF GitIInv, GitTypeOK, Commit, Job, NoJob
<1>a. LinesNext
  BY LinesRest DEF ServiceRenamed, LinesOK
<1>b. \A x \in Binding : Same(x)
  BY DEF ServiceRenamed, Same, Idle, InLine, Deploying
<1>1. GitTypeOK'
  BY <1>a, <1>b DEF LinesNext, ServiceRenamed
<1>2. OneBound'
  BY <1>a, <1>b DEF ServiceRenamed, Same, OneBound
<1>3. Fresh'
  BY <1>a, <1>b DEF ServiceRenamed, Same, Fresh
<1>4. Unbound'
  BY <1>a, <1>b DEF ServiceRenamed, Same, Unbound
<1>5. Pending'
  BY <1>a, <1>b DEF ServiceRenamed, Same, Pending
<1>6. ConnectFirst'
  BY <1>a, <1>b DEF ServiceRenamed, Same, ConnectFirst, Fresh, Unbound
<1>7. JobNewer'
  BY <1>a, <1>b DEF ServiceRenamed, Same, JobNewer, ConnectFirst, Noted, NotStale, Pending, OneBound
<1>8. Noted'
  BY <1>a, <1>b DEF ServiceRenamed, Same, Noted, Fresh, OneDeploys
<1>9. NotStale'
  BY <1>a, <1>b DEF ServiceRenamed, Same, NotStale, Unbound
<1>10. OneDeploys'
  BY <1>a, <1>b DEF ServiceRenamed, Same, OneDeploys
<1>11. NotOver'
  BY <1>a, <1>b DEF ServiceRenamed, Same, NotOver, Fresh, OneBound, OneDeploys
<1>12. Answered'
  BY <1>a, <1>b DEF ServiceRenamed, Same, Answered, Disconnects
<1>13. Disconnects'
  BY <1>a, <1>b DEF ServiceRenamed, Same, Disconnects, Fresh
<1>14. Owes'
  BY <1>a, <1>b DEF ServiceRenamed, Same, Owes, Unbound, Pending, NotStale, OneBound
<1> QED
  BY <1>a, <1>1, <1>2, <1>3, <1>4, <1>5, <1>6, <1>7, <1>8, <1>9, <1>10, <1>11, <1>12, <1>13,
     <1>14 DEF LinesNext

LEMMA ClosesKeeps ==
  ASSUME GitIInv, Closes
  PROVE  GitIInv'
<1> USE GitAssumption DEF GitIInv, GitTypeOK, Commit, Job, NoJob
<1>a. LinesNext
  <2>1. LineFits' /\ NoneFree' /\ phase' \in [Binding -> Phase] /\ waiters' \in Seq(Binding)
    BY DEF Closes, LineFits, Line, Queued, NoneFree, Phase
  <2>2. Building' = Building
    BY DEF Closes, Building
  <2> QED
    BY <2>1, <2>2 DEF Closes, LinesNext, SlotCount
<1>b. \A x \in Binding : /\ (Idle(x)' <=> Idle(x)) /\ (Deploying(x)' <=> Deploying(x)) /\ (InLine(x)' => InLine(x))
  BY DEF Closes, Idle, InLine, Deploying
<1>1. GitTypeOK'
  BY <1>a, <1>b DEF LinesNext, Closes
<1>2. OneBound'
  BY <1>a, <1>b DEF Closes, Same, OneBound
<1>3. Fresh'
  BY <1>a, <1>b DEF Closes, Same, Fresh
<1>4. Unbound'
  BY <1>a, <1>b DEF Closes, Same, Unbound
<1>5. Pending'
  BY <1>a, <1>b DEF Closes, Same, Pending
<1>6. ConnectFirst'
  BY <1>a, <1>b DEF Closes, Same, ConnectFirst, Fresh, Unbound
<1>7. JobNewer'
  BY <1>a, <1>b DEF Closes, Same, JobNewer, ConnectFirst, Noted, NotStale, Pending, OneBound
<1>8. Noted'
  BY <1>a, <1>b DEF Closes, Same, Noted, Fresh, OneDeploys
<1>9. NotStale'
  BY <1>a, <1>b DEF Closes, Same, NotStale, Unbound
<1>10. OneDeploys'
  BY <1>a, <1>b DEF Closes, Same, OneDeploys
<1>11. NotOver'
  BY <1>a, <1>b DEF Closes, Same, NotOver, Fresh, OneBound, OneDeploys
<1>12. Answered'
  BY <1>a, <1>b DEF Closes, Same, Answered, Disconnects
<1>13. Disconnects'
  BY <1>a, <1>b DEF Closes, Same, Disconnects, Fresh
<1>14. Owes'
  BY <1>a, <1>b DEF Closes, Same, Owes, Unbound, Pending, NotStale, OneBound
<1> QED
  BY <1>a, <1>1, <1>2, <1>3, <1>4, <1>5, <1>6, <1>7, <1>8, <1>9, <1>10, <1>11, <1>12, <1>13,
     <1>14 DEF LinesNext

LEMMA RestartsKeeps ==
  ASSUME GitIInv, Restarts
  PROVE  GitIInv'
<1> USE GitAssumption DEF GitIInv, GitTypeOK, Commit, Job, NoJob
<1>a. LinesNext
  <2>1. LineFits' /\ NoneFree' /\ phase' \in [Binding -> Phase] /\ waiters' \in Seq(Binding)
    BY DEF Restarts, LineFits, Line, Queued, NoneFree, Phase
  <2>2. Building' = {}
    BY DEF Restarts, Building
  <2> QED
    BY <2>1, <2>2, FS_EmptySet, GitAssumption DEF Restarts, LinesNext, SlotCount
<1>b. \A x \in Binding : Idle(x)' /\ ~InLine(x)' /\ ~Deploying(x)'
  BY DEF Restarts, Idle, InLine, Deploying
<1>1. GitTypeOK'
  BY <1>a, <1>b DEF LinesNext, Restarts
<1>2. OneBound'
  BY <1>a, <1>b DEF Restarts, Same, OneBound
<1>3. Fresh'
  BY <1>a, <1>b DEF Restarts, Same, Fresh
<1>4. Unbound'
  BY <1>a, <1>b DEF Restarts, Same, Unbound
<1>5. Pending'
  BY <1>a, <1>b DEF Restarts, Same, Pending
<1>6. ConnectFirst'
  BY <1>a, <1>b DEF Restarts, Same, ConnectFirst, Fresh, Unbound
<1>7. JobNewer'
  BY <1>a, <1>b DEF Restarts, Same, JobNewer, ConnectFirst, Noted, NotStale, Pending, OneBound
<1>8. Noted'
  BY <1>a, <1>b DEF Restarts, Same, Noted, Fresh, OneDeploys
<1>9. NotStale'
  BY <1>a, <1>b DEF Restarts, Same, NotStale, Unbound
<1>10. OneDeploys'
  BY <1>a, <1>b DEF Restarts, Same, OneDeploys
<1>11. NotOver'
  BY <1>a, <1>b DEF Restarts, Same, NotOver, Fresh, OneBound, OneDeploys
<1>12. Answered'
  BY <1>a, <1>b DEF Restarts, Same, Answered, Disconnects
<1>13. Disconnects'
  BY <1>a, <1>b DEF Restarts, Same, Disconnects, Fresh
<1>14. Owes'
  BY <1>a, <1>b DEF Restarts, Same, Owes, Unbound, Pending, NotStale, OneBound
<1> QED
  BY <1>a, <1>1, <1>2, <1>3, <1>4, <1>5, <1>6, <1>7, <1>8, <1>9, <1>10, <1>11, <1>12, <1>13,
     <1>14 DEF LinesNext

LEMMA StutterKeeps ==
  ASSUME GitIInv, UNCHANGED gitVars
  PROVE  GitIInv'
<1> USE GitAssumption DEF GitIInv, GitTypeOK, Commit, Job, NoJob
<1>a. LinesNext
  BY LinesRest DEF gitVars, LinesOK
<1>b. \A x \in Binding : Same(x)
  BY DEF gitVars, Same, Idle, InLine, Deploying
<1>1. GitTypeOK'
  BY <1>a, <1>b DEF LinesNext, gitVars
<1>2. OneBound'
  BY <1>a, <1>b DEF gitVars, Same, OneBound
<1>3. Fresh'
  BY <1>a, <1>b DEF gitVars, Same, Fresh
<1>4. Unbound'
  BY <1>a, <1>b DEF gitVars, Same, Unbound
<1>5. Pending'
  BY <1>a, <1>b DEF gitVars, Same, Pending
<1>6. ConnectFirst'
  BY <1>a, <1>b DEF gitVars, Same, ConnectFirst, Fresh, Unbound
<1>7. JobNewer'
  BY <1>a, <1>b DEF gitVars, Same, JobNewer, ConnectFirst, Noted, NotStale, Pending, OneBound
<1>8. Noted'
  BY <1>a, <1>b DEF gitVars, Same, Noted, Fresh, OneDeploys
<1>9. NotStale'
  BY <1>a, <1>b DEF gitVars, Same, NotStale, Unbound
<1>10. OneDeploys'
  BY <1>a, <1>b DEF gitVars, Same, OneDeploys
<1>11. NotOver'
  BY <1>a, <1>b DEF gitVars, Same, NotOver, Fresh, OneBound, OneDeploys
<1>12. Answered'
  BY <1>a, <1>b DEF gitVars, Same, Answered, Disconnects
<1>13. Disconnects'
  BY <1>a, <1>b DEF gitVars, Same, Disconnects, Fresh
<1>14. Owes'
  BY <1>a, <1>b DEF gitVars, Same, Owes, Unbound, Pending, NotStale, OneBound
<1> QED
  BY <1>a, <1>1, <1>2, <1>3, <1>4, <1>5, <1>6, <1>7, <1>8, <1>9, <1>10, <1>11, <1>12, <1>13,
     <1>14 DEF LinesNext

LEMMA GitInitHolds == GitInit => GitIInv
<1> SUFFICES ASSUME GitInit PROVE GitIInv
  OBVIOUS
<1> USE GitAssumption DEF GitInit
<1>1. GitTypeOK
  <2>1. 0 \in Job /\ NoJob \in Job \cup {NoJob} /\ "idle" \in Phase /\ Slots \in Nat
    BY DEF Job, Phase
  <2>2. live \in [of : Binding \cup {"hand"}, job : Job, noted : BOOLEAN]
    BY <2>1 DEF ByHand
  <2>3. waiters \in Seq(Binding) /\ slots \in 0..Slots /\ abroad \in 0..Slots
    BY <2>1
  <2> QED
    BY <2>1, <2>2, <2>3 DEF GitTypeOK
<1>2. LineFits /\ NoneFree
  BY DEF LineFits, Line, Queued, NoneFree
<1>3. SlotCount
  <2>1. Building = {}
    BY DEF Building
  <2> QED
    BY <2>1, FS_EmptySet DEF SlotCount
<1>4. OneBound /\ Fresh /\ Unbound /\ Pending /\ ConnectFirst
  BY DEF OneBound, Fresh, Unbound, Pending, ConnectFirst, Idle, NoJob, ByHand
<1>5. JobNewer /\ Noted /\ NotStale /\ OneDeploys /\ NotOver
  BY DEF JobNewer, Noted, NotStale, OneDeploys, NotOver, InLine, Deploying, ByHand
<1>6. Answered /\ Disconnects /\ Owes
  BY DEF Answered, Disconnects, Owes
<1> QED
  BY <1>1, <1>2, <1>3, <1>4, <1>5, <1>6 DEF GitIInv

LEMMA GitStepKeeps == ASSUME GitIInv, [GitNext]_gitVars PROVE GitIInv'
<1>1. CASE UNCHANGED gitVars
  BY <1>1, StutterKeeps
<1>2. ASSUME NEW b \in Binding, NEW c \in Commit, Push(b, c) PROVE GitIInv'
  BY <1>2, PushKeeps
<1>3. ASSUME NEW b \in Binding, NEW c \in Commit, PushHeld(b, c) PROVE GitIInv'
  BY <1>3, PushHeldKeeps
<1>4. CASE BuildAbroad
  BY <1>4, BuildAbroadKeeps
<1>5. CASE BuildAbroadEnds
  BY <1>5, BuildAbroadEndsKeeps
<1>6. ASSUME NEW b \in Binding, BuildEnds(b) PROVE GitIInv'
  BY <1>6, BuildEndsKeeps
<1>7. ASSUME NEW b \in Binding, BuildFails(b) PROVE GitIInv'
  BY <1>7, BuildFailsKeeps
<1>8. ASSUME NEW b \in Binding, DeployFromGit(b) PROVE GitIInv'
  BY <1>8, DeployFromGitKeeps
<1>9. ASSUME NEW b \in Binding, ContainerReplaced(b) PROVE GitIInv'
  BY <1>9, ContainerReplacedKeeps
<1>10. ASSUME NEW b \in Binding, Deployed(b) PROVE GitIInv'
  BY <1>10, DeployedKeeps
<1>11. ASSUME NEW b \in Binding, DeployFails(b) PROVE GitIInv'
  BY <1>11, DeployFailsKeeps
<1>12. ASSUME NEW b \in Binding, RunnerTurns(b) PROVE GitIInv'
  BY <1>12, RunnerTurnsKeeps
<1>13. ASSUME NEW b \in Binding, RunnerHolds(b) PROVE GitIInv'
  BY <1>13, RunnerHoldsKeeps
<1>14. ASSUME NEW b \in Binding, Connect(b) PROVE GitIInv'
  BY <1>14, ConnectKeeps
<1>15. ASSUME NEW b \in Binding, ConnectBuilds(b) PROVE GitIInv'
  BY <1>15, ConnectBuildsKeeps
<1>16. ASSUME NEW b \in Binding, Disconnect(b) PROVE GitIInv'
  BY <1>16, DisconnectKeeps
<1>17. ASSUME NEW b \in Binding, DisconnectAnswers(b) PROVE GitIInv'
  BY <1>17, DisconnectAnswersKeeps
<1>18. CASE ServiceRemoved
  BY <1>18, ServiceRemovedKeeps
<1>19. CASE ServiceRenamed
  BY <1>19, ServiceRenamedKeeps
<1>20. CASE Closes
  BY <1>20, ClosesKeeps
<1>21. CASE Restarts
  BY <1>21, RestartsKeeps
<1> QED
  BY <1>1, <1>2, <1>3, <1>4, <1>5, <1>6, <1>7, <1>8, <1>9, <1>10, <1>11, <1>12, <1>13, <1>14,
     <1>15, <1>16, <1>17, <1>18, <1>19, <1>20, <1>21 DEF GitNext, RunnerSteps

THEOREM GitInvariant == GitSpec => []GitIInv
<1>1. GitInit => GitIInv
  BY GitInitHolds
<1>2. GitIInv /\ [GitNext]_gitVars => GitIInv'
  BY GitStepKeeps
<1> QED
  BY <1>1, <1>2, PTL DEF GitSpec

-----------------------------------------------------------------------------
(* What it gives.                                                          *)

(* Every variable of the runners, the slots and the bindings keeps its     *)
(* type (server.ts 1270-1523).                                             *)
THEOREM GitTypesHold == GitSpec => []GitTypeOK
<1>1. GitIInv => GitTypeOK
  BY DEF GitIInv
<1> QED
  BY <1>1, GitInvariant, PTL

(* A slot is never lost nor given twice, whichever way a build ends, and   *)
(* none is free while a build waits (server.ts 1307-1329).                 *)
THEOREM SlotsAreGivenBack == GitSpec => []SlotsAccounted
<1>1. GitIInv => SlotsAccounted
  BY DEF GitIInv, SlotsAccounted, SlotCount, Building, LineFits, Line, Queued, NoneFree
<1> QED
  BY <1>1, GitInvariant, PTL

(* Coalescing drops a push only for a newer one: a runner at rest has      *)
(* deployed the newest that was not given up aloud (server.ts 1414-1442).  *)
THEOREM NewestPushIsDeployed == GitSpec => []NewestPushDeployed
<1>1. GitIInv => NewestPushDeployed
  BY DEF GitIInv, GitTypeOK, NewestPushDeployed, Owes, Pending, Idle, InLine, Running, Job,
     Commit, NoJob
<1> QED
  BY <1>1, GitInvariant, PTL

(* No order of deliveries and restarts lets an older push replace a newer  *)
(* one that is noted (the look at lastDeployedAt, server.ts 1371-1375).    *)
THEOREM OlderPushesLose == GitSpec => NewestPushWins
<1> DEFINE Wins == live.of = live'.of /\ live.noted /\ live.job \in Commit /\ live'.job # live.job
                     => live'.job > live.job
<1>1. ASSUME GitIInv, [GitNext]_gitVars PROVE live' = live \/ \E b \in Binding : ContainerReplaced(b) \/ Deployed(b)
  BY <1>1 DEF GitNext, RunnerSteps, gitVars, Push, PushHeld, BuildAbroad, BuildAbroadEnds,
     BuildEnds,
     BuildFails, DeployFromGit, DeployFails, RunnerTurns, RunnerHolds, Connect, ConnectBuilds,
     Disconnect, DisconnectAnswers, ServiceRemoved, ServiceRenamed, Closes, Restarts
<1>2. ASSUME GitIInv, NEW b \in Binding, ContainerReplaced(b) PROVE Wins
  <2>1. InLine(b) /\ live'.of = b /\ live'.job = job[b]
    BY <1>2 DEF ContainerReplaced, InLine, Image
  <2> QED
    BY <1>2, <2>1 DEF GitIInv, JobNewer, Commit
<1>3. ASSUME GitIInv, NEW b \in Binding, Deployed(b) PROVE Wins
  BY <1>3 DEF GitIInv, GitTypeOK, Deployed
<1>4. ASSUME GitIInv, [GitNext]_gitVars PROVE [Wins]_gitVars
  BY <1>1, <1>2, <1>3, <1>4
<1> QED
  BY <1>4, GitInvariant, PTL DEF GitSpec, NewestPushWins

(* The binding is looked at again under the service's lock: no build of a  *)
(* disconnected or replaced one lands (engine.ts 1062-1081).               *)
THEOREM UnboundBuildsDoNotLand == GitSpec => UnboundNeverDeploys
<1> DEFINE Lands == live' # live /\ live'.of \in Binding =>
                      /\ live'.of \notin answered
                      /\ live.of # live'.of /\ live.of \in Binding => bound[live.of] # "bound"
<1>1. ASSUME GitIInv, [GitNext]_gitVars PROVE live' = live \/ \E b \in Binding : ContainerReplaced(b) \/ Deployed(b)
  BY <1>1 DEF GitNext, RunnerSteps, gitVars, Push, PushHeld, BuildAbroad, BuildAbroadEnds,
     BuildEnds,
     BuildFails, DeployFromGit, DeployFails, RunnerTurns, RunnerHolds, Connect, ConnectBuilds,
     Disconnect, DisconnectAnswers, ServiceRemoved, ServiceRenamed, Closes, Restarts
<1>2. ASSUME GitIInv, NEW b \in Binding, ContainerReplaced(b) \/ Deployed(b) PROVE Lands
  <2>1. Deploying(b) /\ ~Idle(b) /\ live'.of = b
    BY <1>2 DEF ContainerReplaced, Deployed, Deploying, Idle, Image, GitIInv, GitTypeOK
  <2> QED
    BY <1>2, <2>1 DEF GitIInv, Answered, NotOver
<1>3. ASSUME GitIInv, [GitNext]_gitVars PROVE [Lands]_gitVars
  BY <1>1, <1>2, <1>3
<1> QED
  BY <1>3, GitInvariant, PTL DEF GitSpec, UnboundNeverDeploys

(* Neither the order of deliveries nor a disconnect is ever undone by a    *)
(* late deploy.                                                            *)
THEOREM DeploysAreInOrder == GitSpec => DeploysStayInOrder
BY OlderPushesLose, UnboundBuildsDoNotLand DEF DeploysStayInOrder
=============================================================================
