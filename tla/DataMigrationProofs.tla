------------------------- MODULE DataMigrationProofs -------------------------
(***************************************************************************)
(* Proofs about DataMigration, for every set of data paths and every       *)
(* number of faults and writes: types, that a whole copy of every          *)
(* directory exists at every moment, that no database is copied under a    *)
(* live writer, and that a managed database loses no write.  Last what a   *)
(* boot that was cut leaves for the next: the rows of a stamped branch     *)
(* name containers that exist, and a boot without a fault stamps.          *)
(***************************************************************************)
EXTENDS DataMigration, TLAPS

Copying == {"stage", "copy", "clear", "rename"}

(* Where the boot stands.  The places left to copy belong to the service   *)
(* in hand, the one under way among them.                                  *)
Standing ==
  /\ arm \in Arm /\ phase \in Phase /\ at \in Place /\ todo \subseteq Place
  /\ phase \in Copying => todo \subseteq PlacesOf(arm)
  /\ phase \in {"copy", "clear", "rename"} => at \in todo
  /\ phase \in {"deploy", "keep", "rmvol"} => arm = "vol"
  /\ phase \in {"stop", "drop", "replace", "run", "settle", "row"} => arm # "vol"

(* The bytes, at most one version newer for every write; the container of  *)
(* a database holds its legacy storage for as long as it exists.           *)
Storage ==
  /\ src \in [Place -> Int] /\ stage \in [Place -> Int] /\ dst \in [Place -> Int]
  /\ \A p \in Place : src[p] \in 0..(1 + writes)
  /\ \A p \in Place : stage[p] \in -1..(1 + writes) /\ dst[p] \in -1..(1 + writes)
  /\ writes \in 0..MaxWrites
  /\ old \in [Arm -> {"gone", "down", "up"}]
  /\ new \in [Arm -> {"gone", "down", "up"}]
  /\ \A a \in {"pg", "md"} : old[a] # "gone" => \A p \in PlacesOf(a) : Whole(src[p])
  /\ phase = "stop" => old[arm] # "gone"

(* Why a source may go: the copies behind the current point are whole.     *)
Covered ==
  /\ phase \in {"stop"} \cup Copying => \A p \in PlacesOf(arm) : Whole(src[p])
  /\ phase \in Copying => \A p \in PlacesOf(arm) \ todo : Whole(dst[p])
  /\ phase \in {"clear", "rename"} => Whole(stage[at])
  /\ phase = "drop" => \A p \in PlacesOf(arm) : Whole(dst[p])
  /\ phase = "deploy" => Whole(dst["vol"])
  /\ phase = "keep" => kept
  /\ phase \in Copying /\ arm = "vol" => new["vol"] = "gone"
  /\ phase = "rmvol" \/ new["vol"] # "gone" => Whole(dst["vol"]) \/ kept

(* Of a managed database the copies are also no older than their source,   *)
(* which is at rest from the stop to the removal.                          *)
Current ==
  arm = "md" =>
    /\ phase \in Copying => \A p \in MdPath \ todo : dst[p] >= src[p]
    /\ phase \in {"clear", "rename"} => stage[at] >= src[at]
    /\ phase = "drop" => \A p \in MdPath : dst[p] >= src[p]

MigrationInv == Standing /\ Storage /\ Covered /\ SomeWholeCopy /\ SourceAtRest /\ Current

Counted == row \in {"legacy", "fresh"} /\ faults \in 0..MaxFaults

Flags ==
  /\ renamed \in BOOLEAN /\ stamped \in BOOLEAN /\ up \in BOOLEAN
  /\ kept \in BOOLEAN /\ clean \in BOOLEAN

-----------------------------------------------------------------------------
LEMMA Arms ==
  /\ "pg" \in Arm /\ "vol" \in Arm /\ "md" \in Arm
  /\ PlacesOf("pg") = {"pg"} /\ PlacesOf("vol") = {"vol"} /\ PlacesOf("md") = MdPath
  /\ Place = {"pg", "vol"} \cup MdPath
  /\ "pg" \notin MdPath /\ "vol" \notin MdPath
  /\ \A a \in Arm : PlacesOf(a) \subseteq Place
BY DataMigrationAssumption DEF Arm, PlacesOf, Place

LEMMA InitMigrationInv == Init => MigrationInv /\ Counted /\ Flags
<1> SUFFICES ASSUME Init PROVE MigrationInv /\ Counted /\ Flags
  OBVIOUS
<1>1. Standing
  BY Arms DEF Init, Standing, Phase, Copying
<1>2. Storage
  BY Arms, DataMigrationAssumption DEF Init, Storage, Whole, Partial, Missing
<1>3. Covered /\ SourceAtRest /\ Current
  BY Arms DEF Init, Covered, SourceAtRest, Current, Copying
<1>4. SomeWholeCopy
  BY DEF Init, SomeWholeCopy, Whole
<1>5. Counted
  BY DataMigrationAssumption DEF Init, Counted
<1>6. Flags
  BY Zenon DEF Init, Flags
<1> QED
  BY <1>1, <1>2, <1>3, <1>4, <1>5, <1>6 DEF MigrationInv

(* The daemon's place in its boot stays well formed. *)
LEMMA StandingStep ==
  ASSUME Standing, [Next]_vars
  PROVE  Standing'
<1> USE Arms DEF Standing, Phase, Copying
<1>1. CASE Boots
  BY <1>1 DEF Boots
<1>2. CASE PgLooks
  BY <1>2 DEF PgLooks, Moves, Goes
<1>3. CASE VolLooks
  BY <1>3 DEF VolLooks, Moves, Goes
<1>4. CASE MdLooks
  BY <1>4 DEF MdLooks, Moves, Goes
<1>5. CASE LookFails
  BY <1>5 DEF LookFails, Fails
<1>6. CASE StopForCopy
  BY <1>6 DEF StopForCopy, Goes, Fails
<1>7. CASE CopyStages
  BY <1>7 DEF CopyStages, Goes
<1>8. CASE CopyEnds
  BY <1>8 DEF CopyEnds, Goes, Fails
<1>9. CASE TargetCleared
  BY <1>9 DEF TargetCleared, Goes
<1>10. CASE StagePromoted
  BY <1>10 DEF StagePromoted, Goes
<1>11. CASE SourceDropped
  BY <1>11 DEF SourceDropped, Goes
<1>12. CASE LeftoverReplaced \/ ContainerRuns
  BY <1>12 DEF LeftoverReplaced, ContainerRuns, Goes, Fails
<1>13. CASE IntentSettled \/ PgRowWritten
  BY <1>13 DEF IntentSettled, PgRowWritten, Goes, Moves
<1>14. CASE VolRedeployed \/ VolumeRemoved
  BY <1>14 DEF VolRedeployed, VolumeRemoved, Goes, Moves, Fails
<1>15. CASE Stamps \/ LegacyRenamed
  BY <1>15 DEF Stamps, LegacyRenamed, Goes
<1>16. CASE Dies
  BY <1>16 DEF Dies
<1>17. CASE \E a \in Arm : Wakes(a) \/ Writes(a)
  BY <1>17 DEF Wakes, Writes
<1>18. CASE UNCHANGED vars
  BY <1>18 DEF vars
<1> QED
  BY <1>1, <1>2, <1>3, <1>4, <1>5, <1>6, <1>7, <1>8, <1>9, <1>10, <1>11, <1>12, <1>13,
     <1>14, <1>15, <1>16, <1>17, <1>18 DEF Next

(* The bytes stay in range, and behind a database container whole. *)
LEMMA StorageStep ==
  ASSUME Standing, Storage, [Next]_vars
  PROVE  Storage'
<1> USE Arms DEF Standing, Storage, Whole, Partial, Missing
<1>1. CASE Boots \/ PgLooks \/ VolLooks \/ MdLooks \/ LookFails \/ Stamps \/ Dies
            \/ PgRowWritten \/ LegacyRenamed
  BY <1>1 DEF Boots, PgLooks, VolLooks, MdLooks, LookFails, Stamps, Dies, PgRowWritten,
              LegacyRenamed, containers, bytes, Goes, Moves, Fails, LegacyExists
<1>2. CASE StopForCopy
  <2>1. old' \in [Arm -> {"gone", "down", "up"}] /\ \A a \in Arm : old'[a] # "gone" => old[a] # "gone"
    BY <1>2 DEF StopForCopy, Old
  <2> QED
    BY <1>2, <2>1 DEF StopForCopy, bytes, Goes, Fails
<1>3. CASE CopyStages
  BY <1>3 DEF CopyStages, containers, Goes
<1>4. CASE CopyEnds
  <2>1. /\ stage' \in [Place -> Int]
        /\ \A p \in Place : stage'[p] \in -1..(1 + writes)
    <3>1. CASE stage' = [stage EXCEPT ![at] = src[at]]
      BY <3>1
    <3>2. CASE stage' = stage
      BY <3>2
    <3> QED
      BY <1>4, <3>1, <3>2 DEF CopyEnds
  <2> QED
    BY <1>4, <2>1 DEF CopyEnds, containers, Goes, Fails
<1>5. CASE TargetCleared
  BY <1>5 DEF TargetCleared, containers, Goes
<1>6. CASE StagePromoted
  BY <1>6 DEF StagePromoted, containers, Goes
<1>7. CASE SourceDropped
  <2>1. CASE UNCHANGED <<old, src>>
    BY <1>7, <2>1 DEF SourceDropped, Goes
  <2>2. CASE Old("gone") /\ src' = [p \in Place |-> IF p \in PlacesOf(arm) THEN Missing ELSE src[p]]
    <3>1. /\ src' \in [Place -> Int] /\ \A p \in Place : src'[p] \in 0..(1 + writes)
          /\ \A p \in Place : p \notin PlacesOf(arm) => src'[p] = src[p]
      BY <2>2
    <3>2. /\ old' \in [Arm -> {"gone", "down", "up"}]
          /\ \A a \in Arm : old'[a] # "gone" => old[a] # "gone" /\ a # arm
      BY <2>2 DEF Old
    <3>3. \A a \in {"pg", "md"} : a # arm => \A p \in PlacesOf(a) : p \notin PlacesOf(arm)
      BY DEF Arm
    <3> QED
      BY <1>7, <3>1, <3>2, <3>3 DEF SourceDropped, Goes
  <2> QED
    BY <1>7, <2>1, <2>2 DEF SourceDropped
<1>8. CASE LeftoverReplaced \/ ContainerRuns \/ IntentSettled
  BY <1>8 DEF LeftoverReplaced, ContainerRuns, IntentSettled, New, bytes, Goes, Moves, Fails
<1>9. CASE VolRedeployed
  BY <1>9 DEF VolRedeployed, Old, New, bytes, Goes, Moves, Fails
<1>10. CASE VolumeRemoved
  <2>1. src' \in [Place -> Int] /\ \A p \in Place : src'[p] = src[p] \/ (p = "vol" /\ src'[p] = 0)
    <3>1. CASE src' = [src EXCEPT !["vol"] = Missing]
      BY <3>1
    <3>2. CASE src' = src
      BY <3>2
    <3> QED
      BY <1>10, <3>1, <3>2 DEF VolumeRemoved
  <2>2. UNCHANGED <<old, new, stage, dst, writes>> /\ phase' \in {"look", "stamp"}
    BY <1>10 DEF VolumeRemoved, Moves, containers
  <2>3. \A a \in {"pg", "md"} : old'[a] # "gone" => \A p \in PlacesOf(a) : Whole(src'[p])
    BY <2>1, <2>2
  <2> QED
    BY <2>1, <2>2, <2>3
<1>11. ASSUME NEW a \in Arm, Wakes(a)
       PROVE  Storage'
  BY <1>11 DEF Wakes, bytes
<1>12. ASSUME NEW a \in Arm, Writes(a)
       PROVE  Storage'
  <2>1. /\ writes' \in 0..MaxWrites /\ writes' = writes + 1
        /\ UNCHANGED <<old, new, stage, phase, arm>>
    BY <1>12, DataMigrationAssumption DEF Writes, containers
  <2> PICK p \in PlacesOf(a) :
         \/ Whole(src[p]) /\ src' = [src EXCEPT ![p] = @ + 1] /\ UNCHANGED dst
         \/ Whole(dst[p]) /\ dst' = [dst EXCEPT ![p] = @ + 1] /\ UNCHANGED src
    BY <1>12 DEF Writes
  <2>2. p \in Place
    OBVIOUS
  <2>3. /\ src' \in [Place -> Int] /\ dst' \in [Place -> Int]
        /\ \A q \in Place : src'[q] \in src[q]..(src[q] + 1) /\ dst'[q] \in dst[q]..(dst[q] + 1)
    <3>1. CASE src' = [src EXCEPT ![p] = @ + 1] /\ dst' = dst
      BY <2>2, <3>1
    <3>2. CASE dst' = [dst EXCEPT ![p] = @ + 1] /\ src' = src
      BY <2>2, <3>2
    <3> QED
      BY <3>1, <3>2
  <2>4. \A q \in Place : src'[q] \in 0..(1 + writes') /\ dst'[q] \in -1..(1 + writes')
                            /\ stage'[q] \in -1..(1 + writes') /\ src'[q] >= src[q]
    BY <2>1, <2>3
  <2>5. \A b \in {"pg", "md"} : old'[b] # "gone" => \A q \in PlacesOf(b) : Whole(src'[q])
    <3> SUFFICES ASSUME NEW b \in {"pg", "md"}, old[b] # "gone", NEW q \in PlacesOf(b)
                 PROVE  src'[q] >= 1
      BY <2>1
    <3>1. q \in Place /\ src[q] >= 1
      OBVIOUS
    <3> QED
      BY <3>1, <2>3
  <2>6. phase' = "stop" => old'[arm'] # "gone"
    BY <2>1
  <2> HIDE DEF Whole
  <2> QED
    BY <2>1, <2>3, <2>4, <2>5, <2>6
<1>13. CASE UNCHANGED vars
  BY <1>13 DEF vars, containers, bytes
<1> QED
  BY <1>1, <1>2, <1>3, <1>4, <1>5, <1>6, <1>7, <1>8, <1>9, <1>10, <1>11, <1>12, <1>13
  DEF Next

LEMMA CountedStep ==
  ASSUME Counted, [Next]_vars
  PROVE  Counted'
<1> USE DataMigrationAssumption DEF Counted, Fault, NoFault
<1>1. CASE Boots
  BY <1>1 DEF Boots, containers
<1>2. CASE PgLooks
  BY <1>2 DEF PgLooks, containers
<1>3. CASE VolLooks
  BY <1>3 DEF VolLooks, containers
<1>4. CASE MdLooks
  BY <1>4 DEF MdLooks, containers
<1>5. CASE LookFails \/ StopForCopy
  BY <1>5 DEF LookFails, StopForCopy, containers
<1>6. CASE CopyStages \/ CopyEnds \/ TargetCleared
  BY <1>6 DEF CopyStages, CopyEnds, TargetCleared, containers
<1>7. CASE StagePromoted \/ SourceDropped
  BY <1>7 DEF StagePromoted, SourceDropped, containers
<1>8. CASE LeftoverReplaced \/ ContainerRuns \/ IntentSettled \/ PgRowWritten
  BY <1>8 DEF LeftoverReplaced, ContainerRuns, IntentSettled, PgRowWritten, containers
<1>9. CASE VolRedeployed \/ VolumeRemoved \/ Stamps \/ LegacyRenamed
  BY <1>9 DEF VolRedeployed, VolumeRemoved, Stamps, LegacyRenamed, containers
<1>10. CASE Dies
  BY <1>10 DEF Dies, containers
<1>11. CASE \E a \in Arm : Wakes(a) \/ Writes(a)
  BY <1>11 DEF Wakes, Writes, containers
<1>12. CASE UNCHANGED vars
  BY <1>12 DEF vars, containers
<1> QED
  BY <1>1, <1>2, <1>3, <1>4, <1>5, <1>6, <1>7, <1>8, <1>9, <1>10, <1>11, <1>12
  DEF Next

LEMMA FlagsStep ==
  ASSUME Flags, [Next]_vars
  PROVE  Flags'
<1> USE DEF Flags, Fault, NoFault
<1>1. CASE Boots
  BY <1>1, Zenon DEF Boots, containers
<1>2. CASE PgLooks
  BY <1>2, Zenon DEF PgLooks, containers
<1>3. CASE VolLooks
  BY <1>3, Zenon DEF VolLooks, containers
<1>4. CASE MdLooks
  BY <1>4, Zenon DEF MdLooks, containers
<1>5. CASE LookFails \/ StopForCopy
  BY <1>5, Zenon DEF LookFails, StopForCopy, containers
<1>6. CASE CopyStages \/ CopyEnds \/ TargetCleared
  BY <1>6, Zenon DEF CopyStages, CopyEnds, TargetCleared, containers
<1>7. CASE StagePromoted \/ SourceDropped
  BY <1>7, Zenon DEF StagePromoted, SourceDropped, containers
<1>8. CASE LeftoverReplaced \/ ContainerRuns \/ IntentSettled \/ PgRowWritten
  BY <1>8, Zenon DEF LeftoverReplaced, ContainerRuns, IntentSettled, PgRowWritten, containers
<1>9. CASE VolRedeployed \/ VolumeRemoved \/ Stamps \/ LegacyRenamed
  BY <1>9, Zenon DEF VolRedeployed, VolumeRemoved, Stamps, LegacyRenamed, containers
<1>10. CASE Dies
  BY <1>10, Zenon DEF Dies, containers
<1>11. CASE \E a \in Arm : Wakes(a) \/ Writes(a)
  BY <1>11, Zenon DEF Wakes, Writes, containers
<1>12. CASE UNCHANGED vars
  BY <1>12, Zenon DEF vars, containers
<1> QED
  BY <1>1, <1>2, <1>3, <1>4, <1>5, <1>6, <1>7, <1>8, <1>9, <1>10, <1>11, <1>12
  DEF Next

SomeWrite == \E a \in Arm : Writes(a)

(* A write makes one copy newer, that of a running container.              *)
LEMMA WritesGrow ==
  ASSUME Standing, Storage, SomeWrite
  PROVE  /\ \A q \in Place : src'[q] >= src[q] /\ dst'[q] >= dst[q]
         /\ \A q \in Place : (\A a \in Arm : q \in PlacesOf(a) => old[a] # "up") => src'[q] = src[q]
<1> PICK a \in Arm : Writes(a)
  BY DEF SomeWrite
<1> PICK p \in PlacesOf(a) :
       \/ old[a] = "up" /\ src' = [src EXCEPT ![p] = @ + 1] /\ dst' = dst
       \/ dst' = [dst EXCEPT ![p] = @ + 1] /\ src' = src
  BY DEF Writes
<1>1. p \in Place
  BY Arms
<1>2. CASE old[a] = "up" /\ src' = [src EXCEPT ![p] = @ + 1] /\ dst' = dst
  BY <1>1, <1>2 DEF Storage
<1>3. CASE dst' = [dst EXCEPT ![p] = @ + 1] /\ src' = src
  BY <1>1, <1>3 DEF Storage
<1> QED
  BY <1>2, <1>3

LEMMA WritesOnly ==
  ASSUME SomeWrite
  PROVE  UNCHANGED <<old, new, stage, phase, arm, at, todo, kept>>
BY DEF SomeWrite, Writes, containers

(* A source is behind every copy under way, a whole copy behind every      *)
(* removal.                                                                *)
LEMMA CoveredStep ==
  ASSUME Standing, Storage, Covered, [Next]_vars
  PROVE  Covered'
<1> USE Arms DEF Covered, Standing, Phase, Copying
<1>1. CASE Boots \/ LookFails \/ Stamps \/ LegacyRenamed \/ Dies
  BY <1>1 DEF Boots, LookFails, Stamps, LegacyRenamed, Dies, Goes, Fails, containers, bytes
<1>2. CASE PgLooks
  BY <1>2 DEF PgLooks, LegacyExists, Goes, Moves, containers, bytes, Storage
<1>3. CASE VolLooks
  <2>1. src["vol"] # Missing => Whole(src["vol"])
    BY DEF Storage, Whole, Missing
  <2> QED
    BY <1>3, <2>1 DEF VolLooks, Goes, Moves, containers, bytes
<1>4. CASE MdLooks
  BY <1>4 DEF MdLooks, Goes, Moves, containers, bytes, Storage
<1>5. CASE StopForCopy
  BY <1>5 DEF StopForCopy, PgDataComplete, Goes, Fails, bytes
<1>6. CASE CopyStages
  BY <1>6 DEF CopyStages, Goes, containers
<1>7. CASE CopyEnds
  BY <1>7 DEF CopyEnds, Goes, Fails, containers, Storage
<1>8. CASE TargetCleared
  <2>1. \A q \in Place : q # at => dst'[q] = dst[q]
    BY <1>8 DEF TargetCleared, Storage
  <2>2. at \in todo /\ at \in PlacesOf(arm) /\ (at = "vol" => arm = "vol")
    BY <1>8 DEF TargetCleared, Arm
  <2>3. phase' = "rename" /\ UNCHANGED <<new, kept, src, stage, arm, at, todo>>
    BY <1>8 DEF TargetCleared, Goes, containers
  <2>4. \A q \in PlacesOf(arm) \ todo : Whole(dst'[q])
    BY <1>8, <2>1, <2>2 DEF TargetCleared
  <2>5. new["vol"] # "gone" => Whole(dst'["vol"]) \/ kept
    BY <1>8, <2>1, <2>2 DEF TargetCleared
  <2> QED
    BY <1>8, <2>3, <2>4, <2>5 DEF TargetCleared
<1>9. CASE StagePromoted
  <2>1. /\ dst' \in [Place -> Int] /\ Whole(dst'[at])
        /\ \A q \in Place : Whole(dst[q]) => Whole(dst'[q])
    BY <1>9 DEF StagePromoted, Storage
  <2>2. \A q \in PlacesOf(arm) \ todo' : Whole(dst'[q])
    BY <1>9, <2>1 DEF StagePromoted
  <2>3. todo' = {} \/ phase' = "stage"
    BY <1>9 DEF StagePromoted, Goes
  <2>4. UNCHANGED <<new, kept, src, arm>> /\ phase' \in {"stage", "deploy", "drop"}
        /\ (phase' = "deploy" => arm = "vol")
    BY <1>9 DEF StagePromoted, Goes, containers
  <2>5. new["vol"] # "gone" => Whole(dst'["vol"]) \/ kept
    BY <1>9, <2>1 DEF StagePromoted
  <2>6. phase' = "deploy" => Whole(dst'["vol"])
    BY <2>2, <2>3, <2>4
  <2>7. phase' = "drop" => \A q \in PlacesOf(arm) : Whole(dst'[q])
    BY <2>2, <2>3
  <2>8. arm = "vol" => new["vol"] = "gone"
    BY <1>9 DEF StagePromoted
  <2>9. phase' = "stage" => \A q \in PlacesOf(arm) : Whole(src[q])
    BY <1>9 DEF StagePromoted
  <2> QED
    BY <2>2, <2>4, <2>5, <2>6, <2>7, <2>8, <2>9
<1>10. CASE SourceDropped
  BY <1>10 DEF SourceDropped, Goes
<1>11. CASE LeftoverReplaced \/ ContainerRuns \/ IntentSettled
  BY <1>11 DEF LeftoverReplaced, ContainerRuns, IntentSettled, New, Goes, Moves, Fails, bytes, Storage
<1>12. CASE PgRowWritten
  BY <1>12 DEF PgRowWritten, Moves, bytes
<1>13. CASE VolRedeployed
  BY <1>13 DEF VolRedeployed, Goes, Moves, Fails, bytes
<1>14. CASE VolumeRemoved
  BY <1>14 DEF VolumeRemoved, Moves, containers
<1>15. ASSUME NEW a \in Arm, Wakes(a)
       PROVE  Covered'
  BY <1>15 DEF Wakes, bytes, Storage
<1>16. CASE SomeWrite
  <2>1. \A q \in Place : (Whole(src[q]) => Whole(src'[q])) /\ (Whole(dst[q]) => Whole(dst'[q]))
    BY <1>16, WritesGrow DEF Whole, Storage, SomeWrite, Writes
  <2> QED
    BY <1>16, WritesOnly, <2>1
<1>17. CASE UNCHANGED vars
  BY <1>17 DEF vars, containers, bytes
<1> QED
  BY <1>1, <1>2, <1>3, <1>4, <1>5, <1>6, <1>7, <1>8, <1>9, <1>10, <1>11, <1>12, <1>13,
     <1>14, <1>15, <1>16, <1>17 DEF Next, SomeWrite

(* The invariant the proofs are for. *)
LEMMA SomeWholeCopyStep ==
  ASSUME Standing, Storage, Covered, SomeWholeCopy, [Next]_vars
  PROVE  SomeWholeCopy'
<1> USE Arms DEF SomeWholeCopy
<1>1. CASE UNCHANGED <<src, dst, kept>>
  BY <1>1
<1>2. CASE UNCHANGED <<src, dst>> /\ (kept => kept')
  BY <1>2
<1>3. CASE VolLooks
  BY <1>3, <1>2 DEF VolLooks, bytes
<1>4. CASE TargetCleared
  <2>1. Whole(src[at]) /\ at \in Place
    BY <1>4 DEF TargetCleared, Covered, Copying, Standing
  <2>2. \A q \in Place : q # at => dst'[q] = dst[q]
    BY <1>4 DEF TargetCleared, Storage
  <2> QED
    BY <1>4, <2>1, <2>2 DEF TargetCleared
<1>5. CASE StagePromoted
  <2>1. Whole(dst'[at]) /\ at \in Place
    BY <1>5 DEF StagePromoted, Covered, Standing, Storage
  <2>2. \A q \in Place : q # at => dst'[q] = dst[q]
    BY <1>5 DEF StagePromoted, Storage
  <2> QED
    BY <1>5, <2>1, <2>2 DEF StagePromoted
<1>6. CASE SourceDropped
  <2>1. \A q \in Place : Whole(dst[q]) \/ src'[q] = src[q]
    BY <1>6 DEF SourceDropped, Covered, Storage
  <2> QED
    BY <1>6, <2>1 DEF SourceDropped
<1>7. CASE VolumeRemoved
  <2>1. \A q \in Place : q = "vol" \/ src'[q] = src[q]
    BY <1>7 DEF VolumeRemoved, Storage
  <2>2. Whole(dst["vol"]) \/ kept
    BY <1>7 DEF VolumeRemoved, Covered
  <2> QED
    BY <1>7, <2>1, <2>2 DEF VolumeRemoved
<1>8. CASE SomeWrite
  <2>1. \A q \in Place : (Whole(src[q]) => Whole(src'[q])) /\ (Whole(dst[q]) => Whole(dst'[q]))
    BY <1>8, WritesGrow DEF Whole, Storage, SomeWrite, Writes
  <2> QED
    BY <1>8, WritesOnly, <2>1
<1>9. CASE Boots \/ PgLooks \/ MdLooks \/ LookFails \/ StopForCopy \/ CopyStages \/ CopyEnds
  BY <1>9, <1>1 DEF Boots, PgLooks, MdLooks, LookFails, StopForCopy, CopyStages, CopyEnds, bytes
<1>10. CASE LeftoverReplaced \/ ContainerRuns \/ IntentSettled \/ PgRowWritten \/ VolRedeployed
  BY <1>10, <1>1 DEF LeftoverReplaced, ContainerRuns, IntentSettled, PgRowWritten, VolRedeployed, bytes
<1>11. CASE Stamps \/ LegacyRenamed \/ Dies \/ \E a \in Arm : Wakes(a)
  BY <1>11, <1>1 DEF Stamps, LegacyRenamed, Dies, Wakes, bytes
<1>12. CASE UNCHANGED vars
  BY <1>12, <1>1 DEF vars, bytes
<1> QED
  BY <1>3, <1>4, <1>5, <1>6, <1>7, <1>8, <1>9, <1>10, <1>11, <1>12 DEF Next, SomeWrite

(* A database is down from the stop that was believed to its removal. *)
LEMMA SourceAtRestStep ==
  ASSUME Standing, Storage, SourceAtRest, [Next]_vars
  PROVE  SourceAtRest'
<1> USE DEF SourceAtRest
<1>1. CASE Boots \/ PgLooks \/ VolLooks \/ MdLooks \/ LookFails
  BY <1>1 DEF Boots, PgLooks, VolLooks, MdLooks, LookFails, Goes, Moves, Fails, containers
<1>2. CASE StopForCopy
  BY <1>2 DEF StopForCopy, Old, Goes, Fails, Storage, Standing
<1>3. CASE CopyStages \/ CopyEnds \/ TargetCleared \/ StagePromoted
  BY <1>3 DEF CopyStages, CopyEnds, TargetCleared, StagePromoted, Goes, Fails, containers
<1>4. CASE SourceDropped
  BY <1>4 DEF SourceDropped, Goes
<1>5. CASE LeftoverReplaced \/ ContainerRuns \/ IntentSettled \/ PgRowWritten
  BY <1>5 DEF LeftoverReplaced, ContainerRuns, IntentSettled, PgRowWritten, Goes, Moves, Fails
<1>6. CASE VolRedeployed \/ VolumeRemoved \/ Stamps \/ LegacyRenamed \/ Dies
  BY <1>6 DEF VolRedeployed, VolumeRemoved, Stamps, LegacyRenamed, Dies, Goes, Moves, Fails, containers
<1>7. CASE (\E a \in Arm : Wakes(a) \/ Writes(a)) \/ UNCHANGED vars
  BY <1>7 DEF Wakes, Writes, vars, containers
<1> QED
  BY <1>1, <1>2, <1>3, <1>4, <1>5, <1>6, <1>7 DEF Next

(* The copies of a managed database are as new as their resting source. *)
LEMMA CurrentStep ==
  ASSUME Standing, Storage, SourceAtRest, Current, [Next]_vars
  PROVE  Current'
<1> USE Arms DEF Current, Standing, Copying, Phase
<1>1. CASE Boots \/ PgLooks \/ VolLooks \/ MdLooks \/ LookFails
  BY <1>1 DEF Boots, PgLooks, VolLooks, MdLooks, LookFails, Goes, Moves, Fails, bytes
<1>2. CASE StopForCopy
  BY <1>2 DEF StopForCopy, Goes, Fails, bytes
<1>3. CASE CopyStages
  BY <1>3 DEF CopyStages, Goes
<1>4. CASE CopyEnds
  BY <1>4 DEF CopyEnds, Goes, Fails, Storage
<1>5. CASE TargetCleared
  <2>1. \A q \in Place : q # at => dst'[q] = dst[q]
    BY <1>5 DEF TargetCleared, Storage
  <2> QED
    BY <1>5, <2>1 DEF TargetCleared, Goes
<1>6. CASE StagePromoted
  <2> SUFFICES ASSUME arm = "md" PROVE Current'
    BY <1>6 DEF StagePromoted, Goes
  <2>1. /\ dst'[at] = stage[at] /\ stage[at] >= src[at]
        /\ \A q \in Place : q # at => dst'[q] = dst[q]
    BY <1>6 DEF StagePromoted, Storage
  <2>2. \A q \in MdPath \ todo' : dst'[q] >= src[q]
    BY <1>6, <2>1 DEF StagePromoted
  <2>3. (todo' = {} \/ phase' = "stage") /\ phase' \in {"stage", "drop"} /\ UNCHANGED src
    BY <1>6 DEF StagePromoted, Goes
  <2> QED
    BY <2>2, <2>3
<1>7. CASE SourceDropped \/ LeftoverReplaced \/ ContainerRuns \/ IntentSettled \/ PgRowWritten
  BY <1>7 DEF SourceDropped, LeftoverReplaced, ContainerRuns, IntentSettled, PgRowWritten, Goes,
              Moves, Fails
<1>8. CASE VolRedeployed \/ VolumeRemoved \/ Stamps \/ LegacyRenamed \/ Dies
  BY <1>8 DEF VolRedeployed, VolumeRemoved, Stamps, LegacyRenamed, Dies, Goes, Moves, Fails
<1>9. CASE \E a \in Arm : Wakes(a)
  BY <1>9 DEF Wakes
<1>10. CASE SomeWrite
  <2> SUFFICES ASSUME arm = "md", phase \in Copying \cup {"drop"} PROVE Current'
    BY <1>10, WritesOnly
  <2>1. old["md"] # "up"
    BY DEF SourceAtRest
  <2>2. \A q \in MdPath, a \in Arm : q \in PlacesOf(a) => a = "md"
    BY DEF Arm
  <2>3. \A q \in MdPath : src'[q] = src[q] /\ dst'[q] >= dst[q]
    <3>1. \A q \in MdPath : q \in Place
      OBVIOUS
    <3>2. /\ \A q \in Place : src'[q] >= src[q] /\ dst'[q] >= dst[q]
          /\ \A q \in Place : (\A a \in Arm : q \in PlacesOf(a) => old[a] # "up") => src'[q] = src[q]
      BY <1>10, WritesGrow
    <3> HIDE DEF Current, Standing
    <3> QED
      BY <2>1, <2>2, <3>1, <3>2
  <2>4. \A q \in MdPath : src[q] \in Int /\ dst[q] \in Int /\ dst'[q] \in Int /\ (dst[q] >= src[q] => dst'[q] >= src'[q])
    BY <1>10, <2>3, StorageStep DEF Storage, Next, SomeWrite
  <2> QED
    BY <1>10, WritesOnly, <2>3, <2>4
<1>11. CASE UNCHANGED vars
  BY <1>11 DEF vars, bytes
<1> QED
  BY <1>1, <1>2, <1>3, <1>4, <1>5, <1>6, <1>7, <1>8, <1>9, <1>10, <1>11 DEF Next, SomeWrite

LEMMA MigrationStep == MigrationInv /\ [Next]_vars => MigrationInv'
BY StandingStep, StorageStep, CoveredStep, SomeWholeCopyStep, SourceAtRestStep, CurrentStep
DEF MigrationInv

-----------------------------------------------------------------------------
(* The inductive invariant holds in every reachable state. *)
THEOREM Migration == Spec => []MigrationInv
BY InitMigrationInv, MigrationStep, PTL DEF Spec

(* Every variable keeps its type for every number of data paths, writes    *)
(* and faults.                                                             *)
THEOREM TypeCorrect == Spec => []TypeOK
<1>1. Init => Counted /\ Flags
  BY InitMigrationInv
<1>2. Counted /\ Flags /\ [Next]_vars => (Counted /\ Flags)'
  BY CountedStep, FlagsStep
<1>3. MigrationInv /\ Counted /\ Flags => TypeOK
  BY DataMigrationAssumption DEF MigrationInv, Standing, Storage, Counted, Flags, TypeOK, Bytes, Partial, Missing
<1> QED
  BY Migration, <1>1, <1>2, <1>3, PTL DEF Spec

(* migrateLegacyData, killed or failing anywhere and run again at every    *)
(* boot, always leaves a whole copy of every directory.                    *)
THEOREM SomeCopyIsWhole == Spec => []SomeWholeCopy
BY Migration, PTL DEF MigrationInv

(* stopForCopy: no database directory is copied under a live writer.       *)
THEOREM CopiedAtRest == Spec => []SourceAtRest
BY Migration, PTL DEF MigrationInv

(* migrateManaged: what the removed container held, the directories hold.  *)
THEOREM ManagedWritesKept == Spec => ManagedKeepsWrites
<1>1. ASSUME MigrationInv, [Next]_vars, NEW p \in MdPath, Whole(src[p]), ~Whole(src'[p])
      PROVE  dst[p] >= src[p]
  <2>1. p \in Place /\ p # "vol" /\ src'[p] # src[p]
    BY <1>1, Arms
  <2>2. CASE SourceDropped
    <3>1. p \in PlacesOf(arm) /\ phase = "drop"
      BY <2>1, <2>2 DEF SourceDropped
    <3>2. arm = "md"
      BY <1>1, <3>1, Arms DEF MigrationInv, Standing, Arm
    <3> QED
      BY <1>1, <3>1, <3>2 DEF MigrationInv, Current
  <2>3. CASE VolumeRemoved
    BY <1>1, <2>1, <2>3 DEF VolumeRemoved, MigrationInv, Storage
  <2>4. ASSUME SomeWrite
        PROVE  FALSE
    <3>1. Standing /\ Storage
      BY <1>1 DEF MigrationInv
    <3>2. src'[p] >= src[p]
      BY <2>1, <2>4, <3>1, WritesGrow
    <3>3. src[p] \in Int /\ src'[p] \in Int
      BY <1>1, <2>1, <3>1, StorageStep DEF Storage
    <3> QED
      BY <1>1, <3>2, <3>3 DEF Whole
  <2>5. UNCHANGED src \/ SourceDropped \/ VolumeRemoved \/ SomeWrite
    BY <1>1 DEF Next, SomeWrite, vars, bytes, Boots, PgLooks, VolLooks, MdLooks, LookFails, StopForCopy,
       CopyStages, CopyEnds, TargetCleared, StagePromoted, LeftoverReplaced, ContainerRuns,
       IntentSettled, PgRowWritten, VolRedeployed, Stamps, LegacyRenamed, Dies, Wakes
  <2> QED
    BY <2>1, <2>2, <2>3, <2>4, <2>5
<1>2. MigrationInv /\ [Next]_vars =>
        [\A p \in MdPath : Whole(src[p]) /\ ~Whole(src'[p]) => dst[p] >= src[p]]_vars
  BY <1>1
<1> QED
  BY Migration, <1>2, PTL DEF Spec, ManagedKeepsWrites

-----------------------------------------------------------------------------
Busy == {"stop", "drop", "replace", "run", "settle", "row"} \cup Copying

(* What boots leave behind for the next one.  The postgres row is written  *)
(* after its container is there, and after that no boot takes either; a    *)
(* legacy database goes only behind a whole copy; and a container is run   *)
(* where none is, unless something has failed.                             *)
RowFinds ==
  /\ row = "fresh" => FreshExists
  /\ arm # "pg" => row = "fresh"
  /\ arm = "pg" /\ phase \in Busy => row = "legacy"

DatabaseBehind ==
  /\ phase \in Copying \cup {"stop", "drop"} /\ arm # "vol" => old[arm] # "gone"
  /\ \A a \in {"pg", "md"} : old[a] = "gone" => \A p \in PlacesOf(a) : Whole(dst[p])

ManagedFound == old["md"] # "gone" \/ new["md"] # "gone"

Completed ==
  /\ phase \in {"replace", "row"} => arm = "pg"
  /\ phase \in {"settle", "row"} => new[arm] # "gone"
  /\ phase = "stamp" => arm = "md" /\ ManagedFound
  /\ stamped => phase \in {"off", "repair", "serving"} /\ row = "fresh" /\ ManagedFound

CleanSoFar ==
  /\ arm = "md" /\ phase \in Copying \cup {"stop", "drop"} => new["md"] = "gone"
  /\ phase = "run" /\ clean => NameIsFree
  /\ phase \in {"repair", "serving"} /\ clean => stamped

BootInv == RowFinds /\ DatabaseBehind /\ Completed /\ CleanSoFar

Row == row \in {"legacy", "fresh"} /\ old \in [Arm -> {"gone", "down", "up"}] /\ new \in [Arm -> {"gone", "down", "up"}]

LEMMA RowFindsStep ==
  ASSUME Standing, Row, BootInv, [Next]_vars PROVE RowFinds'
<1> USE Arms DEF BootInv, RowFinds, FreshExists, Busy, Copying, Row
<1>1. CASE Boots
  BY <1>1 DEF Boots, containers
<1>2. CASE PgLooks
  <2>1. row = "legacy" /\ ~LegacyExists => PgDataComplete(dst["pg"])
    BY DEF LegacyExists, DatabaseBehind, PgDataComplete
  <2>2. row = "fresh" => PgRowSettled
    BY DEF PgRowSettled, LegacyExists
  <2> QED
    BY <1>2, <2>1, <2>2 DEF PgLooks, Moves, Goes, containers, PgRowSettled, LegacyExists
<1>3. CASE VolLooks \/ MdLooks \/ LookFails
  BY <1>3 DEF VolLooks, MdLooks, LookFails, Moves, Goes, Fails, containers
<1>4. CASE StopForCopy
  BY <1>4 DEF StopForCopy, Old, Goes, Fails, Standing
<1>5. CASE CopyStages \/ CopyEnds \/ TargetCleared \/ StagePromoted
  BY <1>5 DEF CopyStages, CopyEnds, TargetCleared, StagePromoted, Goes, Fails, containers
<1>6. CASE SourceDropped
  BY <1>6 DEF SourceDropped, Old, Goes, Standing
<1>7. CASE LeftoverReplaced
  <2>1. arm = "pg"
    BY <1>7 DEF LeftoverReplaced, Completed
  <2> QED
    BY <1>7, <2>1 DEF LeftoverReplaced, New, Goes
<1>8. CASE ContainerRuns
  BY <1>8 DEF ContainerRuns, New, Goes, Fails, Standing
<1>9. CASE IntentSettled
  BY <1>9 DEF IntentSettled, New, Goes, Moves, Standing, Completed
<1>10. CASE PgRowWritten
  BY <1>10 DEF PgRowWritten, Moves, Completed
<1>11. CASE VolRedeployed
  BY <1>11 DEF VolRedeployed, Old, New, Goes, Moves, Fails, Standing
<1>12. CASE VolumeRemoved \/ Stamps \/ Dies
  BY <1>12 DEF VolumeRemoved, Stamps, Dies, Goes, Moves, Standing, containers
<1>13. CASE LegacyRenamed
  BY <1>13 DEF LegacyRenamed, LegacyExists, Goes
<1>14. CASE \E a \in Arm : Wakes(a) \/ Writes(a)
  BY <1>14 DEF Wakes, Writes, containers
<1>15. CASE UNCHANGED vars
  BY <1>15 DEF vars, containers
<1> QED
  BY <1>1, <1>2, <1>3, <1>4, <1>5, <1>6, <1>7, <1>8, <1>9, <1>10, <1>11, <1>12, <1>13, <1>14, <1>15 DEF Next

LEMMA DatabaseBehindStep ==
  ASSUME Standing, Storage, Covered, Row, BootInv, [Next]_vars PROVE DatabaseBehind'
<1> USE Arms DEF BootInv, DatabaseBehind, Copying, Row
<1>1. CASE Boots \/ VolLooks \/ LookFails \/ Stamps \/ Dies
  BY <1>1 DEF Boots, VolLooks, LookFails, Stamps, Dies, Moves, Goes, Fails, containers, bytes
<1>2. CASE PgLooks \/ MdLooks
  BY <1>2 DEF PgLooks, MdLooks, LegacyExists, Moves, Goes, containers, bytes
<1>3. CASE StopForCopy
  BY <1>3 DEF StopForCopy, Old, Goes, Fails, Standing, bytes
<1>4. CASE CopyStages \/ CopyEnds
  BY <1>4 DEF CopyStages, CopyEnds, Goes, Fails, containers
<1>5. CASE TargetCleared \/ StagePromoted
  <2>1. /\ at \in PlacesOf(arm) /\ old' = old /\ arm' = arm /\ phase \in Copying
        /\ \A q \in Place : q # at => dst'[q] = dst[q]
    BY <1>5 DEF TargetCleared, StagePromoted, Goes, containers, Standing, Storage
  <2>2. ASSUME NEW a \in {"pg", "md"}, old[a] = "gone", NEW p \in PlacesOf(a) PROVE p # at /\ p \in Place
    BY <2>1, <2>2 DEF Standing, Arm
  <2>3. \A a \in {"pg", "md"} : old'[a] = "gone" => \A p \in PlacesOf(a) : Whole(dst'[p])
    BY <2>1, <2>2
  <2> QED
    BY <2>1, <2>3
<1>6. CASE SourceDropped
  BY <1>6 DEF SourceDropped, Old, Goes, Standing, Covered
<1>7. CASE LeftoverReplaced \/ ContainerRuns \/ IntentSettled \/ PgRowWritten
  BY <1>7 DEF LeftoverReplaced, ContainerRuns, IntentSettled, PgRowWritten, Goes, Moves, Fails, bytes
<1>8. CASE VolRedeployed
  BY <1>8 DEF VolRedeployed, Old, Goes, Moves, Fails, Standing, bytes
<1>9. CASE VolumeRemoved \/ LegacyRenamed
  BY <1>9 DEF VolumeRemoved, LegacyRenamed, Goes, Moves, containers, bytes
<1>10. CASE \E a \in Arm : Wakes(a)
  BY <1>10 DEF Wakes, bytes
<1>11. CASE SomeWrite
  <2>1. \A q \in Place : Whole(dst[q]) => Whole(dst'[q])
    BY <1>11, WritesGrow DEF Whole, Storage, SomeWrite, Writes
  <2> QED
    BY <1>11, <2>1, WritesOnly DEF SomeWrite, Writes, containers
<1>12. CASE UNCHANGED vars
  BY <1>12 DEF vars, containers, bytes
<1> QED
  BY <1>1, <1>2, <1>3, <1>4, <1>5, <1>6, <1>7, <1>8, <1>9, <1>10, <1>11, <1>12 DEF Next, SomeWrite

LEMMA CompletedStep ==
  ASSUME Standing, Row, BootInv, [Next]_vars PROVE Completed'
<1> USE Arms DEF BootInv, Completed, ManagedFound, Copying, Row
<1>1. CASE Boots \/ VolLooks \/ LookFails \/ Dies
  BY <1>1 DEF Boots, VolLooks, LookFails, Dies, Moves, Goes, Fails, containers
<1>2. CASE PgLooks
  BY <1>2 DEF PgLooks, Moves, Goes, containers
<1>3. CASE MdLooks
  <2>1. old["md"] = "gone" => \E p \in MdPath : dst[p] # Missing
    BY DataMigrationAssumption DEF DatabaseBehind, Whole, Missing
  <2> QED
    BY <1>3, <2>1 DEF MdLooks, Moves, Goes, containers
<1>4. CASE StopForCopy
  BY <1>4 DEF StopForCopy, Old, Goes, Fails, Standing
<1>5. CASE CopyStages \/ CopyEnds \/ TargetCleared \/ StagePromoted
  BY <1>5 DEF CopyStages, CopyEnds, TargetCleared, StagePromoted, Goes, Fails, containers
<1>6. CASE SourceDropped
  BY <1>6 DEF SourceDropped, Goes
<1>7. CASE LeftoverReplaced
  BY <1>7 DEF LeftoverReplaced, New, Goes
<1>8. CASE ContainerRuns
  BY <1>8 DEF ContainerRuns, New, Goes, Fails, Standing
<1>9. CASE IntentSettled
  BY <1>9 DEF IntentSettled, New, Goes, Moves, Standing, Arm
<1>10. CASE PgRowWritten
  BY <1>10 DEF PgRowWritten, Moves
<1>11. CASE VolRedeployed \/ VolumeRemoved
  BY <1>11 DEF VolRedeployed, VolumeRemoved, Goes, Moves, Fails, Standing
<1>12. CASE Stamps
  BY <1>12 DEF Stamps, Goes, containers, RowFinds
<1>13. CASE LegacyRenamed
  BY <1>13 DEF LegacyRenamed, LegacyExists, Goes
<1>14. CASE \E a \in Arm : Wakes(a) \/ Writes(a)
  BY <1>14 DEF Wakes, Writes, containers
<1>15. CASE UNCHANGED vars
  BY <1>15 DEF vars, containers
<1> QED
  BY <1>1, <1>2, <1>3, <1>4, <1>5, <1>6, <1>7, <1>8, <1>9, <1>10, <1>11, <1>12, <1>13, <1>14, <1>15 DEF Next

LEMMA CleanSoFarStep ==
  ASSUME Standing, Row, BootInv, [Next]_vars PROVE CleanSoFar'
<1> USE Arms DEF BootInv, CleanSoFar, Copying, Row, NameIsFree, Fault, NoFault
<1>1. CASE Boots \/ Dies
  BY <1>1 DEF Boots, Dies, containers
<1>2. CASE PgLooks
  BY <1>2 DEF PgLooks, Moves, Goes, containers
<1>3. CASE VolLooks \/ LookFails
  BY <1>3 DEF VolLooks, LookFails, Moves, Goes, Fails, containers
<1>4. CASE MdLooks
  BY <1>4 DEF MdLooks, Moves, Goes, containers
<1>5. CASE StopForCopy
  BY <1>5 DEF StopForCopy, Old, Goes, Fails
<1>6. CASE CopyStages \/ CopyEnds \/ TargetCleared \/ StagePromoted
  BY <1>6 DEF CopyStages, CopyEnds, TargetCleared, StagePromoted, Goes, Fails, containers
<1>7. CASE SourceDropped
  BY <1>7 DEF SourceDropped, Old, Goes, Standing, Arm
<1>8. CASE LeftoverReplaced
  <2>1. arm = "pg"
    BY <1>8 DEF LeftoverReplaced, Completed
  <2> QED
    BY <1>8, <2>1 DEF LeftoverReplaced, New, Goes
<1>9. CASE ContainerRuns
  BY <1>9 DEF ContainerRuns, Goes, Fails
<1>10. CASE IntentSettled \/ PgRowWritten
  BY <1>10 DEF IntentSettled, PgRowWritten, Goes, Moves
<1>11. CASE VolRedeployed
  BY <1>11 DEF VolRedeployed, Goes, Moves, Fails, Standing
<1>12. CASE VolumeRemoved
  BY <1>12 DEF VolumeRemoved, Moves, Standing, containers
<1>13. CASE Stamps \/ LegacyRenamed
  BY <1>13 DEF Stamps, LegacyRenamed, Goes, containers
<1>14. CASE \E a \in Arm : Wakes(a)
  BY <1>14 DEF Wakes
<1>15. CASE \E a \in Arm : Writes(a)
  BY <1>15 DEF Writes, containers
<1>16. CASE UNCHANGED vars
  BY <1>16 DEF vars, containers
<1> QED
  BY <1>1, <1>2, <1>3, <1>4, <1>5, <1>6, <1>7, <1>8, <1>9, <1>10, <1>11, <1>12, <1>13, <1>14, <1>15, <1>16 DEF Next

(* What a boot leaves behind, the next one finds.                          *)
THEOREM BootsLeaveOff == Spec => []BootInv
<1>1. Init => BootInv
  BY Arms DEF Init, BootInv, RowFinds, DatabaseBehind, Completed, CleanSoFar, Busy, Copying
<1>2. MigrationInv /\ Counted => Standing /\ Storage /\ Covered /\ Row
  BY DEF MigrationInv, Storage, Counted, Row
<1>3. MigrationInv /\ Counted /\ BootInv /\ [Next]_vars => BootInv'
  BY <1>2, RowFindsStep, DatabaseBehindStep, CompletedStep, CleanSoFarStep DEF BootInv
<1>4. Init => Counted
  BY InitMigrationInv
<1>5. Counted /\ [Next]_vars => Counted'
  BY CountedStep
<1> QED
  BY Migration, <1>1, <1>3, <1>4, <1>5, PTL DEF Spec

(* Nothing runs the migration of a stamped branch again, and its rows name *)
(* containers that exist (datadir-migrate.ts, stampMigrated).              *)
THEOREM StampedIsFound == Spec => []StampFindsContainers
<1>1. BootInv => StampFindsContainers
  BY DEF BootInv, RowFinds, Completed, ManagedFound, StampFindsContainers
<1> QED
  BY <1>1, BootsLeaveOff, PTL

(* However the boots before it were interrupted, one in which nothing      *)
(* fails stamps the branch (datadir-migrate.ts, migrateLegacyData).        *)
THEOREM CleanBootsStamp == Spec => []CleanBootStamps
<1>1. BootInv => CleanBootStamps
  BY DEF BootInv, CleanSoFar, CleanBootStamps
<1> QED
  BY <1>1, BootsLeaveOff, PTL
=============================================================================
