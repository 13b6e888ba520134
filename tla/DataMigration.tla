---------------------------- MODULE DataMigration ----------------------------
(***************************************************************************)
(* The boot migration of one branch from docker volumes to bind mounts     *)
(* (src/datadir-migrate.ts), and the rename of the old postgres container  *)
(* that main.ts runs after it.  Three services, migrated in this order:    *)
(* the postgres, a compute service with a volume, a managed database with  *)
(* several data paths.  Bytes are versions: what a running service writes  *)
(* makes the next one, and a copy holds the version it read.               *)
(*                                                                         *)
(* Only this process touches the containers during boot, so reads with no  *)
(* effect between two of them are one step; every effect is its own, and   *)
(* the daemon may die between any two.                                     *)
(***************************************************************************)
EXTENDS Integers

CONSTANTS MdPath,     \* dataPaths of the managed type
          MaxWrites,  \* bound on the writes of the services
          MaxFaults   \* bound on failed docker calls and deaths of the daemon

ASSUME DataMigrationAssumption ==
  /\ MdPath # {} /\ MdPath \cap {"pg", "vol"} = {}
  /\ MaxWrites \in Nat /\ MaxFaults \in Nat

Arm == {"pg", "vol", "md"}
PlacesOf(a) == IF a = "md" THEN MdPath ELSE {a}
Place == UNION {PlacesOf(a) : a \in Arm}

Partial == -1
Missing == 0
Bytes == {Partial, Missing} \cup 1..(1 + MaxWrites)
Whole(b) == b >= 1

VARIABLES
  old,      \* by service: its container on the legacy storage
  new,      \* by service: its container on the bind mount
  renamed,  \* the legacy postgres container bears the new name
  row,      \* the container the postgres row names: "legacy" or "fresh"
  src,      \* by place: the bytes of the legacy storage
  stage,    \* by place: the .incoming- directory beside the target
  dst,      \* by place: the target directory
  stamped,  \* dataVersion = 1
  phase, arm, at, todo,  \* where the daemon is in its boot
  up,       \* wasRunning, as this boot read it
  kept,     \* history: a boot found the volume and the target ambiguous
  clean,    \* history: nothing failed in this boot
  faults, writes

containers == <<old, new, renamed, row>>
bytes == <<src, stage, dst>>
vars == <<containers, bytes, stamped, phase, arm, at, todo, up, kept, clean,
          faults, writes>>

Phase == {"off", "serving", "look", "stop", "stage", "copy", "clear", "rename", "drop",
          "replace", "run", "settle", "row", "deploy", "keep", "rmvol", "stamp", "repair"}

TypeOK ==
  /\ old \in [Arm -> {"gone", "down", "up"}]
  /\ new \in [Arm -> {"gone", "down", "up"}]
  /\ renamed \in BOOLEAN
  /\ row \in {"legacy", "fresh"}
  /\ src \in [Place -> Bytes] /\ stage \in [Place -> Bytes] /\ dst \in [Place -> Bytes]
  /\ phase \in Phase /\ arm \in Arm /\ at \in Place /\ todo \subseteq Place
  /\ stamped \in BOOLEAN /\ up \in BOOLEAN /\ kept \in BOOLEAN /\ clean \in BOOLEAN
  /\ faults \in 0..MaxFaults /\ writes \in 0..MaxWrites

(* An install that predates the data directory.  A build that predates the *)
(* staging discipline may have left part of a copy at a target, and the    *)
(* compute service's container may have been removed.                      *)
Init ==
  /\ old \in {f \in [Arm -> {"gone", "down", "up"}] : "gone" \notin {f["pg"], f["md"]}}
  /\ new = [a \in Arm |-> "gone"]
  /\ renamed = FALSE
  /\ row = "legacy"
  /\ src = [p \in Place |-> 1]
  /\ stage = [p \in Place |-> Missing]
  /\ dst \in [Place -> {Partial, Missing}]
  /\ stamped = FALSE
  /\ phase = "off" /\ arm = "pg" /\ at = "pg" /\ todo = {}
  /\ up = TRUE /\ kept = FALSE /\ clean = TRUE
  /\ faults = 0 /\ writes = 0

-----------------------------------------------------------------------------
Fault == faults < MaxFaults /\ faults' = faults + 1 /\ clean' = FALSE
NoFault == UNCHANGED <<faults, clean>>

Old(s) == old' = [old EXCEPT ![arm] = s]
New(s) == new' = [new EXCEPT ![arm] = s]

(* Mutant: the loop has no end at the managed services. *)
MovesOn ==
  /\ phase' = "look"
  /\ arm' = CASE arm = "pg" -> "vol" [] arm = "vol" -> "md" [] OTHER -> "none"

(* The next service of the branch, and after the last the stamp. *)
Moves ==
  IF arm = "md" THEN phase' = "stamp" /\ UNCHANGED arm
  ELSE phase' = "look" /\ arm' = (IF arm = "pg" THEN "vol" ELSE "md")

(* A throw: the branch is left unstamped and the boot goes on. *)
Fails == phase' = "repair" /\ UNCHANGED arm

Goes(l) == phase' = l /\ UNCHANGED arm

-----------------------------------------------------------------------------
Boots ==
  /\ phase = "off"
  /\ phase' = IF stamped THEN "repair" ELSE "look"
  /\ arm' = "pg"
  /\ clean' = TRUE
  /\ UNCHANGED <<containers, bytes, stamped, at, todo, up, kept, faults, writes>>

(* pgDataComplete: PG_VERSION, global and base.  Mutant: PG_VERSION alone. *)
HasPgVersion(b) == b # Missing
PgDataComplete(b) == Whole(b)

LegacyExists == row = "legacy" /\ old["pg"] # "gone"
FreshExists == new["pg"] # "gone" \/ (renamed /\ old["pg"] # "gone")

(* Mutant: the container is asked, not the row. *)
ContainerSettled == ~LegacyExists /\ FreshExists
PgRowSettled == ~LegacyExists /\ FreshExists /\ row = "fresh"

PgLooks ==
  /\ phase = "look" /\ arm = "pg"
  /\ \/ PgRowSettled /\ Moves /\ UNCHANGED up
     \/ LegacyExists /\ up' = (old["pg"] = "up") /\ Goes("stop")
     \/ /\ ~LegacyExists /\ ~PgRowSettled
        /\ IF PgDataComplete(dst["pg"])
           THEN up' = (FreshExists => new["pg"] = "up") /\ Goes("replace")
           ELSE Moves /\ UNCHANGED up
  /\ NoFault
  /\ UNCHANGED <<containers, bytes, stamped, at, todo, kept, writes>>

(* The app on the bind mount is what says the service is done.  A target   *)
(* with something in it and no container at all settles nothing.           *)
VolLooks ==
  /\ phase = "look" /\ arm = "vol"
  /\ \/ src["vol"] = Missing /\ Moves /\ UNCHANGED <<todo, kept>>
     \/ src["vol"] # Missing /\ new["vol"] # "gone" /\ Goes("rmvol") /\ UNCHANGED <<todo, kept>>
     \/ /\ src["vol"] # Missing /\ new["vol"] = "gone"
        /\ IF old["vol"] = "gone" /\ dst["vol"] # Missing
           THEN Goes("keep") /\ kept' = TRUE /\ UNCHANGED todo
           ELSE Goes("stage") /\ todo' = {"vol"} /\ UNCHANGED kept
  /\ NoFault
  /\ UNCHANGED <<containers, bytes, stamped, at, up, writes>>

(* Mutant: a managed directory with something in it counts as copied. *)
MdLooksAtTarget ==
  /\ phase = "look" /\ arm = "md"
  /\ new["md"] = "gone" /\ old["md"] # "gone"
  /\ up' = (old["md"] = "up")
  /\ Goes(IF \E p \in MdPath : dst[p] # Missing THEN "drop" ELSE "stop")
  /\ NoFault
  /\ UNCHANGED <<containers, bytes, stamped, at, todo, kept, writes>>

(* Legacy and new container bear one name, so it is the mount that tells.  *)
(* With no container, a directory with something in it is the record that  *)
(* the migration started.                                                  *)
MdLooks ==
  /\ phase = "look" /\ arm = "md"
  /\ \/ new["md"] # "gone" /\ Moves /\ UNCHANGED up
     \/ new["md"] = "gone" /\ old["md"] # "gone" /\ up' = (old["md"] = "up") /\ Goes("stop")
     \/ /\ new["md"] = "gone" /\ old["md"] = "gone"
        /\ IF \E p \in MdPath : dst[p] # Missing \/ stage[p] # Missing
           THEN up' = TRUE /\ Goes("run")
           ELSE Moves /\ UNCHANGED up
  /\ NoFault
  /\ UNCHANGED <<containers, bytes, stamped, at, todo, kept, writes>>

(* A probe that cannot answer raises. *)
LookFails ==
  /\ phase = "look"
  /\ Fault /\ Fails
  /\ UNCHANGED <<containers, bytes, stamped, at, todo, up, kept, writes>>

(* Mutant: a stop that fails is taken for already down. *)
StopUnread ==
  /\ phase = "stop"
  /\ (Old("down") /\ NoFault) \/ (UNCHANGED old /\ Fault)
  /\ todo' = PlacesOf(arm)
  /\ Goes(IF arm = "pg" /\ PgDataComplete(dst["pg"]) THEN "drop" ELSE "stage")
  /\ UNCHANGED <<new, renamed, row, bytes, stamped, at, up, kept, writes>>

(* stopForCopy: a copy begins only when docker says the source is down.    *)
StopForCopy ==
  /\ phase = "stop"
  /\ \/ /\ Old("down") /\ NoFault
        /\ todo' = PlacesOf(arm)
        /\ Goes(IF arm = "pg" /\ PgDataComplete(dst["pg"]) THEN "drop" ELSE "stage")
     \/ /\ Old("down") \/ UNCHANGED old
        /\ Fault /\ Fails
        /\ UNCHANGED todo
  /\ UNCHANGED <<new, renamed, row, bytes, stamped, at, up, kept, writes>>

-----------------------------------------------------------------------------
(* copyIntoPlace, one place at a time: an empty staging directory, the     *)
(* copy, the old target removed, one rename.                               *)

CopyStages ==
  /\ phase = "stage"
  /\ \E p \in todo : at' = p /\ stage' = [stage EXCEPT ![p] = Partial]
  /\ Goes("copy") /\ NoFault
  /\ UNCHANGED <<containers, src, dst, stamped, todo, up, kept, writes>>

CopyEnds ==
  /\ phase = "copy"
  /\ \/ stage' = [stage EXCEPT ![at] = src[at]] /\ Goes("clear") /\ NoFault
     \/ UNCHANGED stage /\ Fault /\ Fails
  /\ UNCHANGED <<containers, src, dst, stamped, at, todo, up, kept, writes>>

TargetCleared ==
  /\ phase = "clear"
  /\ dst' = [dst EXCEPT ![at] = Missing]
  /\ Goes("rename") /\ NoFault
  /\ UNCHANGED <<containers, src, stage, stamped, at, todo, up, kept, writes>>

StagePromoted ==
  /\ phase = "rename"
  /\ dst' = [dst EXCEPT ![at] = stage[at]]
  /\ stage' = [stage EXCEPT ![at] = Missing]
  /\ todo' = todo \ {at}
  /\ Goes(IF todo # {at} THEN "stage" ELSE IF arm = "vol" THEN "deploy" ELSE "drop")
  /\ NoFault
  /\ UNCHANGED <<containers, src, stamped, at, up, kept, writes>>

-----------------------------------------------------------------------------
(* docker rm -f -v of the legacy container, its failure swallowed. *)
SourceDropped ==
  /\ phase = "drop"
  /\ \/ /\ Old("gone")
        /\ src' = [p \in Place |-> IF p \in PlacesOf(arm) THEN Missing ELSE src[p]]
        /\ NoFault
     \/ UNCHANGED <<old, src>> /\ Fault
  /\ Goes(IF arm = "pg" THEN "replace" ELSE "run")
  /\ UNCHANGED <<new, renamed, row, stage, dst, stamped, at, todo, up, kept, writes>>

(* Mutant: the unnamed leftover of an interrupted run is left in place. *)
LeftoverStays ==
  /\ phase = "replace"
  /\ Goes("run") /\ NoFault
  /\ UNCHANGED <<containers, bytes, stamped, at, todo, up, kept, writes>>

LeftoverReplaced ==
  /\ phase = "replace"
  /\ (New("gone") /\ NoFault) \/ (UNCHANGED new /\ Fault)
  /\ Goes("run")
  /\ UNCHANGED <<old, renamed, row, bytes, stamped, at, todo, up, kept, writes>>

(* docker run on the bind mount; a taken name refuses it.  A run, or the   *)
(* readiness wait after it, may fail with the container there.             *)
NameIsFree == new[arm] = "gone" /\ (arm = "md" => old["md"] = "gone")

ContainerRuns ==
  /\ phase = "run"
  /\ \/ NameIsFree /\ New("up") /\ Goes("settle") /\ NoFault
     \/ NameIsFree /\ (\E s \in {"gone", "down", "up"} : New(s)) /\ Fault /\ Fails
     \/ ~NameIsFree /\ UNCHANGED new /\ NoFault /\ Fails
  /\ UNCHANGED <<old, renamed, row, bytes, stamped, at, todo, up, kept, writes>>

(* A database that was down is stopped again, best effort. *)
IntentSettled ==
  /\ phase = "settle"
  /\ \/ up /\ UNCHANGED new /\ NoFault
     \/ ~up /\ New("down") /\ NoFault
     \/ ~up /\ UNCHANGED new /\ Fault
  /\ IF arm = "pg" THEN Goes("row") ELSE Moves
  /\ UNCHANGED <<old, renamed, row, bytes, stamped, at, todo, up, kept, writes>>

PgRowWritten ==
  /\ phase = "row"
  /\ row' = "fresh"
  /\ Moves /\ NoFault
  /\ UNCHANGED <<old, new, renamed, bytes, stamped, at, todo, up, kept, writes>>

(* engine.deploy of the compute service onto the bind mount: replaced, and *)
(* left as its recorded intent says.                                       *)
VolRedeployed ==
  /\ phase \in {"deploy", "keep"}
  /\ \/ /\ Old("gone") /\ (\E s \in {"down", "up"} : New(s)) /\ NoFault
        /\ IF phase = "deploy" THEN Goes("rmvol") ELSE Moves
     \/ /\ (Old("gone") /\ \E s \in {"gone", "down"} : New(s)) \/ UNCHANGED <<old, new>>
        /\ Fault /\ Fails
  /\ UNCHANGED <<renamed, row, bytes, stamped, at, todo, up, kept, writes>>

VolumeRemoved ==
  /\ phase = "rmvol"
  /\ \/ src' = [src EXCEPT !["vol"] = Missing] /\ NoFault
     \/ UNCHANGED src /\ Fault
  /\ Moves
  /\ UNCHANGED <<containers, stage, dst, stamped, at, todo, up, kept, writes>>

-----------------------------------------------------------------------------
Stamps ==
  /\ phase = "stamp"
  /\ stamped' = TRUE
  /\ Goes("repair") /\ NoFault
  /\ UNCHANGED <<containers, bytes, at, todo, up, kept, writes>>

(* migrateLegacyContainers: docker rename of a container the row still     *)
(* names by its legacy name, whose failure skips the branch.               *)
LegacyRenamed ==
  /\ phase = "repair"
  /\ \/ /\ LegacyExists /\ new["pg"] = "gone"
        /\ renamed' = TRUE /\ row' = "fresh" /\ NoFault
     \/ /\ ~(LegacyExists /\ new["pg"] = "gone")
        /\ UNCHANGED <<renamed, row>> /\ NoFault
     \/ LegacyExists /\ UNCHANGED <<renamed, row>> /\ Fault
  /\ Goes("serving")
  /\ UNCHANGED <<old, new, bytes, stamped, at, todo, up, kept, writes>>

(* Traffic or a developer starts the container the row names. *)
Wakes(a) ==
  /\ phase = "serving"
  /\ \/ old[a] = "down" /\ (a = "pg" => row = "legacy" \/ renamed)
        /\ old' = [old EXCEPT ![a] = "up"] /\ UNCHANGED new
     \/ new[a] = "down" /\ (a = "pg" => row = "fresh")
        /\ new' = [new EXCEPT ![a] = "up"] /\ UNCHANGED old
  /\ UNCHANGED <<renamed, row, bytes, stamped, phase, arm, at, todo, up, kept, clean,
                 faults, writes>>

(* A running service writes, whether or not the daemon runs. *)
Writes(a) ==
  /\ writes < MaxWrites /\ writes' = writes + 1
  /\ \E p \in PlacesOf(a) :
       \/ old[a] = "up" /\ Whole(src[p]) /\ src' = [src EXCEPT ![p] = @ + 1] /\ UNCHANGED dst
       \/ /\ new[a] = "up" /\ (a = "pg" => row = "fresh") /\ Whole(dst[p])
          /\ dst' = [dst EXCEPT ![p] = @ + 1] /\ UNCHANGED src
  /\ UNCHANGED <<containers, stage, stamped, phase, arm, at, todo, up, kept, clean, faults>>

(* Killed in the middle of the boot, or restarted while it serves. *)
Dies ==
  /\ phase \notin {"off"}
  /\ IF phase = "serving" THEN UNCHANGED faults ELSE faults < MaxFaults /\ faults' = faults + 1
  /\ phase' = "off" /\ arm' = "pg" /\ at' = "pg" /\ todo' = {} /\ up' = TRUE /\ clean' = TRUE
  /\ UNCHANGED <<containers, bytes, stamped, kept, writes>>

Next ==
  \/ Boots \/ PgLooks \/ VolLooks \/ MdLooks \/ LookFails \/ StopForCopy
  \/ CopyStages \/ CopyEnds \/ TargetCleared \/ StagePromoted
  \/ SourceDropped \/ LeftoverReplaced \/ ContainerRuns \/ IntentSettled \/ PgRowWritten
  \/ VolRedeployed \/ VolumeRemoved \/ Stamps \/ LegacyRenamed \/ Dies
  \/ \E a \in Arm : Wakes(a) \/ Writes(a)

Spec == Init /\ [][Next]_vars

-----------------------------------------------------------------------------
(* Properties.                                                             *)

(* Killed at any point, retried at any boot, the migration always leaves a *)
(* whole copy of every directory: the source goes only after a verified    *)
(* copy was promoted.  The volume kept as ambiguous is the exception.      *)
SomeWholeCopy ==
  \A p \in Place : Whole(src[p]) \/ Whole(dst[p]) \/ (p = "vol" /\ kept)

(* A database directory is never copied under a live writer: docker stop   *)
(* may fail, answer late or not be believed.                               *)
SourceAtRest ==
  phase \in {"stage", "copy", "clear", "rename", "drop"} /\ arm # "vol" => old[arm] # "up"

(* A managed database loses no write, however many interrupted boots lie   *)
(* between its first copy and the removal of its container: while the      *)
(* container is there it stays the authority, and is copied again.         *)
ManagedKeepsWrites ==
  [][\A p \in MdPath :
       Whole(src[p]) /\ ~Whole(src'[p]) => dst[p] >= src[p]]_vars

(* A stamped branch has a container behind its postgres row and a managed  *)
(* database behind its directories: nothing re-runs a stamped branch.      *)
StampFindsContainers ==
  stamped /\ phase = "serving" =>
    /\ IF row = "fresh" THEN FreshExists ELSE LegacyExists
    /\ old["md"] # "gone" \/ new["md"] # "gone"

(* No interrupted boot leaves a state the next one cannot finish: a boot   *)
(* in which nothing fails always stamps the branch.                        *)
CleanBootStamps ==
  phase = "serving" /\ clean => stamped

-----------------------------------------------------------------------------
(* What the repository says and the code does not do.                      *)

(* datadir-migrate.ts:69-72, "a branch stamped without having been         *)
(* migrated is a branch whose bytes are still in a docker volume": the     *)
(* stamp is written only on a positive answer.  A boot that could not      *)
(* migrate the postgres goes on to migrateLegacyContainers, which gives    *)
(* the unmigrated container and its row the name the next boot reads as    *)
(* settled.                                                                *)
StampMeansMoved == stamped => Whole(dst["pg"])

(* datadir-migrate.ts:309-310, "the legacy volume is KEPT for the operator *)
(* rather than deleted on a guess".  The redeploy that follows puts the    *)
(* app on the bind mount; if the branch then fails, the next boot reads    *)
(* that as done and removes the volume.                                    *)
KeptVolumeStays == [][kept => src'["vol"] = src["vol"] \/ Whole(src'["vol"])]_vars

(* datadir-migrate.ts:14-15, "a source container or volume is removed only *)
(* once its destination is known good".  The compute service writes to its *)
(* volume until the redeploy, after the copy was taken.                    *)
VolumeKeepsWrites ==
  [][Whole(src["vol"]) /\ ~Whole(src'["vol"]) /\ ~kept => dst["vol"] >= src["vol"]]_vars
=============================================================================
