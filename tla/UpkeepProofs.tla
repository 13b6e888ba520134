---------------------------- MODULE UpkeepProofs ----------------------------
(***************************************************************************)
(* What the daemon keeps up, desk by desk: the copies of postgres, the     *)
(* process lock, the snapshot of states, the addresses, the metrics, the   *)
(* access; and that their composition implements each of them, so what is  *)
(* proved of a desk holds of the daemon.                                   *)
(***************************************************************************)
EXTENDS DaemonUpkeep, FiniteSetTheorems, TLAPS
-----------------------------------------------------------------------------
(* The copy of a postgres.                                                 *)

CopyType == [held : {"none", "part", "whole"}, from : 0..MaxWrites, to : 0..MaxWrites, mixed : BOOLEAN, hba : BOOLEAN]
SourceType == [state : SourceState, runs : 0..MaxRuns, ver : 0..MaxWrites, hba : BOOLEAN]
ForkPc == {"idle", "clear", "clearDir", "look", "clone", "walk", "judge", "start", "ready", "torn", "door",
           "status", "stream", "strip", "failed", "done"}
Via == {"reflink", "basebackup", "initdb"}

ForkTypes ==
  /\ setting \in {"reflink", "strict", "basebackup"}
  /\ source \in SourceType /\ copy \in CopyType /\ dstCtr \in {"none", "left", "up"}
  /\ forkPc \in ForkPc /\ forkVia \in Via /\ forkBefore \in Fingerprint /\ forkRetry \in BOOLEAN

LEMMA ForkTypesAre == ForkTypeOK <=> ForkTypes
BY DEF ForkTypeOK, ForkTypes, CopyType, SourceType, ForkPc, Via

LEMMA BareType == Bare \in CopyType
BY ForkAssumption DEF Bare, CopyType

LEMMA CopyParts ==
  ASSUME NEW c \in CopyType
  PROVE  /\ c.from \in Nat /\ c.to \in Nat /\ c.from \in 0..MaxWrites /\ c.to \in 0..MaxWrites
         /\ c.mixed \in BOOLEAN /\ c.hba \in BOOLEAN
         /\ [c EXCEPT !.held = "part"] \in CopyType /\ [c EXCEPT !.hba = FALSE] \in CopyType
<1>1. [c EXCEPT !.held = "part"] \in CopyType
  BY DEF CopyType
<1>2. [c EXCEPT !.hba = FALSE] \in CopyType
  BY DEF CopyType
<1> QED
  BY <1>1, <1>2, ForkAssumption DEF CopyType

LEMMA BareWith ==
  ASSUME NEW h \in {"part", "whole"}, NEW v \in 0..MaxWrites, NEW m \in BOOLEAN
  PROVE  /\ [Bare EXCEPT !.held = h, !.from = v, !.mixed = m] \in CopyType
         /\ [Bare EXCEPT !.held = h, !.mixed = m] \in CopyType
<1>1. ASSUME NEW c \in CopyType PROVE [c EXCEPT !.held = h, !.from = v, !.mixed = m] \in CopyType
  BY DEF CopyType
<1>2. ASSUME NEW c \in CopyType PROVE [c EXCEPT !.held = h, !.mixed = m] \in CopyType
  BY DEF CopyType
<1> QED
  BY <1>1, <1>2, BareType

LEMMA SourceParts ==
  ASSUME NEW s \in SourceType
  PROVE  /\ s.state \in SourceState /\ s.runs \in Nat /\ s.ver \in Nat /\ s.runs \in 0..MaxRuns /\ s.ver \in 0..MaxWrites
         /\ s.hba \in BOOLEAN
BY ForkAssumption DEF SourceType

LEMMA ForkInitType == ForkInit => ForkTypes
<1> SUFFICES ASSUME ForkInit PROVE ForkTypes
  OBVIOUS
<1>1. source \in SourceType
  BY ForkAssumption DEF ForkInit, SourceType
<1>2. NoFingerprint \in Fingerprint
  BY ForkAssumption DEF NoFingerprint, Fingerprint, SourceState
<1> QED
  BY <1>1, <1>2, BareType DEF ForkInit, ForkTypes, ForkPc, Via

LEMMA SourceType1 == ForkTypes /\ SourceActs => ForkTypes'
<1> SUFFICES ASSUME ForkTypes, SourceActs PROVE ForkTypes'
  OBVIOUS
<1>1. source \in SourceType
  BY DEF ForkTypes
<1>2. source.runs \in 0..MaxRuns /\ source.ver \in 0..MaxWrites
  BY <1>1 DEF SourceType
<1>3. source.runs < MaxRuns => source.runs + 1 \in 0..MaxRuns
  BY <1>2, ForkAssumption
<1>4. source.ver < MaxWrites => source.ver + 1 \in 0..MaxWrites
  BY <1>2, ForkAssumption
<1>5. ASSUME SourceStarts PROVE source' \in SourceType
  BY <1>1, <1>3, <1>5 DEF SourceStarts, SourceType, SourceState
<1>6. ASSUME SourceStops PROVE source' \in SourceType
  BY <1>1, <1>3, <1>6 DEF SourceStops, SourceType, SourceState
<1>7. ASSUME SourcePauses \/ SourceUnpauses PROVE source' \in SourceType
  BY <1>1, <1>7 DEF SourcePauses, SourceUnpauses, SourceType, SourceState
<1>8. ASSUME SourceWrites PROVE source' \in SourceType
  BY <1>1, <1>4, <1>8 DEF SourceWrites, SourceType
<1>9. source' \in SourceType
  BY <1>5, <1>6, <1>7, <1>8 DEF SourceActs
<1> QED
  BY <1>9 DEF ForkTypes, SourceActs

LEMMA ForkTypeStep == ForkTypes /\ [ForkNext]_forkVars => ForkTypes'
<1> USE ForkAssumption
<1> SUFFICES ASSUME ForkTypes, [ForkNext]_forkVars PROVE ForkTypes'
  OBVIOUS
<1>0. /\ source \in SourceType /\ copy \in CopyType
      /\ copy.mixed \in BOOLEAN /\ source.hba \in BOOLEAN /\ source.ver \in 0..MaxWrites /\ source.state \in SourceState
      /\ [copy EXCEPT !.held = "part"] \in CopyType /\ [copy EXCEPT !.hba = FALSE] \in CopyType
      /\ RunFingerprint \in Fingerprint
  <2>1. source \in SourceType /\ copy \in CopyType
    BY DEF ForkTypes
  <2> QED
    BY <2>1, CopyParts, SourceParts DEF RunFingerprint, Fingerprint
<1>1. CASE ForkBegins \/ ProvisionBegins \/ ProbeUnreadable \/ OrphanBytesStay
  BY <1>1 DEF ForkBegins, ProvisionBegins, ProbeUnreadable, OrphanBytesStay, ForkTypes, Goes, ForkFails, ForkPc, Via
<1>2. CASE ClearOrphanBytes
  BY <1>2, BareType DEF ClearOrphanBytes, ForkTypes, ForkPc
<1>3. CASE LooksAtSource \/ SourceUnreadable \/ NoReflink \/ CloneFails \/ CopyJudged
  BY <1>0, <1>3 DEF LooksAtSource, SourceUnreadable, NoReflink, CloneFails, CopyJudged, FallsBack, ForkFails, Goes,
                    ForkTypes, ForkPc, Via
<1>4. CASE CloneBegins
  <2>1. [Bare EXCEPT !.held = "part", !.from = source.ver, !.mixed = copy.held # "none"] \in CopyType
    BY <1>0, BareWith
  <2> QED
    BY <1>4, <2>1 DEF CloneBegins, Goes, ForkTypes, ForkPc
<1>5. CASE ClonePostgres
  <2>1. [copy EXCEPT !.held = "whole", !.to = source.ver, !.hba = source.hba] \in CopyType
    BY <1>0 DEF CopyType
  <2> QED
    BY <1>5, <2>1 DEF ClonePostgres, Goes, ForkTypes, ForkPc
<1>6. CASE EnsureSourceRunning
  <2>1. [source EXCEPT !.state = "running", !.runs = IF source.state = "exited" THEN @ + 1 ELSE @] \in SourceType
    <3>1. \A n \in 0..MaxRuns : [source EXCEPT !.state = "running", !.runs = n] \in SourceType
      BY <1>0 DEF SourceType, SourceState
    <3>2. (IF source.state = "exited" THEN source.runs + 1 ELSE source.runs) \in 0..MaxRuns
      BY <1>0, <1>6, SourceParts DEF EnsureSourceRunning
    <3> QED
      BY <3>1, <3>2
  <2> QED
    BY <1>6, <2>1 DEF EnsureSourceRunning, Goes, ForkTypes, ForkPc
<1>7. CASE EnsureHba
  <2>1. [source EXCEPT !.hba = TRUE] \in SourceType
    BY <1>0 DEF SourceType
  <2> QED
    BY <1>7, <2>1 DEF EnsureHba, Goes, ForkTypes, ForkPc
<1>8. CASE BackupEnds
  <2>1. [held |-> "whole", from |-> source.ver, to |-> source.ver, mixed |-> copy.held # "none", hba |-> source.hba]
          \in CopyType
    BY <1>0 DEF CopyType
  <2> QED
    BY <1>8, <2>1 DEF BackupEnds, Goes, ForkTypes, ForkPc
<1>9. CASE DoorFails \/ SourceNotReady \/ StripHba \/ StripFails \/ PgIsReady \/ TornCopyRetried \/ TornCopyTwice \/ NotReady
  BY <1>0, <1>9 DEF DoorFails, SourceNotReady, StripHba, StripFails, PgIsReady, TornCopyRetried, TornCopyTwice, NotReady,
                    FallsBack, ForkFails, Goes, ForkTypes, ForkPc, Via
<1>10. CASE PgRun
  <2>1. [Bare EXCEPT !.held = "whole", !.mixed = copy.held # "none"] \in CopyType
    BY <1>0, BareWith
  <2> QED
    BY <1>10, <2>1 DEF PgRun, Goes, ForkTypes, ForkPc
<1>11. ASSUME NEW b \in BOOLEAN, ClearOrphan(b) \/ BackupFails(b) \/ PgRunFails(b) \/ ForkRollsBack(b) PROVE ForkTypes'
  BY <1>0, <1>11, BareType DEF ClearOrphan, BackupFails, PgRunFails, ForkRollsBack, Goes, ForkFails, ForkTypes, ForkPc
<1>12. ASSUME NEW b \in BOOLEAN, NEW c \in BOOLEAN, CopySpansAWrite(b, c) \/ CloneNotReady(b, c) PROVE ForkTypes'
  BY <1>12, BareType DEF CopySpansAWrite, CloneNotReady, FallsBack, ForkFails, Goes, ForkTypes, ForkPc, Via
<1>13. CASE ForkDies
  BY <1>13 DEF ForkDies, ForkTypes, ForkPc
<1>14. CASE SourceActs
  BY <1>14, SourceType1
<1>15. CASE UNCHANGED forkVars
  BY <1>15 DEF forkVars, ForkTypes
<1> QED
  BY <1>1, <1>2, <1>3, <1>4, <1>5, <1>6, <1>7, <1>8, <1>9, <1>10, <1>11, <1>12, <1>13, <1>14, <1>15 DEF ForkNext, ForkStep

(* Every variable of the copy keeps its type.                              *)
THEOREM ForkTypesHold == ForkSpec => []ForkTypeOK
BY ForkInitType, ForkTypeStep, ForkTypesAre, PTL DEF ForkSpec
-----------------------------------------------------------------------------
(* Where a fork is, and what it has by then: it copies into an empty       *)
(* directory; and as long as the source's fingerprint is the one taken at  *)
(* rest, the source has not written since.                                 *)
ViaAllowed == forkVia = "basebackup" /\ forkPc \notin {"idle", "failed"} => setting # "strict"

DirectoryEmpty ==
  /\ forkPc \in {"look", "clone", "door", "status", "stream"} => copy = Bare
  /\ forkPc = "start" /\ forkVia = "initdb" => copy = Bare

AtRestSince ==
  forkPc \in {"clone", "walk", "judge"} =>
    /\ AtRest(forkBefore) /\ source.runs >= forkBefore.runs
    /\ source.runs = forkBefore.runs =>
         /\ source.state = forkBefore.state
         /\ forkPc = "walk" => copy.from = source.ver
         /\ forkPc = "judge" => copy.from = copy.to

CopyMade ==
  /\ forkPc \in {"walk", "judge"} => ~copy.mixed
  /\ forkPc = "judge" => copy.held = "whole"
  /\ forkPc \in {"strip", "start", "ready", "done"} /\ (forkPc = "start" => forkVia # "initdb") =>
       /\ copy.held = "whole" /\ copy.from = copy.to /\ ~copy.mixed
       /\ forkPc # "strip" /\ forkVia = "basebackup" => ~copy.hba
  /\ forkPc = "strip" => forkVia = "basebackup"

ViaOfPlace ==
  /\ forkPc \in {"look", "clone", "walk", "judge"} => forkVia = "reflink"
  /\ forkPc \in {"door", "status", "stream", "strip"} => forkVia = "basebackup"

ForkSense == ViaAllowed /\ DirectoryEmpty /\ AtRestSince /\ CopyMade /\ ViaOfPlace

ForkIInv == ForkTypes /\ ForkSense

LEMMA ForkSenseStep == ForkTypes /\ ForkSense /\ [ForkNext]_forkVars => ForkSense'
<1> USE DEF ForkSense, ViaAllowed, DirectoryEmpty, AtRestSince, CopyMade, ViaOfPlace, Bare
<1> SUFFICES ASSUME ForkTypes, ForkSense, [ForkNext]_forkVars PROVE ForkSense'
  OBVIOUS
<1>0. ForkTypes /\ ViaAllowed /\ DirectoryEmpty /\ AtRestSince /\ CopyMade /\ ViaOfPlace
  OBVIOUS
<1>01. /\ source \in SourceType /\ copy \in CopyType /\ source.runs \in Nat /\ source.ver \in Nat
       /\ forkBefore.runs \in Nat
  BY <1>0, SourceParts, ForkAssumption DEF ForkTypes, Fingerprint
<1>1. CASE ForkBegins \/ ProvisionBegins \/ ProbeUnreadable \/ OrphanBytesStay
  BY <1>0, <1>1 DEF ForkBegins, ProvisionBegins, ProbeUnreadable, OrphanBytesStay, Goes, ForkFails, ForkTypes
<1>2. CASE ClearOrphanBytes
  BY <1>0, <1>2 DEF ClearOrphanBytes, ForkTypes, Via
<1>3. CASE LooksAtSource
  BY <1>0, <1>01, <1>3 DEF LooksAtSource, FallsBack, ForkFails, ForkTypes, RunFingerprint
<1>31. CASE SourceUnreadable \/ NoReflink \/ CloneFails
  BY <1>0, <1>31 DEF SourceUnreadable, NoReflink, CloneFails, FallsBack, ForkFails, Goes, ForkTypes
<1>32. CASE CopyJudged
  BY <1>0, <1>01, <1>32 DEF CopyJudged, Goes, RunFingerprint, AtRest
<1>4. CASE CloneBegins
  <2>1. copy.held = "none" /\ forkVia = "reflink"
    BY <1>0, <1>4 DEF CloneBegins, Goes
  <2>2. copy'.from = source.ver /\ copy'.mixed = (copy.held # "none")
    BY <1>4 DEF CloneBegins
  <2>3. ~copy'.mixed
    BY <2>1, <2>2
  <2> QED
    BY <1>0, <1>4, <2>1, <2>2, <2>3 DEF CloneBegins, Goes
<1>5. CASE ClonePostgres
  BY <1>0, <1>01, <1>5 DEF ClonePostgres, Goes, CopyType
<1>6. CASE EnsureSourceRunning \/ EnsureHba
  BY <1>0, <1>01, <1>6 DEF EnsureSourceRunning, EnsureHba, Goes
<1>8. CASE BackupEnds
  <2>1. copy.held = "none" /\ forkVia = "basebackup" /\ setting # "strict"
    BY <1>0, <1>8 DEF BackupEnds, Goes
  <2>2. copy'.held = "whole" /\ copy'.from = copy'.to /\ copy'.mixed = (copy.held # "none")
    BY <1>8 DEF BackupEnds
  <2>3. ~copy'.mixed
    BY <2>1, <2>2
  <2> QED
    BY <1>0, <1>8, <2>1, <2>2, <2>3 DEF BackupEnds, Goes
<1>9. CASE DoorFails \/ SourceNotReady \/ StripFails \/ PgIsReady \/ TornCopyRetried \/ TornCopyTwice \/ NotReady
  BY <1>0, <1>9 DEF DoorFails, SourceNotReady, StripFails, PgIsReady, TornCopyRetried, TornCopyTwice, NotReady,
                    FallsBack, ForkFails, Goes, ForkTypes
<1>91. CASE StripHba
  BY <1>0, <1>01, <1>91 DEF StripHba, Goes, CopyType
<1>10. CASE PgRun
  <2>1. CASE forkVia = "initdb"
    <3>1. copy.held = "none"
      BY <1>0, <1>10, <2>1 DEF PgRun, Goes
    <3>2. copy' = [Bare EXCEPT !.held = "whole", !.mixed = copy.held # "none"]
      BY <1>10, <2>1 DEF PgRun
    <3>3. copy'.held = "whole" /\ copy'.from = copy'.to /\ copy'.mixed = (copy.held # "none")
      BY <3>2
    <3>4. ~copy'.mixed
      BY <3>1, <3>3
    <3> QED
      BY <1>0, <1>10, <2>1, <3>3, <3>4 DEF PgRun, Goes
  <2>2. CASE forkVia # "initdb"
    BY <1>0, <1>10, <2>2 DEF PgRun, Goes
  <2> QED
    BY <2>1, <2>2
<1>11. ASSUME NEW b \in BOOLEAN, ClearOrphan(b) \/ BackupFails(b) \/ PgRunFails(b) \/ ForkRollsBack(b) PROVE ForkSense'
  BY <1>0, <1>11 DEF ClearOrphan, BackupFails, PgRunFails, ForkRollsBack, Goes, ForkFails
<1>12. ASSUME NEW b \in BOOLEAN, NEW c \in BOOLEAN, CopySpansAWrite(b, c) \/ CloneNotReady(b, c) PROVE ForkSense'
  BY <1>0, <1>12 DEF CopySpansAWrite, CloneNotReady, FallsBack, ForkFails, Goes, ForkTypes
<1>13. CASE ForkDies
  BY <1>0, <1>13 DEF ForkDies
<1>14. CASE SourceActs
  <2>1. /\ source'.runs >= source.runs
        /\ source'.runs = source.runs /\ source.state \in {"exited", "gone"} => source' = source
    <3>1. CASE SourceStarts \/ SourceStops
      <4>1. source'.runs = source.runs + 1
        BY <1>01, <3>1 DEF SourceStarts, SourceStops, SourceType
      <4> QED
        BY <1>01, <4>1
    <3>2. CASE SourcePauses \/ SourceUnpauses \/ SourceWrites
      BY <1>01, <3>2 DEF SourcePauses, SourceUnpauses, SourceWrites, SourceType
    <3> QED
      BY <1>14, <3>1, <3>2 DEF SourceActs
  <2>2. source'.runs \in Nat
    BY <1>14, SourceType1, SourceParts DEF ForkTypes
  <2> QED
    BY <1>0, <1>01, <1>14, <2>1, <2>2 DEF SourceActs, AtRest
<1>15. CASE UNCHANGED forkVars
  BY <1>0, <1>15 DEF forkVars
<1> QED
  BY <1>1, <1>2, <1>3, <1>31, <1>32, <1>4, <1>5, <1>6, <1>8, <1>9, <1>91, <1>10, <1>11, <1>12, <1>13, <1>14, <1>15
     DEF ForkNext, ForkStep

LEMMA ForkInvStep == ForkIInv /\ [ForkNext]_forkVars => ForkIInv'
BY ForkTypeStep, ForkSenseStep DEF ForkIInv

(* No container starts on a clone that spans a write, or on bytes of two   *)
(* attempts, or on a stream's open door.                                   *)
THEOREM ForksAreSound == ForkSpec => []ForkIsSound
<1>1. ForkInit => ForkIInv
  BY ForkInitType DEF ForkInit, ForkIInv, ForkSense, ViaAllowed, DirectoryEmpty, AtRestSince, CopyMade, ViaOfPlace
<1>2. ForkIInv => ForkIsSound
  BY DEF ForkIInv, ForkSense, ForkIsSound, CopyMade, ViaAllowed
<1> QED
  BY <1>1, <1>2, ForkInvStep, PTL DEF ForkSpec
-----------------------------------------------------------------------------
(* The lock on the data directory.                                         *)

LockStep(p) ==
  \/ \E oneShot \in BOOLEAN : Starts(p, oneShot)
  \/ OpenExclusive(p) \/ StatKey(p) \/ Judges(p) \/ TakesOver(p) \/ TriesAgain(p)
  \/ HeartBeat(p) \/ ReleaseLock(p) \/ ReadHolder(p) \/ UnlinksOwn(p)
  \/ Killed(p) \/ Paused(p) \/ Resumed(p)

LEMMA LockSteps == LockNext => TimePasses \/ \E p \in Proc : LockStep(p)
BY DEF LockNext, LockStep

ProcType == [pc : LockPc, start : 0..MaxTime, oneShot : BOOLEAN, seen : LockFileType, takeovers : Nat,
             due : Nat, awake : BOOLEAN, slept : BOOLEAN]

LEMMA NoFileType == NoFile \in LockFileType
BY LockAssumption DEF NoFile, LockFileType

LEMMA OffType == Off \in ProcType
BY NoFileType, LockAssumption DEF Off, ProcType, LockPc

(* What a step makes of its process, and of the file.                      *)
LEMMA LockTypeStep == LockTypeOK /\ [LockNext]_lockVars => LockTypeOK'
<1> USE LockAssumption, NoFileType, OffType
<1> SUFFICES ASSUME LockTypeOK, [LockNext]_lockVars PROVE LockTypeOK'
  OBVIOUS
<1>0. /\ lockNow \in 0..MaxTime /\ lockNow \in Nat /\ lockFile \in LockFileType
      /\ proc \in [Proc -> ProcType] /\ misjudged \in BOOLEAN
  BY DEF LockTypeOK, ProcType
<1>1. CASE TimePasses
  BY <1>1 DEF TimePasses, LockTypeOK
<1>2. ASSUME NEW p \in Proc, LockStep(p) PROVE LockTypeOK'
  <2>0. proc[p] \in ProcType
    BY <1>0
  <2>1. ASSUME NEW oneShot \in BOOLEAN, Starts(p, oneShot) PROVE LockTypeOK'
    <3>1. [Off EXCEPT !.pc = "open", !.start = lockNow, !.oneShot = oneShot] \in ProcType
      BY <1>0 DEF ProcType, LockPc
    <3> QED
      BY <1>0, <2>1, <3>1 DEF Starts, LockTypeOK, ProcType
  <2>2. CASE OpenExclusive(p)
    <3>1. [by |-> p, mtime |-> lockNow] \in LockFileType
      BY <1>0 DEF LockFileType
    <3>2. [Off EXCEPT !.pc = "runs", !.due = lockNow + Beat] \in ProcType
      <4>1. lockNow + Beat \in Nat
        BY <1>0
      <4> QED
        BY <4>1 DEF ProcType, LockPc
    <3>3. [proc[p] EXCEPT !.pc = "stat"] \in ProcType
      BY <2>0 DEF ProcType, LockPc
    <3> QED
      BY <1>0, <2>2, <3>1, <3>2, <3>3 DEF OpenExclusive, LockTypeOK, ProcType
  <2>3. CASE StatKey(p)
    <3>1. \A pc \in LockPc : [proc[p] EXCEPT !.pc = pc, !.seen = lockFile] \in ProcType
      BY <1>0, <2>0 DEF ProcType
    <3>2. "open" \in LockPc /\ "judge" \in LockPc
      BY DEF LockPc
    <3>3. PICK pc \in LockPc : proc' = [proc EXCEPT ![p] = [proc[p] EXCEPT !.pc = pc, !.seen = lockFile]]
      BY <2>3, <3>2 DEF StatKey
    <3>4. proc \in [Proc -> ProcType]
      BY DEF LockTypeOK, ProcType
    <3>5. proc' \in [Proc -> ProcType]
      BY <3>1, <3>3, <3>4
    <3> QED
      BY <2>3, <3>5 DEF StatKey, LockTypeOK, ProcType
  <2>4. ASSUME NEW r \in ProcType PROVE RefusedOrWaits(r, Deadline(p)) \in ProcType
    <3>1. Deadline(p) \in Nat
      BY <2>0 DEF Deadline, ProcType
    <3>2. [r EXCEPT !.pc = "refused"] \in ProcType
      BY DEF ProcType, LockPc
    <3>3. ASSUME ~(lockNow >= Deadline(p))
          PROVE  [r EXCEPT !.pc = "wait", !.seen = NoFile,
                           !.due = lockNow + Least(RetryWait, Deadline(p) - lockNow)] \in ProcType
      <4>1. lockNow + Least(RetryWait, Deadline(p) - lockNow) \in Nat
        BY <1>0, <3>1, <3>3 DEF Least
      <4> QED
        BY <4>1 DEF ProcType, LockPc
    <3> QED
      BY <3>2, <3>3 DEF RefusedOrWaits
  <2>5. CASE Judges(p)
    <3>1. [proc[p] EXCEPT !.pc = "unlink"] \in ProcType
      BY <2>0 DEF ProcType, LockPc
    <3> QED
      BY <1>0, <2>0, <2>4, <2>5, <3>1 DEF Judges, LockTypeOK, ProcType
  <2>6. CASE TakesOver(p)
    <3> DEFINE r == [proc[p] EXCEPT !.takeovers = @ + 1]
    <3>1. r \in ProcType
      BY <2>0 DEF ProcType
    <3>2. [r EXCEPT !.pc = "open", !.seen = NoFile] \in ProcType
      BY <3>1 DEF ProcType, LockPc
    <3> QED
      BY <1>0, <2>4, <2>6, <3>1, <3>2 DEF TakesOver, LockTypeOK, ProcType
  <2>7. CASE TriesAgain(p)
    <3>1. [proc[p] EXCEPT !.pc = "open", !.due = 0] \in ProcType
      BY <2>0 DEF ProcType, LockPc
    <3> QED
      BY <1>0, <2>7, <3>1 DEF TriesAgain, LockTypeOK, ProcType
  <2>8. CASE HeartBeat(p)
    <3>1. [lockFile EXCEPT !.mtime = lockNow] \in LockFileType
      BY <1>0 DEF LockFileType
    <3>2. Overslept(p) \in BOOLEAN
      BY <2>0 DEF Overslept, ProcType
    <3>3. [proc[p] EXCEPT !.due = lockNow + Beat, !.slept = Overslept(p)] \in ProcType
      <4>1. lockNow + Beat \in Nat
        BY <1>0
      <4> QED
        BY <4>1, <2>0, <3>2 DEF ProcType
    <3> QED
      BY <1>0, <2>8, <3>1, <3>3 DEF HeartBeat, LockTypeOK, ProcType
  <2>9. CASE ReleaseLock(p) \/ Paused(p) \/ Resumed(p)
    <3>1. /\ [proc[p] EXCEPT !.pc = "reads"] \in ProcType
          /\ [proc[p] EXCEPT !.awake = TRUE] \in ProcType
          /\ [proc[p] EXCEPT !.awake = FALSE] \in ProcType
      BY <2>0 DEF ProcType, LockPc
    <3>2. /\ proc' \in [Proc -> ProcType]
          /\ UNCHANGED <<lockNow, lockFile, misjudged>>
      BY <1>0, <2>9, <3>1 DEF ReleaseLock, Paused, Resumed
    <3> QED
      BY <1>0, <3>2 DEF LockTypeOK, ProcType
  <2>10. CASE ReadHolder(p)
    <3>1. [proc[p] EXCEPT !.pc = "unlinks"] \in ProcType
      BY <2>0 DEF ProcType, LockPc
    <3> QED
      BY <1>0, <2>10, <3>1 DEF ReadHolder, LockTypeOK, ProcType
  <2>11. CASE UnlinksOwn(p) \/ Killed(p)
    BY <1>0, <2>11 DEF UnlinksOwn, Killed, LockTypeOK, ProcType
  <2> QED
    BY <1>2, <2>1, <2>2, <2>3, <2>5, <2>6, <2>7, <2>8, <2>9, <2>10, <2>11 DEF LockStep
<1>3. CASE UNCHANGED lockVars
  BY <1>3 DEF lockVars, LockTypeOK
<1> QED
  BY <1>1, <1>2, <1>3, LockSteps

LEMMA LockInitType == LockInit => LockTypeOK
<1>1. LockInit => proc \in [Proc -> ProcType]
  BY OffType DEF LockInit
<1>2. LockInit => lockNow \in 0..MaxTime
  BY LockAssumption DEF LockInit
<1>3. LockInit => lockFile \in LockFileType
  BY NoFileType DEF LockInit
<1>4. LockInit => misjudged \in BOOLEAN
  BY DEF LockInit
<1> QED
  BY <1>1, <1>2, <1>3, <1>4 DEF LockTypeOK, ProcType

(* Every variable of the process lock keeps its type.                      *)
THEOREM LockTypesHold == LockSpec => []LockTypeOK
<1>1. LockInit => LockTypeOK
  BY LockInitType
<1> QED
  BY <1>1, LockTypeStep, PTL DEF LockSpec
-----------------------------------------------------------------------------
(* What a process knows of the lock.  Times lie in the past; what it is to *)
(* remove was stale when it looked; after it has removed one, every lock   *)
(* that it meets is younger than its start; and it is the maker of the     *)
(* lock for as long as it has not been paused too long.                    *)
TimesPast(p) ==
  /\ proc[p].start <= lockNow /\ proc[p].seen.mtime <= lockNow
  /\ Holds(p) => proc[p].due <= lockNow + Beat

JudgedStale(p) == proc[p].pc = "unlink" => Age(proc[p].seen) > StaleAfter

MetLater(p) ==
  proc[p].takeovers > 0 => /\ lockFile = NoFile \/ lockFile.mtime >= proc[p].start
                           /\ proc[p].pc \in {"judge", "unlink"} => proc[p].seen.mtime >= proc[p].start

RefusedLater(p) == proc[p].pc = "refused" /\ ~proc[p].oneShot => proc[p].seen.mtime >= proc[p].start

KeepsOwn(p) ==
  ~misjudged /\ Holds(p) /\ ~Overslept(p) => lockFile.by = p /\ lockFile.mtime >= LastBeat(p)

KnowsLock(p) == TimesPast(p) /\ JudgedStale(p) /\ MetLater(p) /\ RefusedLater(p) /\ KeepsOwn(p)

LockIInv == LockTypeOK /\ lockFile.mtime <= lockNow /\ \A p \in Proc : KnowsLock(p)

LEMMA LockInitInv == LockInit => LockIInv
<1> SUFFICES ASSUME LockInit PROVE LockIInv
  OBVIOUS
<1>1. LockTypeOK
  BY LockInitType
<1> USE LockAssumption DEF LockInit, NoFile, Off
<1>2. lockFile.mtime <= lockNow
  OBVIOUS
<1>3. ASSUME NEW p \in Proc PROVE KnowsLock(p)
  BY DEF KnowsLock, TimesPast, JudgedStale, MetLater, RefusedLater, KeepsOwn, Holds
<1> QED
  BY <1>1, <1>2, <1>3 DEF LockIInv

LEMMA TimePassesKeeps == LockIInv /\ TimePasses => LockIInv'
<1> USE LockAssumption DEF TimePasses
<1> SUFFICES ASSUME LockIInv, TimePasses PROVE LockIInv'
  OBVIOUS
<1>1. LockTypeOK' /\ LockTypeOK
  BY LockTypeStep DEF LockIInv, LockNext
<1>2. lockFile'.mtime <= lockNow'
  BY DEF LockIInv, LockTypeOK, LockFileType
<1>3. ASSUME NEW p \in Proc PROVE KnowsLock(p)'
  <2> KnowsLock(p)
    BY DEF LockIInv
  <2> QED
    BY <1>1 DEF KnowsLock, TimesPast, JudgedStale, MetLater, RefusedLater, KeepsOwn, Holds, Overslept,
                LastBeat, Age, LockTypeOK, LockFileType
<1> QED
  BY <1>1, <1>2, <1>3 DEF LockIInv

(* A step of p: what p knows after it, and what the others still know.     *)
LEMMA LockStepSelf ==
  ASSUME LockIInv, LockTypeOK', NEW p \in Proc, LockStep(p)
  PROVE KnowsLock(p)' /\ lockFile'.mtime <= lockNow'
<1> USE LockAssumption DEF KnowsLock, TimesPast, JudgedStale, MetLater, RefusedLater, KeepsOwn, Holds, NoFile, Off
<1> KnowsLock(p) /\ LockTypeOK /\ lockFile.mtime <= lockNow
  BY DEF LockIInv
<1>0. /\ lockNow \in Nat /\ lockFile.mtime \in Nat
      /\ proc[p].start \in Nat /\ proc[p].seen.mtime \in Nat /\ proc[p].due \in Nat /\ proc[p].takeovers \in Nat
      /\ proc \in [Proc -> [pc : LockPc, start : 0..MaxTime, oneShot : BOOLEAN, seen : LockFileType, takeovers : Nat,
                            due : Nat, awake : BOOLEAN, slept : BOOLEAN]]
      /\ lockFile \in LockFileType
  BY DEF LockTypeOK, LockFileType
<1>1. ASSUME NEW oneShot \in BOOLEAN, Starts(p, oneShot) PROVE KnowsLock(p)' /\ lockFile'.mtime <= lockNow'
  BY <1>0, <1>1 DEF Starts
<1>2. CASE OpenExclusive(p)
  <2>1. CASE lockFile = NoFile
    <3>1. proc'[p] = [Off EXCEPT !.pc = "runs", !.due = lockNow + Beat] /\ lockFile' = [by |-> p, mtime |-> lockNow]
      BY <1>0, <1>2, <2>1 DEF OpenExclusive
    <3> QED
      BY <1>0, <1>2, <3>1 DEF OpenExclusive, LastBeat, Overslept
  <2>2. CASE lockFile # NoFile
    BY <1>0, <1>2, <2>2 DEF OpenExclusive, Doing, LastBeat, Overslept
  <2> QED
    BY <2>1, <2>2
<1>3. CASE StatKey(p)
  BY <1>0, <1>3 DEF StatKey, Doing
<1>4. CASE Judges(p)
  BY <1>0, <1>4 DEF Judges, Doing, RefusedOrWaits, Deadline, Age
<1>5. CASE TakesOver(p)
  BY <1>0, <1>5 DEF TakesOver, Doing, RefusedOrWaits, Deadline, Age
<1>6. CASE TriesAgain(p)
  BY <1>0, <1>6 DEF TriesAgain, Doing
<1>7. CASE HeartBeat(p)
  <2>1. /\ proc'[p] = [proc[p] EXCEPT !.due = lockNow + Beat, !.slept = Overslept(p)]
        /\ lockNow' = lockNow /\ misjudged' = misjudged
    BY <1>0, <1>7 DEF HeartBeat
  <2>2. lockFile' = (IF lockFile = NoFile THEN NoFile ELSE [lockFile EXCEPT !.mtime = lockNow])
    BY <1>7 DEF HeartBeat
  <2>3. lockFile'.mtime <= lockNow /\ lockFile'.by = lockFile.by /\ (lockFile # NoFile => lockFile'.mtime = lockNow)
    BY <1>0, <2>2 DEF LockFileType
  <2>4. Overslept(p) => proc'[p].slept
    BY <1>0, <2>1
  <2>5. KeepsOwn(p)'
    <3> SUFFICES ASSUME ~misjudged, ~Overslept(p)', Holds(p)' PROVE lockFile'.by = p /\ lockFile'.mtime >= LastBeat(p)'
      BY <2>1 DEF KeepsOwn
    <3>1. ~Overslept(p) /\ Holds(p)
      BY <1>0, <2>1, <2>4 DEF Overslept, Holds
    <3>2. lockFile.by = p
      BY <3>1
    <3>3. lockFile # NoFile
      BY <3>2 DEF NoFile, NoHolder
    <3> QED
      BY <1>0, <2>1, <2>3, <3>2, <3>3 DEF LastBeat
  <2>6. JudgedStale(p)' /\ RefusedLater(p)' /\ TimesPast(p)'
    BY <1>0, <1>7, <2>1 DEF HeartBeat, Doing
  <2>7. MetLater(p)'
    BY <1>0, <1>7, <2>1, <2>2, <2>3 DEF HeartBeat, Doing
  <2> QED
    BY <2>1, <2>3, <2>5, <2>6, <2>7
<1>8. CASE ReleaseLock(p) \/ Killed(p) \/ Paused(p) \/ Resumed(p)
  BY <1>0, <1>8 DEF ReleaseLock, Killed, Paused, Resumed, Doing, Overslept, LastBeat, Age
<1>9. CASE ReadHolder(p)
  BY <1>0, <1>9 DEF ReadHolder, Doing, Overslept, LastBeat
<1>10. CASE UnlinksOwn(p)
  BY <1>0, <1>10 DEF UnlinksOwn, Doing
<1> QED
  BY <1>1, <1>2, <1>3, <1>4, <1>5, <1>6, <1>7, <1>8, <1>9, <1>10 DEF LockStep

LEMMA LockStepOther ==
  ASSUME LockIInv, LockTypeOK', NEW p \in Proc, LockStep(p), NEW q \in Proc, q # p
  PROVE KnowsLock(q)'
<1> USE LockAssumption DEF KnowsLock, NoFile, Off
<1> KnowsLock(q) /\ KnowsLock(p) /\ LockTypeOK /\ lockFile.mtime <= lockNow
  BY DEF LockIInv
<1>0. /\ lockNow \in Nat /\ lockFile.mtime \in Nat
      /\ proc[q].start \in Nat /\ proc[q].seen.mtime \in Nat /\ proc[q].due \in Nat /\ proc[q].takeovers \in Nat
      /\ lockFile \in LockFileType
  BY DEF LockTypeOK, LockFileType
<1>1. proc'[q] = proc[q] /\ lockNow' = lockNow
  BY DEF LockStep, LockTypeOK, Starts, OpenExclusive, StatKey, Judges, TakesOver, TriesAgain, HeartBeat, ReleaseLock,
         ReadHolder, UnlinksOwn, Killed, Paused, Resumed
<1>2. TimesPast(q)' /\ JudgedStale(q)' /\ RefusedLater(q)'
  BY <1>1 DEF TimesPast, JudgedStale, RefusedLater, Holds, Age
<1>3. CASE UNCHANGED <<lockFile, misjudged>>
  BY <1>1, <1>2, <1>3 DEF MetLater, KeepsOwn, Holds, Overslept, LastBeat
<1>4. CASE OpenExclusive(p)
  BY <1>0, <1>1, <1>2, <1>4 DEF OpenExclusive, MetLater, KeepsOwn, Holds, Overslept, LastBeat, TimesPast, NoHolder
<1>5. CASE TakesOver(p)
  <2>1. KeepsOwn(q)'
    <3> SUFFICES ASSUME ~misjudged', Holds(q), ~Overslept(q) PROVE FALSE
      BY <1>1 DEF KeepsOwn, Holds, Overslept, LastBeat
    <3>1. lockFile = NoFile \/ lockFile = proc[p].seen
      BY <1>5 DEF TakesOver
    <3>2. lockFile.by = q /\ lockFile.mtime >= LastBeat(q)
      BY <1>5 DEF TakesOver, KeepsOwn
    <3>3. lockFile = proc[p].seen
      BY <3>1, <3>2 DEF NoHolder
    <3>4. lockNow - lockFile.mtime > StaleAfter
      BY <1>5, <3>3 DEF TakesOver, Doing, JudgedStale, Age
    <3> QED
      BY <1>0, <3>2, <3>4 DEF Overslept, LastBeat
  <2>2. MetLater(q)'
    BY <1>0, <1>1, <1>5 DEF TakesOver, MetLater
  <2> QED
    BY <1>2, <2>1, <2>2
<1>6. CASE HeartBeat(p)
  BY <1>0, <1>1, <1>2, <1>6 DEF HeartBeat, MetLater, KeepsOwn, Holds, Overslept, LastBeat, TimesPast, NoHolder, LockFileType
<1>7. CASE UnlinksOwn(p)
  BY <1>0, <1>1, <1>2, <1>7 DEF UnlinksOwn, MetLater, KeepsOwn, Holds, Overslept, LastBeat, NoHolder
<1> QED
  BY <1>3, <1>4, <1>5, <1>6, <1>7 DEF LockStep, Starts, StatKey, Judges, TriesAgain, ReleaseLock, ReadHolder, Killed,
                                      Paused, Resumed

LEMMA LockInvStep == LockIInv /\ [LockNext]_lockVars => LockIInv'
<1> SUFFICES ASSUME LockIInv, [LockNext]_lockVars PROVE LockIInv'
  OBVIOUS
<1>1. LockTypeOK'
  BY LockTypeStep DEF LockIInv
<1>2. CASE TimePasses
  BY <1>2, TimePassesKeeps
<1>3. ASSUME NEW p \in Proc, LockStep(p) PROVE LockIInv'
  BY <1>1, <1>3, LockStepSelf, LockStepOther DEF LockIInv
<1>4. CASE UNCHANGED lockVars
  BY <1>4 DEF lockVars, LockIInv, LockTypeOK, KnowsLock, TimesPast, JudgedStale, MetLater, RefusedLater, KeepsOwn,
              Holds, Overslept, LastBeat, Age
<1> QED
  BY <1>2, <1>3, <1>4, LockSteps

LEMMA LockInvariant == LockSpec => []LockIInv
BY LockInitInv, LockInvStep, PTL DEF LockSpec

(* Two daemons run on one directory only if one of them was paused until   *)
(* its lock was stale, or a lock was removed that was not the one judged.  *)
THEOREM OneDaemonRuns == LockSpec => []OneDaemon
<1>1. LockIInv => OneDaemon
  BY DEF LockIInv, KnowsLock, KeepsOwn, OneDaemon
<1> QED
  BY <1>1, LockInvariant, PTL

(* A start is refused only for a lock that was made or touched after it.   *)
THEOREM DeadLocksDoNotRefuse == LockSpec => []StartsAfterKill
<1>1. LockIInv => StartsAfterKill
  BY DEF LockIInv, KnowsLock, RefusedLater, StartsAfterKill
<1> QED
  BY <1>1, LockInvariant, PTL
-----------------------------------------------------------------------------
(* The snapshot of container states.                                       *)

Verb == [busy : BOOLEAN, state : CtrState, ver : Ver, at : 0..MaxTick]
Entry == [state : CtrState, ver : Ver, at : 0..MaxTick]
ListingType == [pc : {"none", "issued", "seen"}, at : 0..MaxTick, seen : [Ctr -> CtrType]]
Outcome == [ver : Ver, stands : BOOLEAN]

SnapTypes ==
  /\ tick \in 0..MaxTick /\ docker \in [Ctr -> CtrType] /\ verb \in [Ctr -> Verb]
  /\ snapshot \in [Ctr -> Entry] /\ listing \in [Listing -> ListingType] /\ outcome \in [Ctr -> Outcome]

LEMMA SnapTypesAre == SnapTypeOK <=> SnapTypes
BY DEF SnapTypeOK, SnapTypes, Verb, Entry, ListingType, Outcome

LEMMA EmptyTypes ==
  NoVerb \in Verb /\ NoEntry \in Entry /\ NoListing \in ListingType
<1> 0 \in Ver /\ 0 \in 0..MaxTick /\ "gone" \in CtrState
  BY SnapshotAssumption DEF Ver, CtrState
<1>1. NoVerb \in Verb
  BY DEF NoVerb, Verb
<1>2. NoEntry \in Entry
  BY DEF NoEntry, Entry
<1>3. [c \in Ctr |-> [state |-> "gone", ver |-> 0]] \in [Ctr -> CtrType]
  BY DEF CtrType
<1>4. NoListing \in ListingType
  BY <1>3 DEF NoListing, ListingType
<1> QED
  BY <1>1, <1>2, <1>4

LEMMA SnapInitType == SnapInit => SnapTypes
<1> SUFFICES ASSUME SnapInit PROVE SnapTypes
  OBVIOUS
<1> 0 \in Ver /\ 0 \in 0..MaxTick
  BY SnapshotAssumption DEF Ver
<1>1. docker \in [Ctr -> CtrType]
  <2>1. {[state |-> st, ver |-> 0] : st \in CtrState} \subseteq CtrType
    BY DEF CtrType
  <2> QED
    BY <2>1 DEF SnapInit
<1>2. outcome \in [Ctr -> Outcome]
  <2>1. [ver |-> 0, stands |-> FALSE] \in Outcome
    BY DEF Outcome
  <2> QED
    BY <2>1 DEF SnapInit
<1> QED
  BY <1>1, <1>2, EmptyTypes DEF SnapInit, SnapTypes

LEMMA SnapTypeStep == SnapTypes /\ [SnapNext]_snapVars => SnapTypes'
<1> SUFFICES ASSUME SnapTypes, [SnapNext]_snapVars PROVE SnapTypes'
  OBVIOUS
<1> USE EmptyTypes
<1>0. /\ tick \in 0..MaxTick /\ docker \in [Ctr -> CtrType] /\ verb \in [Ctr -> Verb]
      /\ snapshot \in [Ctr -> Entry] /\ listing \in [Listing -> ListingType] /\ outcome \in [Ctr -> Outcome]
  BY DEF SnapTypes
<1>1. CASE Tick
  BY <1>1, SnapshotAssumption DEF Tick, SnapTypes
<1>2. ASSUME NEW c \in Ctr, NEW st \in CtrState, Becomes(c, st) PROVE docker' \in [Ctr -> CtrType] /\ docker[c].ver + 1 \in Ver
  <2>1. docker[c].ver + 1 \in Ver
    BY <1>0, <1>2, SnapshotAssumption DEF Becomes, CtrType, Ver
  <2>2. [state |-> st, ver |-> docker[c].ver + 1] \in CtrType
    BY <2>1 DEF CtrType
  <2> QED
    BY <1>0, <1>2, <2>1, <2>2 DEF Becomes
<1>3. ASSUME NEW c \in Ctr, NEW st \in CtrState, ByItself(c, st) PROVE SnapTypes'
  BY <1>2, <1>3 DEF ByItself, SnapTypes
<1>4. ASSUME NEW c \in Ctr, NEW st \in CtrState, VerbActs(c, st) PROVE SnapTypes'
  <2>1. docker' \in [Ctr -> CtrType] /\ docker[c].ver + 1 \in Ver
    BY <1>2, <1>4 DEF VerbActs
  <2>2. [busy |-> TRUE, state |-> st, ver |-> docker[c].ver + 1, at |-> tick] \in Verb
    BY <1>0, <2>1 DEF Verb
  <2>3. verb' \in [Ctr -> Verb]
    BY <1>0, <1>4, <2>2 DEF VerbActs
  <2> QED
    BY <1>0, <1>4, <2>1, <2>3 DEF VerbActs, SnapTypes
<1>5. ASSUME NEW c \in Ctr, SetCached(c) PROVE SnapTypes'
  <2>1. /\ verb[c].state \in CtrState /\ verb[c].ver \in Ver
    BY <1>0 DEF Verb
  <2>2. [state |-> verb[c].state, ver |-> verb[c].ver, at |-> tick] \in Entry
    BY <1>0, <2>1 DEF Entry
  <2>3. [ver |-> verb[c].ver, stands |-> TRUE] \in Outcome
    BY <2>1 DEF Outcome
  <2> QED
    BY <1>0, <1>5, <2>2, <2>3 DEF SetCached, SnapTypes
<1>6. ASSUME NEW c \in Ctr, VerbEnds(c) PROVE SnapTypes'
  BY <1>0, <1>6 DEF VerbEnds, SnapTypes
<1>7. ASSUME NEW c \in Ctr, StopFails(c) PROVE SnapTypes'
  <2>1. [outcome[c] EXCEPT !.stands = FALSE] \in Outcome
    BY <1>0 DEF Outcome
  <2> QED
    BY <1>0, <1>7, <2>1 DEF StopFails, SnapTypes
<1>8. ASSUME NEW r \in Listing, ReadContainers(r) PROVE SnapTypes'
  <2>1. [NoListing EXCEPT !.pc = "issued", !.at = tick] \in ListingType
    BY <1>0 DEF ListingType
  <2> QED
    BY <1>0, <1>8, <2>1 DEF ReadContainers, SnapTypes
<1>9. ASSUME NEW r \in Listing, DockerLists(r) PROVE SnapTypes'
  <2>1. [listing[r] EXCEPT !.pc = "seen", !.seen = docker] \in ListingType
    BY <1>0 DEF ListingType
  <2> QED
    BY <1>0, <1>9, <2>1 DEF DockerLists, SnapTypes
<1>10. ASSUME NEW r \in Listing, ListingFails(r) PROVE SnapTypes'
  BY <1>0, <1>10 DEF ListingFails, SnapTypes
<1>11. ASSUME NEW r \in Listing, Absorb(r) PROVE SnapTypes'
  <2>1. ASSUME NEW c \in Ctr PROVE Absorbed(c, listing[r].seen[c], listing[r].at) \in Entry
    <3>1. listing[r].seen[c] \in CtrType /\ listing[r].at \in 0..MaxTick
      BY <1>0 DEF ListingType
    <3> QED
      BY <1>0, <3>1 DEF Absorbed, Entry, CtrType
  <2>2. snapshot' \in [Ctr -> Entry]
    BY <1>11, <2>1 DEF Absorb
  <2>3. ASSUME NEW c \in Ctr PROVE [outcome[c] EXCEPT !.stands = @ /\ snapshot'[c].state # "gone"] \in Outcome
    <3>1. \A b \in BOOLEAN : [outcome[c] EXCEPT !.stands = b] \in Outcome
      BY <1>0 DEF Outcome
    <3>2. (outcome[c].stands /\ snapshot'[c].state # "gone") \in BOOLEAN
      OBVIOUS
    <3> QED
      BY <3>1, <3>2
  <2> QED
    BY <1>0, <1>11, <2>2, <2>3 DEF Absorb, SnapTypes
<1>12. CASE UNCHANGED snapVars
  BY <1>12 DEF snapVars, SnapTypes
<1> QED
  BY <1>1, <1>3, <1>4, <1>5, <1>6, <1>7, <1>8, <1>9, <1>10, <1>11, <1>12 DEF SnapNext

(* Every variable of the snapshot keeps its type.                          *)
THEOREM SnapTypesHold == SnapSpec => []SnapTypeOK
BY SnapInitType, SnapTypeStep, SnapTypesAre, PTL DEF SnapSpec
-----------------------------------------------------------------------------
(* Versions only grow.  A listing issued after an operation took effect    *)
(* has seen the effect; and so has any that is not older than the entry    *)
(* that the operation's outcome, or a later listing, has left.             *)
VersionsGrow ==
  \A c \in Ctr : /\ outcome[c].ver <= docker[c].ver
                 /\ verb[c].busy => verb[c].ver <= docker[c].ver /\ verb[c].at <= tick

ListedInPast == \A r \in Listing : listing[r].at <= tick

EntryStands ==
  \A c \in Ctr : outcome[c].stands => snapshot[c].state # "gone" /\ snapshot[c].ver >= outcome[c].ver

ListingSawOutcome ==
  \A c \in Ctr, r \in Listing :
    listing[r].pc = "seen" /\ outcome[c].stands /\ listing[r].at >= snapshot[c].at =>
      listing[r].seen[c].ver >= outcome[c].ver

ListingSawVerb ==
  \A c \in Ctr, r \in Listing :
    listing[r].pc = "seen" /\ verb[c].busy /\ listing[r].at > verb[c].at => listing[r].seen[c].ver >= verb[c].ver

SnapSense == VersionsGrow /\ ListedInPast /\ EntryStands /\ ListingSawOutcome /\ ListingSawVerb

SnapIInv == SnapTypes /\ SnapSense

LEMMA SnapNumbers ==
  ASSUME SnapTypes
  PROVE  /\ tick \in Nat
         /\ \A c \in Ctr : /\ docker[c].ver \in Nat /\ verb[c].ver \in Nat /\ verb[c].at \in Nat
                           /\ snapshot[c].ver \in Nat /\ snapshot[c].at \in Nat /\ outcome[c].ver \in Nat
         /\ \A r \in Listing : listing[r].at \in Nat /\ \A c \in Ctr : listing[r].seen[c].ver \in Nat
<1>1. tick \in Nat
  BY SnapshotAssumption DEF SnapTypes
<1>2. ASSUME NEW c \in Ctr
      PROVE  /\ docker[c].ver \in Nat /\ verb[c].ver \in Nat /\ verb[c].at \in Nat
             /\ snapshot[c].ver \in Nat /\ snapshot[c].at \in Nat /\ outcome[c].ver \in Nat
  BY SnapshotAssumption DEF SnapTypes, CtrType, Verb, Entry, Outcome, Ver
<1>3. ASSUME NEW r \in Listing PROVE listing[r].at \in Nat /\ \A c \in Ctr : listing[r].seen[c].ver \in Nat
  <2>1. listing[r].at \in 0..MaxTick /\ listing[r].seen \in [Ctr -> CtrType]
    BY DEF SnapTypes, ListingType
  <2> QED
    BY <2>1, SnapshotAssumption DEF CtrType, Ver
<1> QED
  BY <1>1, <1>2, <1>3

LEMMA SnapSenseStep == SnapTypes /\ SnapTypes' /\ SnapSense /\ [SnapNext]_snapVars => SnapSense'
<1> USE DEF SnapSense, VersionsGrow, ListedInPast, EntryStands, ListingSawOutcome, ListingSawVerb
<1> SUFFICES ASSUME SnapTypes, SnapTypes', SnapSense, [SnapNext]_snapVars PROVE SnapSense'
  OBVIOUS
<1>0. /\ docker \in [Ctr -> CtrType] /\ verb \in [Ctr -> Verb] /\ snapshot \in [Ctr -> Entry]
      /\ listing \in [Listing -> ListingType] /\ outcome \in [Ctr -> Outcome]
  BY DEF SnapTypes
<1>n. /\ tick \in Nat
      /\ \A c \in Ctr : /\ docker[c].ver \in Nat /\ verb[c].ver \in Nat /\ verb[c].at \in Nat
                        /\ snapshot[c].ver \in Nat /\ snapshot[c].at \in Nat /\ outcome[c].ver \in Nat
      /\ \A r \in Listing : listing[r].at \in Nat /\ \A c \in Ctr : listing[r].seen[c].ver \in Nat
  BY SnapNumbers
<1>1. CASE Tick
  BY <1>n, <1>1 DEF Tick
<1>2. ASSUME NEW c \in Ctr, NEW st \in CtrState, Becomes(c, st)
      PROVE  \A d \in Ctr : docker'[d].ver >= docker[d].ver /\ docker'[d].ver \in Nat /\ docker'[c].ver = docker[c].ver + 1
  BY <1>0, <1>n, <1>2 DEF Becomes
<1>3. ASSUME NEW c \in Ctr, NEW st \in CtrState, ByItself(c, st) PROVE SnapSense'
  BY <1>n, <1>2, <1>3 DEF ByItself
<1>4. ASSUME NEW c \in Ctr, NEW st \in CtrState, VerbActs(c, st) PROVE SnapSense'
  <2>1. \A d \in Ctr : docker'[d].ver >= docker[d].ver /\ docker'[d].ver \in Nat /\ docker'[c].ver = docker[c].ver + 1
    BY <1>2, <1>4 DEF VerbActs
  <2>2. /\ \A d \in Ctr : d # c => verb'[d] = verb[d]
        /\ verb'[c].ver = docker[c].ver + 1 /\ verb'[c].at = tick
        /\ UNCHANGED <<tick, snapshot, listing, outcome>>
    BY <1>0, <1>4 DEF VerbActs
  <2>3. VersionsGrow'
    BY <1>n, <2>1, <2>2
  <2>4. ListingSawVerb'
    BY <1>n, <2>2
  <2> QED
    BY <2>2, <2>3, <2>4
<1>5. ASSUME NEW c \in Ctr, SetCached(c) PROVE SnapSense'
  <2>1. /\ \A d \in Ctr : d # c => verb'[d] = verb[d] /\ snapshot'[d] = snapshot[d] /\ outcome'[d] = outcome[d]
        /\ ~verb'[c].busy /\ verb[c].busy /\ verb[c].state # "gone" /\ tick > verb[c].at
        /\ snapshot'[c] = [state |-> verb[c].state, ver |-> verb[c].ver, at |-> tick]
        /\ outcome'[c] = [ver |-> verb[c].ver, stands |-> TRUE]
        /\ UNCHANGED <<tick, docker, listing>>
    BY <1>0, <1>5 DEF SetCached, NoVerb
  <2>2. VersionsGrow' /\ EntryStands' /\ ListingSawVerb'
    BY <1>n, <2>1
  <2>3. ListingSawOutcome'
    BY <1>n, <2>1
  <2> QED
    BY <2>1, <2>2, <2>3
<1>6. ASSUME NEW c \in Ctr, VerbEnds(c) PROVE SnapSense'
  BY <1>0, <1>n, <1>6 DEF VerbEnds, NoVerb
<1>7. ASSUME NEW c \in Ctr, StopFails(c) PROVE SnapSense'
  <2>1. /\ \A d \in Ctr : d # c => verb'[d] = verb[d] /\ snapshot'[d] = snapshot[d] /\ outcome'[d] = outcome[d]
        /\ ~verb'[c].busy /\ ~outcome'[c].stands /\ outcome'[c].ver = outcome[c].ver
        /\ UNCHANGED <<tick, docker, listing>>
    BY <1>0, <1>7 DEF StopFails, NoVerb, Outcome
  <2> QED
    BY <1>n, <2>1
<1>8. ASSUME NEW r \in Listing, ReadContainers(r) PROVE SnapSense'
  <2>1. /\ \A u \in Listing : u # r => listing'[u] = listing[u]
        /\ listing'[r].pc = "issued" /\ listing'[r].at = tick
        /\ UNCHANGED <<tick, docker, verb, snapshot, outcome>>
    BY <1>0, <1>8 DEF ReadContainers, NoListing
  <2> QED
    BY <1>n, <2>1
<1>9. ASSUME NEW r \in Listing, DockerLists(r) PROVE SnapSense'
  <2>1. /\ \A u \in Listing : u # r => listing'[u] = listing[u]
        /\ listing'[r].at = listing[r].at /\ listing'[r].seen = docker
        /\ UNCHANGED <<tick, docker, verb, snapshot, outcome>>
    BY <1>0, <1>9 DEF DockerLists, ListingType
  <2> QED
    BY <1>n, <2>1
<1>10. ASSUME NEW r \in Listing, ListingFails(r) PROVE SnapSense'
  <2>1. /\ \A u \in Listing : u # r => listing'[u] = listing[u]
        /\ listing'[r].pc = "none" /\ listing'[r].at = 0
        /\ UNCHANGED <<tick, docker, verb, snapshot, outcome>>
    BY <1>0, <1>10 DEF ListingFails, NoListing
  <2> QED
    BY <1>n, <2>1
<1>11. ASSUME NEW r \in Listing, Absorb(r) PROVE SnapSense'
  <2>1. /\ \A u \in Listing : u # r => listing'[u] = listing[u]
        /\ listing'[r].pc = "none" /\ listing'[r].at = 0
        /\ UNCHANGED <<tick, docker, verb>>
    BY <1>0, <1>11 DEF Absorb, NoListing
  <2>2. \A c \in Ctr : outcome'[c].ver = outcome[c].ver
                       /\ (outcome'[c].stands => outcome[c].stands /\ snapshot'[c].state # "gone")
    BY <1>0, <1>11 DEF Absorb, Outcome
  <2>3. ASSUME NEW c \in Ctr, outcome'[c].stands
        PROVE  snapshot'[c].ver >= outcome[c].ver /\ snapshot'[c].at >= snapshot[c].at /\ snapshot'[c].at \in Nat
    <3>1. snapshot'[c] = Absorbed(c, listing[r].seen[c], listing[r].at)
      BY <1>11 DEF Absorb
    <3>2. outcome[c].stands /\ snapshot[c].state # "gone" /\ snapshot'[c].state # "gone"
      BY <2>2, <2>3
    <3>3. CASE snapshot[c].at > listing[r].at
      BY <1>n, <3>1, <3>2, <3>3 DEF Absorbed
    <3>4. CASE ~(snapshot[c].at > listing[r].at)
      <4>1. snapshot'[c].ver = listing[r].seen[c].ver /\ snapshot'[c].at = listing[r].at
        BY <3>1, <3>2, <3>4 DEF Absorbed, NoEntry
      <4>2. listing[r].pc = "seen"
        BY <1>11 DEF Absorb
      <4> QED
        BY <1>n, <3>2, <3>4, <4>1, <4>2
    <3> QED
      BY <3>3, <3>4
  <2>4. VersionsGrow' /\ ListedInPast' /\ ListingSawVerb'
    BY <1>n, <2>1, <2>2
  <2>5. EntryStands'
    BY <2>2, <2>3
  <2>6. ListingSawOutcome'
    BY <1>n, <2>1, <2>2, <2>3
  <2> QED
    BY <2>4, <2>5, <2>6
<1>12. CASE UNCHANGED snapVars
  BY <1>12 DEF snapVars
<1> QED
  BY <1>1, <1>3, <1>4, <1>5, <1>6, <1>7, <1>8, <1>9, <1>10, <1>11, <1>12 DEF SnapNext

LEMMA SnapInvariant == SnapSpec => []SnapIInv
<1>1. SnapInit => SnapSense
  <2> SUFFICES ASSUME SnapInit PROVE SnapSense
    OBVIOUS
  <2>1. /\ tick = 0
        /\ \A c \in Ctr : docker[c].ver = 0 /\ ~verb[c].busy /\ ~outcome[c].stands /\ outcome[c].ver = 0
        /\ \A r \in Listing : listing[r].pc = "none" /\ listing[r].at = 0
    BY DEF SnapInit, NoVerb, NoListing
  <2> QED
    BY <2>1 DEF SnapSense, VersionsGrow, ListedInPast, EntryStands, ListingSawOutcome, ListingSawVerb
<1> QED
  BY <1>1, SnapInitType, SnapTypeStep, SnapSenseStep, PTL DEF SnapSpec, SnapIInv

LEMMA ListingsDoRespect == SnapSpec => []ListingsRespectOutcomes
<1>1. SnapIInv => ListingsRespectOutcomes
  BY DEF SnapIInv, SnapSense, EntryStands, ListingsRespectOutcomes
<1> QED
  BY <1>1, SnapInvariant, PTL
-----------------------------------------------------------------------------
(* The addresses that the lanes dial.                                      *)

AddrType == [cached : BOOLEAN, run : Epoch, id : Epoch, crossed : BOOLEAN]
CallType == [pc : {"none", "asked", "seen", "wake", "dials"}, port : Served, woke : BOOLEAN,
             up : BOOLEAN, run : Epoch, id : Epoch, floor : Epoch, crossed : BOOLEAN]
BoxType == [up : BOOLEAN, run : Epoch, id : Epoch]

UpTypes ==
  box \in BoxType /\ cache \in [Served -> AddrType] /\ asking \in [Caller -> CallType] /\ forgot \in Epoch

LEMMA UpTypesAre == UpTypeOK <=> UpTypes
BY DEF UpTypeOK, UpTypes, AddrType, CallType, BoxType

LEMMA EpochZero == 0 \in Epoch
BY UpstreamAssumption DEF Epoch

LEMMA NextEpoch == ASSUME NEW n \in Epoch, n < MaxEpoch PROVE n + 1 \in Epoch
BY UpstreamAssumption DEF Epoch

LEMMA NoAddrType == NoAddr \in AddrType
BY EpochZero DEF NoAddr, AddrType

LEMMA NoCallType == ASSUME NEW p \in Served PROVE NoCall(p) \in CallType
BY EpochZero DEF NoCall, CallType

LEMMA UpInitType == UpInit => UpTypes
<1> SUFFICES ASSUME UpInit PROVE UpTypes
  OBVIOUS
<1>1. box \in BoxType
  BY EpochZero DEF UpInit, BoxType
<1> QED
  BY <1>1, EpochZero, NoAddrType, NoCallType DEF UpInit, UpTypes

(* What becomes of a call.                                                 *)
LEMMA CallParts ==
  ASSUME NEW r \in CallType
  PROVE  /\ r.port \in Served /\ r.run \in Epoch /\ r.id \in Epoch /\ r.floor \in Epoch /\ r.crossed \in BOOLEAN
         /\ \A b \in BOOLEAN : [r EXCEPT !.crossed = b] \in CallType
         /\ [r EXCEPT !.pc = "wake"] \in CallType /\ [r EXCEPT !.pc = "none"] \in CallType
         /\ [r EXCEPT !.pc = "asked"] \in CallType
         /\ [r EXCEPT !.pc = "seen", !.up = FALSE] \in CallType
         /\ [r EXCEPT !.pc = "dials", !.crossed = FALSE] \in CallType
         /\ \A n \in Epoch : /\ [r EXCEPT !.pc = "asked", !.woke = TRUE, !.floor = n] \in CallType
                             /\ [r EXCEPT !.pc = "dials", !.up = TRUE, !.run = n] \in CallType
         /\ \A b \in BOOLEAN, n, i \in Epoch : [r EXCEPT !.pc = "seen", !.up = b, !.run = n, !.id = i] \in CallType
<1>1. r.port \in Served /\ r.run \in Epoch /\ r.id \in Epoch /\ r.floor \in Epoch /\ r.crossed \in BOOLEAN
  BY DEF CallType
<1>2. \A b \in BOOLEAN : [r EXCEPT !.crossed = b] \in CallType
  BY DEF CallType
<1>3. /\ [r EXCEPT !.pc = "wake"] \in CallType /\ [r EXCEPT !.pc = "none"] \in CallType
      /\ [r EXCEPT !.pc = "asked"] \in CallType
  BY DEF CallType
<1>4. [r EXCEPT !.pc = "seen", !.up = FALSE] \in CallType
  BY DEF CallType
<1>5. [r EXCEPT !.pc = "dials", !.crossed = FALSE] \in CallType
  BY DEF CallType
<1>6. ASSUME NEW n \in Epoch
      PROVE  /\ [r EXCEPT !.pc = "asked", !.woke = TRUE, !.floor = n] \in CallType
             /\ [r EXCEPT !.pc = "dials", !.up = TRUE, !.run = n] \in CallType
  BY DEF CallType
<1>7. ASSUME NEW b \in BOOLEAN, NEW n \in Epoch, NEW i \in Epoch
      PROVE  [r EXCEPT !.pc = "seen", !.up = b, !.run = n, !.id = i] \in CallType
  BY DEF CallType
<1> QED
  BY <1>1, <1>2, <1>3, <1>4, <1>5, <1>6, <1>7

LEMMA ForgetTypes ==
  ASSUME UpTypes, Forget PROVE cache' \in [Served -> AddrType] /\ asking' \in [Caller -> CallType]
<1>1. ASSUME NEW q \in Caller
      PROVE  [asking[q] EXCEPT !.crossed = @ \/ asking[q].pc \in {"asked", "seen"}] \in CallType
  <2>1. (asking[q].crossed \/ asking[q].pc \in {"asked", "seen"}) \in BOOLEAN
    OBVIOUS
  <2>2. asking[q] \in CallType
    BY DEF UpTypes
  <2> QED
    BY <2>1, <2>2, CallParts
<1> QED
  BY <1>1, NoAddrType DEF Forget

LEMMA UpTypeStep == UpTypes /\ [UpNext]_upVars => UpTypes'
<1> SUFFICES ASSUME UpTypes, [UpNext]_upVars PROVE UpTypes'
  OBVIOUS
<1> USE NoAddrType, NoCallType, CallParts
<1>0. box \in BoxType /\ cache \in [Served -> AddrType] /\ asking \in [Caller -> CallType] /\ forgot \in Epoch
  BY DEF UpTypes
<1>1. ASSUME NEW b \in BOOLEAN, Runs(b) PROVE UpTypes'
  <2>1. box.run + 1 \in Epoch /\ box.id \in Epoch
    <3>1. box.run \in Epoch /\ box.id \in Epoch
      BY <1>0 DEF BoxType
    <3>2. box.run < MaxEpoch
      BY <1>1 DEF Runs
    <3> QED
      BY <3>1, <3>2, NextEpoch
  <2>2. [up |-> TRUE, run |-> box.run + 1, id |-> IF b THEN box.run + 1 ELSE box.id] \in BoxType
    BY <2>1 DEF BoxType
  <2> QED
    BY <1>0, <1>1, <2>2 DEF Runs, UpTypes
<1>2. CASE Stops
  <2>1. [box EXCEPT !.up = FALSE] \in BoxType
    BY <1>0 DEF BoxType
  <2> QED
    BY <1>0, <1>2, <2>1 DEF Stops, UpTypes
<1>3. ASSUME NEW n \in Epoch, OutcomeRecorded(n) PROVE UpTypes'
  BY <1>0, <1>3, ForgetTypes DEF OutcomeRecorded, UpTypes
<1>4. ASSUME NEW n \in Epoch, ForgetIfChanged(n) PROVE UpTypes'
  BY <1>0, <1>4 DEF ForgetIfChanged, UpTypes
<1>5. ASSUME NEW p \in Served, Expires(p) PROVE UpTypes'
  BY <1>0, <1>5 DEF Expires, UpTypes
<1>6. ASSUME NEW q \in Caller, NEW p \in Served, Resolve(q, p) PROVE UpTypes'
  <2>1. cache[p].run \in Epoch
    BY <1>0 DEF AddrType
  <2>2. NoCall(p) \in CallType
    BY NoCallType
  <2>3. /\ [NoCall(p) EXCEPT !.pc = "asked"] \in CallType
        /\ [NoCall(p) EXCEPT !.pc = "wake"] \in CallType
        /\ [NoCall(p) EXCEPT !.pc = "dials", !.up = TRUE, !.run = cache[p].run] \in CallType
    BY <2>1, <2>2
  <2>4. PICK c \in CallType : asking' = [asking EXCEPT ![q] = c]
    BY <1>6, <2>3 DEF Resolve
  <2> QED
    BY <1>0, <1>6, <2>4 DEF Resolve, UpTypes
<1>7. ASSUME NEW q \in Caller, DockerInspects(q) PROVE UpTypes'
  <2>1. [asking[q] EXCEPT !.pc = "seen", !.up = box.up, !.run = box.run, !.id = box.id] \in CallType
    BY <1>0 DEF BoxType
  <2> QED
    BY <1>0, <1>7, <2>1 DEF DockerInspects, UpTypes
<1>8. ASSUME NEW q \in Caller, InspectFails(q) PROVE UpTypes'
  BY <1>0, <1>8 DEF InspectFails, UpTypes
<1>9. ASSUME NEW q \in Caller, NEW b \in BOOLEAN, LookupAnswers(q, b) PROVE UpTypes'
  <2> DEFINE r == asking[q]
  <2>1. r \in CallType /\ r.port \in Served /\ NoCall(r.port) \in CallType
    BY <1>0
  <2>2. [cached |-> TRUE, run |-> r.run, id |-> r.id, crossed |-> r.crossed] \in AddrType
    BY <2>1 DEF AddrType
  <2>3. [r EXCEPT !.pc = "dials", !.crossed = FALSE] \in CallType /\ [NoCall(r.port) EXCEPT !.pc = "wake"] \in CallType
    BY <2>1
  <2> QED
    BY <1>0, <1>9, <2>1, <2>2, <2>3 DEF LookupAnswers, UpTypes
<1>10. ASSUME NEW q \in Caller, WakeFails(q) \/ Dialled(q) PROVE UpTypes'
  <2>1. NoCall(asking[q].port) \in CallType
    BY <1>0
  <2> QED
    BY <1>0, <1>10, <2>1 DEF WakeFails, Dialled, UpTypes
<1>11. ASSUME NEW q \in Caller, ForgetAndResolve(q) \/ DialRefused(q) PROVE UpTypes'
  <2>1. NoCall(asking[q].port) \in CallType
    BY <1>0
  <2>2. /\ [NoCall(asking[q].port) EXCEPT !.pc = "asked", !.woke = TRUE, !.floor = forgot] \in CallType
        /\ [NoCall(asking[q].port) EXCEPT !.pc = "none"] \in CallType
        /\ [NoCall(asking[q].port) EXCEPT !.pc = "wake"] \in CallType
    BY <1>0, <2>1
  <2>3. ASSUME NEW r \in Caller
        PROVE  [asking[r] EXCEPT !.crossed = @ \/ asking[r].pc \in {"asked", "seen"}] \in CallType
    <3>1. (asking[r].crossed \/ asking[r].pc \in {"asked", "seen"}) \in BOOLEAN
      OBVIOUS
    <3> QED
      BY <1>0, <3>1
  <2>4. [NoCall(asking[q].port) EXCEPT !.pc = IF asking[q].woke THEN "none" ELSE "wake"] \in CallType
    BY <2>2
  <2>5. cache' = [p \in Served |-> NoAddr]
    BY <1>11 DEF ForgetAndResolve, DialRefused
  <2>6. CASE ForgetAndResolve(q)
    BY <1>0, <2>2, <2>3, <2>5, <2>6 DEF ForgetAndResolve, UpTypes
  <2>7. CASE DialRefused(q)
    BY <1>0, <2>3, <2>4, <2>5, <2>7 DEF DialRefused, UpTypes
  <2> QED
    BY <1>11, <2>6, <2>7
<1>12. CASE UNCHANGED upVars
  BY <1>12 DEF upVars, UpTypes
<1> QED
  BY <1>1, <1>2, <1>3, <1>4, <1>5, <1>6, <1>7, <1>8, <1>9, <1>10, <1>11, <1>12 DEF UpNext

(* Every variable of the addresses keeps its type.                         *)
THEOREM UpTypesHold == UpSpec => []UpTypeOK
BY UpInitType, UpTypeStep, UpTypesAre, PTL DEF UpSpec
-----------------------------------------------------------------------------
(* The recorded outcome is of a run that has been; a lookup that it has    *)
(* not crossed has seen that run or a later one; and so has every lookup   *)
(* made after a wake.                                                      *)
OutcomeWas == forgot <= box.run

CacheFresh == \A p \in Served : cache[p].cached /\ ~cache[p].crossed => cache[p].run >= forgot

LookupFresh ==
  \A q \in Caller : asking[q].pc = "seen" /\ asking[q].up /\ ~asking[q].crossed => asking[q].run >= forgot

WokenFresh ==
  \A q \in Caller : asking[q].woke =>
    /\ asking[q].floor <= box.run
    /\ asking[q].pc = "dials" \/ (asking[q].pc = "seen" /\ asking[q].up) => asking[q].run >= asking[q].floor

UpSense == OutcomeWas /\ CacheFresh /\ LookupFresh /\ WokenFresh

UpIInv == UpTypes /\ UpSense

LEMMA UpNumbers ==
  ASSUME UpTypes
  PROVE  /\ box.run \in Nat /\ forgot \in Nat
         /\ \A p \in Served : cache[p].run \in Nat
         /\ \A q \in Caller : asking[q].run \in Nat /\ asking[q].floor \in Nat
<1>1. Epoch \subseteq Nat
  BY UpstreamAssumption DEF Epoch
<1>2. box.run \in Epoch /\ forgot \in Epoch
  BY DEF UpTypes, BoxType
<1>3. \A p \in Served : cache[p].run \in Epoch
  BY DEF UpTypes, AddrType
<1>4. \A q \in Caller : asking[q].run \in Epoch /\ asking[q].floor \in Epoch
  BY DEF UpTypes, CallType
<1> QED
  BY <1>1, <1>2, <1>3, <1>4

LEMMA UpSenseStep == UpTypes /\ UpSense /\ [UpNext]_upVars => UpSense'
<1> USE DEF UpSense, OutcomeWas, CacheFresh, LookupFresh, WokenFresh
<1> SUFFICES ASSUME UpTypes, UpSense, [UpNext]_upVars PROVE UpSense'
  OBVIOUS
<1>0. box \in BoxType /\ cache \in [Served -> AddrType] /\ asking \in [Caller -> CallType]
  BY DEF UpTypes
<1>n. /\ box.run \in Nat /\ forgot \in Nat
      /\ \A p \in Served : cache[p].run \in Nat
      /\ \A q \in Caller : asking[q].run \in Nat /\ asking[q].floor \in Nat
  BY UpNumbers
<1>1. ASSUME NEW b \in BOOLEAN, Runs(b) PROVE UpSense'
  BY <1>n, <1>1 DEF Runs
<1>2. CASE Stops
  <2>1. box'.run = box.run
    BY <1>0, <1>2 DEF Stops, BoxType
  <2> QED
    BY <1>2, <2>1 DEF Stops
<1>3. ASSUME NEW n \in Epoch, OutcomeRecorded(n) PROVE UpSense'
  <2>1. \A p \in Served : ~cache'[p].cached
    BY <1>3 DEF OutcomeRecorded, Forget, NoAddr
  <2>2. \A q \in Caller : /\ asking'[q].pc = asking[q].pc /\ asking'[q].woke = asking[q].woke
                          /\ asking'[q].up = asking[q].up /\ asking'[q].run = asking[q].run
                          /\ asking'[q].floor = asking[q].floor
                          /\ asking[q].pc = "seen" => asking'[q].crossed
    BY <1>0, <1>3 DEF OutcomeRecorded, Forget, CallType
  <2>3. forgot' = n /\ n <= box.run /\ box' = box
    BY <1>n, <1>3 DEF OutcomeRecorded
  <2> QED
    BY <2>1, <2>2, <2>3
<1>4. ASSUME NEW n \in Epoch, ForgetIfChanged(n) PROVE UpSense'
  <2>1. \A p \in Served : cache'[p] = cache[p] \/ ~cache'[p].cached
    BY <1>4 DEF ForgetIfChanged, NoAddr
  <2> QED
    BY <1>4, <2>1 DEF ForgetIfChanged
<1>5. ASSUME NEW p \in Served, Expires(p) PROVE UpSense'
  <2>1. \A u \in Served : cache'[u] = cache[u] \/ ~cache'[u].cached
    BY <1>0, <1>5 DEF Expires, NoAddr
  <2> QED
    BY <1>5, <2>1 DEF Expires
<1>6. ASSUME NEW q \in Caller, NEW p \in Served, Resolve(q, p) PROVE UpSense'
  <2>1. /\ \A u \in Caller : u # q => asking'[u] = asking[u]
        /\ ~asking'[q].woke /\ asking'[q].pc # "seen"
        /\ UNCHANGED <<box, cache, forgot>>
    BY <1>0, <1>6 DEF Resolve, NoCall
  <2> QED
    BY <2>1
<1>7. ASSUME NEW q \in Caller, DockerInspects(q) PROVE UpSense'
  <2>1. /\ \A u \in Caller : u # q => asking'[u] = asking[u]
        /\ asking'[q].run = box.run /\ asking'[q].woke = asking[q].woke /\ asking'[q].floor = asking[q].floor
        /\ UNCHANGED <<box, cache, forgot>>
    BY <1>0, <1>7 DEF DockerInspects, CallType
  <2> QED
    BY <1>n, <2>1
<1>8. ASSUME NEW q \in Caller, InspectFails(q) PROVE UpSense'
  <2>1. /\ \A u \in Caller : u # q => asking'[u] = asking[u]
        /\ ~asking'[q].up /\ asking'[q].pc = "seen" /\ asking'[q].woke = asking[q].woke
        /\ asking'[q].floor = asking[q].floor
        /\ UNCHANGED <<box, cache, forgot>>
    BY <1>0, <1>8 DEF InspectFails, CallType
  <2> QED
    BY <1>n, <2>1
<1>9. ASSUME NEW q \in Caller, NEW b \in BOOLEAN, LookupAnswers(q, b) PROVE UpSense'
  <2> DEFINE r == asking[q]
  <2>1. /\ \A u \in Caller : u # q => asking'[u] = asking[u]
        /\ \A p \in Served : p # r.port => cache'[p] = cache[p]
        /\ UNCHANGED <<box, forgot>> /\ r.pc = "seen"
    BY <1>0, <1>9 DEF LookupAnswers
  <2>2. r.port \in Served
    BY <1>0 DEF CallType
  <2>3. cache'[r.port] = IF r.up THEN [cached |-> TRUE, run |-> r.run, id |-> r.id, crossed |-> r.crossed] ELSE NoAddr
    BY <1>0, <1>9, <2>2 DEF LookupAnswers
  <2>4. CacheFresh'
    <3>1. cache'[r.port].cached /\ ~cache'[r.port].crossed => cache'[r.port].run >= forgot
      BY <2>1, <2>3 DEF NoAddr
    <3> QED
      BY <2>1, <3>1
  <2>5. \/ /\ asking'[q].pc = "dials" /\ asking'[q].woke = r.woke /\ asking'[q].run = r.run
           /\ asking'[q].floor = r.floor /\ r.up
        \/ asking'[q].pc \in {"none", "wake"} /\ ~asking'[q].woke
    <3>1. asking'[q] = IF r.up /\ (r.woke \/ b) THEN [r EXCEPT !.pc = "dials", !.crossed = FALSE]
                       ELSE IF r.woke THEN NoCall(r.port)
                       ELSE [NoCall(r.port) EXCEPT !.pc = "wake"]
      BY <1>0, <1>9 DEF LookupAnswers
    <3>2. NoCall(r.port).pc = "none" /\ ~NoCall(r.port).woke /\ ~[NoCall(r.port) EXCEPT !.pc = "wake"].woke
          /\ [NoCall(r.port) EXCEPT !.pc = "wake"].pc = "wake"
      BY DEF NoCall
    <3>3. /\ [r EXCEPT !.pc = "dials", !.crossed = FALSE].pc = "dials"
          /\ [r EXCEPT !.pc = "dials", !.crossed = FALSE].woke = r.woke
          /\ [r EXCEPT !.pc = "dials", !.crossed = FALSE].run = r.run
          /\ [r EXCEPT !.pc = "dials", !.crossed = FALSE].floor = r.floor
      BY <1>0 DEF CallType
    <3> QED
      BY <3>1, <3>2, <3>3
  <2>6. WokenFresh' /\ LookupFresh'
    BY <1>n, <2>1, <2>5
  <2> QED
    BY <2>1, <2>4, <2>6
<1>10. ASSUME NEW q \in Caller, WakeFails(q) \/ Dialled(q) PROVE UpSense'
  <2>1. /\ \A u \in Caller : u # q => asking'[u] = asking[u]
        /\ asking'[q].pc = "none" /\ ~asking'[q].woke
        /\ UNCHANGED <<box, cache, forgot>>
    BY <1>0, <1>10 DEF WakeFails, Dialled, NoCall
  <2> QED
    BY <2>1
<1>11. ASSUME NEW q \in Caller, ForgetAndResolve(q) \/ DialRefused(q) PROVE UpSense'
  <2>1. \A p \in Served : ~cache'[p].cached
    BY <1>11 DEF ForgetAndResolve, DialRefused, NoAddr
  <2>2. \A u \in Caller : u # q => /\ asking'[u].pc = asking[u].pc /\ asking'[u].woke = asking[u].woke
                                   /\ asking'[u].up = asking[u].up /\ asking'[u].run = asking[u].run
                                   /\ asking'[u].floor = asking[u].floor
                                   /\ asking[u].pc = "seen" => asking'[u].crossed
    <3>1. \A u \in Caller : u # q =>
            asking'[u] = [asking[u] EXCEPT !.crossed = @ \/ asking[u].pc \in {"asked", "seen"}]
      <4>1. CASE ForgetAndResolve(q)
        BY <4>1 DEF ForgetAndResolve
      <4>2. CASE DialRefused(q)
        BY <4>2 DEF DialRefused
      <4> QED
        BY <1>11, <4>1, <4>2
    <3>2. ASSUME NEW c \in CallType, NEW x
          PROVE  LET d == [c EXCEPT !.crossed = x]
                 IN  /\ d.pc = c.pc /\ d.woke = c.woke /\ d.up = c.up /\ d.run = c.run
                     /\ d.floor = c.floor /\ d.crossed = x
      BY DEF CallType
    <3> SUFFICES ASSUME NEW u \in Caller, u # q
                 PROVE  /\ asking'[u].pc = asking[u].pc /\ asking'[u].woke = asking[u].woke
                        /\ asking'[u].up = asking[u].up /\ asking'[u].run = asking[u].run
                        /\ asking'[u].floor = asking[u].floor
                        /\ asking[u].pc = "seen" => asking'[u].crossed
      OBVIOUS
    <3>3. asking[u] \in CallType
      BY <1>0
    <3> DEFINE x == asking[u].crossed \/ asking[u].pc \in {"asked", "seen"}
    <3>4. asking'[u] = [asking[u] EXCEPT !.crossed = x]
      BY <3>1
    <3>5. asking[u].pc = "seen" => x
      OBVIOUS
    <3> HIDE DEF x
    <3>6. /\ asking'[u].pc = asking[u].pc /\ asking'[u].woke = asking[u].woke
          /\ asking'[u].up = asking[u].up /\ asking'[u].run = asking[u].run
          /\ asking'[u].floor = asking[u].floor /\ asking'[u].crossed = x
      BY <3>2, <3>3, <3>4
    <3> QED
      BY <3>5, <3>6
  <2>3. /\ asking'[q].pc \in {"asked", "none", "wake"}
        /\ asking'[q].woke => asking'[q].floor = forgot
        /\ UNCHANGED <<box, forgot>>
    BY <1>11 DEF ForgetAndResolve, DialRefused, NoCall
  <2> QED
    BY <2>1, <2>2, <2>3
<1>12. CASE UNCHANGED upVars
  BY <1>12 DEF upVars
<1> QED
  BY <1>1, <1>2, <1>3, <1>4, <1>5, <1>6, <1>7, <1>8, <1>9, <1>10, <1>11, <1>12 DEF UpNext

LEMMA UpInvariant == UpSpec => []UpIInv
<1>1. UpInit => UpSense
  BY DEF UpInit, UpSense, OutcomeWas, CacheFresh, LookupFresh, WokenFresh, NoAddr, NoCall
<1> QED
  BY <1>1, UpInitType, UpTypeStep, UpSenseStep, PTL DEF UpSpec, UpIInv

LEMMA DialsDoRespect == UpSpec => []DialsRespectOutcomes
<1>1. UpIInv => DialsRespectOutcomes
  BY DEF UpIInv, UpSense, CacheFresh, WokenFresh, DialsRespectOutcomes
<1> QED
  BY <1>1, UpInvariant, PTL
-----------------------------------------------------------------------------
(* The samples of a container's counter.                                   *)

VesselType == [state : VesselState, gen : 0..MaxGen, count : 0..MaxBytes, life : 0..MaxGen]
SamplerType == [pc : {"off", "idle", "ps", "stats", "read"}, t : Sec, sample : Sample]

MetTypes ==
  /\ sec \in Sec /\ vessel \in VesselType /\ traffic \in 0..MaxBytes /\ since \in 0..(MaxSec + 1)
  /\ sampler \in SamplerType /\ history \in [Sec -> Sample] /\ saved \in 0..(MaxSec + 1)
  /\ vessel.count <= traffic

LEMMA MetTypesAre == MetTypes => MetTypeOK
BY DEF MetTypeOK, MetTypes, VesselType, SamplerType

LEMMA MetNumbers == MaxSec \in Nat /\ MaxBytes \in Nat /\ MaxGen \in Nat /\ MaxGap \in Nat /\ Retention \in Nat
BY MetricsAssumption

LEMMA NoSampleType == NoSample \in Sample
<1>1. 0 \in 0..MaxBytes /\ 0 \in 0..MaxGen
  BY MetNumbers
<1> QED
  BY <1>1 DEF NoSample, Sample

LEMMA SamplerAtType ==
  ASSUME NEW pc \in {"off", "idle", "ps"} PROVE SamplerAt(pc) \in SamplerType
<1>1. 0 \in Sec
  BY MetNumbers DEF Sec
<1> QED
  BY <1>1, NoSampleType DEF SamplerAt, SamplerType

LEMMA VesselParts ==
  ASSUME NEW v \in VesselType
  PROVE  /\ v.state \in VesselState /\ v.gen \in 0..MaxGen /\ v.count \in 0..MaxBytes /\ v.life \in 0..MaxGen
         /\ \A st \in VesselState, n \in 0..MaxBytes : [v EXCEPT !.state = st, !.count = n] \in VesselType
         /\ \A n \in 0..MaxBytes : [v EXCEPT !.count = n] \in VesselType
         /\ \A g \in 0..MaxGen, n \in 0..MaxBytes :
              [v EXCEPT !.state = "running", !.gen = g, !.count = n] \in VesselType
<1>1. v.state \in VesselState /\ v.gen \in 0..MaxGen /\ v.count \in 0..MaxBytes /\ v.life \in 0..MaxGen
  BY DEF VesselType
<1>2. \A st \in VesselState, n \in 0..MaxBytes : [v EXCEPT !.state = st, !.count = n] \in VesselType
  BY DEF VesselType
<1>3. \A n \in 0..MaxBytes : [v EXCEPT !.count = n] \in VesselType
  BY DEF VesselType
<1>4. \A g \in 0..MaxGen, n \in 0..MaxBytes : [v EXCEPT !.state = "running", !.gen = g, !.count = n] \in VesselType
  BY DEF VesselType, VesselState
<1> QED
  BY <1>1, <1>2, <1>3, <1>4

LEMMA SamplerParts ==
  ASSUME NEW s \in SamplerType
  PROVE  /\ s.t \in Sec /\ s.sample \in Sample
         /\ \A t \in Sec : [s EXCEPT !.t = t] \in SamplerType
         /\ \A pc \in {"stats", "read"}, x \in Sample : [s EXCEPT !.pc = pc, !.sample = x] \in SamplerType
<1>1. s.t \in Sec /\ s.sample \in Sample
  BY DEF SamplerType
<1>2. \A t \in Sec : [s EXCEPT !.t = t] \in SamplerType
  BY DEF SamplerType
<1>3. \A pc \in {"stats", "read"}, x \in Sample : [s EXCEPT !.pc = pc, !.sample = x] \in SamplerType
  BY DEF SamplerType
<1> QED
  BY <1>1, <1>2, <1>3

(* What the container does: its counter never gains on the traffic.        *)
VesselMoves ==
  \/ Receives \/ Redeployed \/ RowRemoved \/ ContainerAdded
  \/ \E from \in VesselState, to \in VesselState \ {"none"} : Turns(from, to)

LEMMA VesselTypes ==
  ASSUME MetTypes, VesselMoves
  PROVE  /\ vessel' \in VesselType /\ traffic' \in 0..MaxBytes /\ since' \in 0..(MaxSec + 1)
         /\ traffic <= traffic' /\ traffic + vessel'.count <= traffic' + vessel.count /\ vessel'.count <= traffic'
         /\ since' # 0 => since' = since /\ (vessel'.life = vessel.life \/ vessel.state = "none")
         /\ vessel'.state = "none" => since' = 0 \/ vessel.state = "none"
         /\ UNCHANGED <<sec, sampler, history, saved>>
<1>0. /\ vessel \in VesselType /\ traffic \in 0..MaxBytes /\ vessel.count <= traffic /\ since \in 0..(MaxSec + 1)
      /\ vessel.gen \in 0..MaxGen /\ vessel.count \in 0..MaxBytes /\ 0 \in 0..MaxBytes /\ 0 \in 0..(MaxSec + 1)
      /\ traffic \in Nat /\ vessel.count \in Nat
  <2>1. vessel \in VesselType /\ traffic \in 0..MaxBytes /\ vessel.count <= traffic /\ since \in 0..(MaxSec + 1)
    BY DEF MetTypes
  <2>2. vessel.gen \in 0..MaxGen /\ vessel.count \in 0..MaxBytes
    BY <2>1, VesselParts
  <2>3. 0 \in 0..MaxBytes /\ 0 \in 0..(MaxSec + 1) /\ traffic \in Nat /\ vessel.count \in Nat
    BY <2>1, <2>2, MetNumbers
  <2> QED
    BY <2>1, <2>2, <2>3
<1>1. CASE Receives
  <2>1. traffic + 1 \in 0..MaxBytes /\ vessel.count + 1 \in 0..MaxBytes
    BY <1>0, <1>1, MetNumbers DEF Receives
  <2>2. vessel' = [vessel EXCEPT !.count = vessel.count + 1] /\ vessel' \in VesselType
    BY <1>0, <1>1, <2>1, VesselParts DEF Receives
  <2>3. vessel'.count = vessel.count + 1 /\ vessel'.life = vessel.life /\ vessel'.state = vessel.state
    BY <1>0, <2>2 DEF VesselType
  <2>4. traffic' = traffic + 1 /\ UNCHANGED <<sec, since, sampler, history, saved>>
    BY <1>1 DEF Receives
  <2>5. traffic <= traffic' /\ traffic + vessel'.count <= traffic' + vessel.count /\ vessel'.count <= traffic'
    BY <1>0, <2>3, <2>4
  <2> QED
    BY <1>0, <2>1, <2>2, <2>3, <2>4, <2>5
<1>2. CASE Redeployed
  <2>1. vessel.gen + 1 \in 0..MaxGen
    BY <1>0, <1>2, MetNumbers DEF Redeployed
  <2>2. vessel' = [vessel EXCEPT !.state = "running", !.gen = vessel.gen + 1, !.count = 0] /\ vessel' \in VesselType
    BY <1>0, <1>2, <2>1, VesselParts DEF Redeployed
  <2>3. vessel'.count = 0 /\ vessel'.life = vessel.life /\ vessel'.state = "running"
    BY <1>0, <2>2 DEF VesselType
  <2>4. UNCHANGED <<sec, traffic, since, sampler, history, saved>>
    BY <1>2 DEF Redeployed
  <2> QED
    BY <1>0, <2>2, <2>3, <2>4
<1>3. CASE RowRemoved
  <2>1. "none" \in VesselState
    BY DEF VesselState
  <2>2. vessel' = [vessel EXCEPT !.state = "none", !.count = 0] /\ vessel' \in VesselType
    BY <1>0, <1>3, <2>1, VesselParts DEF RowRemoved
  <2>3. vessel'.count = 0
    BY <1>0, <2>2 DEF VesselType
  <2>4. since' = 0 /\ UNCHANGED <<sec, traffic, sampler, history, saved>>
    BY <1>3 DEF RowRemoved
  <2> QED
    BY <1>0, <2>2, <2>3, <2>4
<1>4. CASE ContainerAdded
  <2>1. vessel.gen + 1 \in 0..MaxGen
    BY <1>0, <1>4, MetNumbers DEF ContainerAdded
  <2>2. vessel' = [state |-> "running", gen |-> vessel.gen + 1, count |-> 0, life |-> vessel.gen + 1]
    BY <1>4 DEF ContainerAdded
  <2>3. vessel' \in VesselType /\ vessel'.count = 0 /\ vessel'.state = "running"
    BY <1>0, <2>1, <2>2 DEF VesselType, VesselState
  <2>4. vessel.state = "none" /\ UNCHANGED <<sec, traffic, since, sampler, history, saved>>
    BY <1>4 DEF ContainerAdded
  <2> QED
    BY <1>0, <2>3, <2>4
<1>5. ASSUME NEW from \in VesselState, NEW to \in VesselState, Turns(from, to)
      PROVE  /\ vessel' \in VesselType /\ vessel'.count \in {0, vessel.count} /\ vessel'.life = vessel.life
             /\ vessel'.state = to /\ vessel.state = from
             /\ UNCHANGED <<sec, traffic, since, sampler, history, saved>>
  <2> DEFINE n == IF "exited" \in {from, to} THEN 0 ELSE vessel.count
  <2>1. n \in 0..MaxBytes /\ n \in {0, vessel.count}
    BY <1>0
  <2>2. vessel' = [vessel EXCEPT !.state = to, !.count = n] /\ vessel.state = from
        /\ UNCHANGED <<sec, traffic, since, sampler, history, saved>>
    BY <1>5 DEF Turns
  <2>3. vessel' \in VesselType
    BY <1>0, <2>1, <2>2, VesselParts
  <2>4. vessel'.count = n /\ vessel'.life = vessel.life /\ vessel'.state = to
    BY <1>0, <2>2 DEF VesselType
  <2> QED
    BY <2>1, <2>2, <2>3, <2>4
<1>6. ASSUME NEW from \in VesselState, NEW to \in VesselState \ {"none"}, Turns(from, to)
      PROVE  /\ traffic <= traffic' /\ traffic + vessel'.count <= traffic' + vessel.count /\ vessel'.count <= traffic'
             /\ traffic' = traffic /\ since' = since
  <2>1. vessel'.count \in {0, vessel.count} /\ traffic' = traffic /\ since' = since
    BY <1>5, <1>6
  <2> QED
    BY <1>0, <2>1
<1> QED
  BY <1>0, <1>1, <1>2, <1>3, <1>4, <1>5, <1>6 DEF VesselMoves

LEMMA PrunedType == ASSUME NEW h \in [Sec -> Sample], NEW t PROVE Pruned(h, t) \in [Sec -> Sample]
BY NoSampleType DEF Pruned

LEMMA MetInitType == MetInit => MetTypes
<1> SUFFICES ASSUME MetInit PROVE MetTypes
  OBVIOUS
<1>1. 0 \in Sec /\ 0 \in 0..MaxBytes /\ 0 \in 0..MaxGen /\ 0 \in 0..(MaxSec + 1)
  BY MetNumbers DEF Sec
<1>2. vessel \in VesselType /\ vessel.count = 0
  BY <1>1 DEF MetInit, VesselType, VesselState
<1> QED
  BY <1>1, <1>2, NoSampleType, SamplerAtType DEF MetInit, MetTypes, Empty

LEMMA MetNextIs ==
  MetNext =>
    \/ VesselMoves \/ Second \/ RowWritten
    \/ Load \/ TickBegins \/ Ps \/ Stats \/ NothingRead \/ SamplerStops \/ SamplerDies
    \/ \E b \in BOOLEAN : Record(b)
<1>1. {"running", "paused", "exited"} \subseteq VesselState \ {"none"}
  BY DEF VesselState
<1> QED
  BY <1>1 DEF MetNext, VesselMoves

LEMMA MetTypeStep == MetTypes /\ [MetNext]_metVars => MetTypes'
<1> SUFFICES ASSUME MetTypes, [MetNext]_metVars PROVE MetTypes'
  OBVIOUS
<1>0. /\ sec \in Sec /\ vessel \in VesselType /\ traffic \in 0..MaxBytes /\ since \in 0..(MaxSec + 1)
      /\ sampler \in SamplerType /\ history \in [Sec -> Sample] /\ saved \in 0..(MaxSec + 1)
      /\ vessel.count <= traffic
  BY DEF MetTypes
<1>a. sampler.t \in Sec /\ sampler.sample \in Sample
  BY <1>0, SamplerParts
<1>b. sec + 1 \in 0..(MaxSec + 1) /\ sampler.t + 1 \in 0..(MaxSec + 1) /\ 0 \in 0..MaxBytes
  BY <1>0, <1>a, MetNumbers DEF Sec
<1>c. /\ SamplerAt("off") \in SamplerType /\ SamplerAt("idle") \in SamplerType
      /\ [SamplerAt("ps") EXCEPT !.t = sec] \in SamplerType
  BY <1>0, SamplerAtType, SamplerParts
<1>d. /\ vessel.gen \in 0..MaxGen /\ vessel.count \in 0..MaxBytes /\ vessel.life \in 0..MaxGen
  BY <1>0, VesselParts
<1>1. CASE VesselMoves
  BY <1>0, <1>1, VesselTypes DEF MetTypes
<1>2. CASE Second
  <2>1. sec' \in Sec
    BY <1>0, <1>2, MetNumbers DEF Second, Sec
  <2> QED
    BY <1>2, <2>1 DEF Second, MetTypes
<1>3. CASE RowWritten
  BY <1>0, <1>3, <1>b DEF RowWritten, Since, MetTypes
<1>4. CASE Load
  BY <1>0, <1>4, <1>c, PrunedType DEF Load, MetTypes
<1>5. CASE TickBegins
  BY <1>0, <1>5, <1>c DEF TickBegins, MetTypes
<1>6. CASE Ps
  <2> DEFINE x == [taken |-> TRUE, rx |-> 0, gen |-> vessel.gen, running |-> vessel.state = "running",
                   traffic |-> IF vessel.state = "running" THEN 0 ELSE traffic, life |-> vessel.life]
  <2> DEFINE pc == IF vessel.state = "running" THEN "stats" ELSE "read"
  <2>1. x \in Sample
    BY <1>0, <1>b, <1>d DEF Sample
  <2>2. sampler' = [sampler EXCEPT !.pc = pc, !.sample = x]
    BY <1>6 DEF Ps
  <2>3. pc \in {"stats", "read"}
    OBVIOUS
  <2> HIDE DEF x, pc
  <2>4. sampler' \in SamplerType
    BY <1>0, <2>1, <2>2, <2>3, SamplerParts
  <2> QED
    BY <1>0, <1>6, <2>4 DEF Ps, MetTypes
<1>7. CASE Stats
  <2> DEFINE x == [sampler.sample EXCEPT !.rx = vessel.count, !.traffic = traffic, !.life = vessel.life]
  <2>1. x \in Sample
    BY <1>0, <1>a, <1>d DEF Sample
  <2>2. sampler' = [sampler EXCEPT !.pc = "read", !.sample = x]
    BY <1>0, <1>7 DEF Stats, SamplerType
  <2> HIDE DEF x
  <2>3. sampler' \in SamplerType
    BY <1>0, <2>1, <2>2, SamplerParts
  <2> QED
    BY <1>0, <1>7, <2>3 DEF Stats, MetTypes
<1>8. CASE NothingRead
  BY <1>0, <1>8, <1>c DEF NothingRead, MetTypes
<1>9. CASE SamplerStops
  BY <1>0, <1>9, <1>b, <1>c DEF SamplerStops, MetTypes
<1>10. CASE SamplerDies
  BY <1>0, <1>10, <1>c, NoSampleType DEF SamplerDies, MetTypes
<1>11. ASSUME NEW b \in BOOLEAN, Record(b) PROVE MetTypes'
  <2>1. [history EXCEPT ![sampler.t] = sampler.sample] \in [Sec -> Sample]
    BY <1>0, <1>a
  <2>2. HistoryWith \in [Sec -> Sample]
    BY <1>0, <2>1, PrunedType DEF HistoryWith
  <2>3. saved' \in 0..(MaxSec + 1)
    BY <1>0, <1>11, <1>b DEF Record
  <2> QED
    BY <1>0, <1>11, <1>c, <2>2, <2>3 DEF Record, MetTypes
<1>12. CASE UNCHANGED metVars
  BY <1>12 DEF metVars, MetTypes
<1> QED
  BY <1>1, <1>2, <1>3, <1>4, <1>5, <1>6, <1>7, <1>8, <1>9, <1>10, <1>11, <1>12, MetNextIs

(* Every variable of the samples keeps its type.                           *)
THEOREM MetTypesHold == MetSpec => []MetTypeOK
BY MetInitType, MetTypeStep, MetTypesAre, PTL DEF MetSpec
-----------------------------------------------------------------------------
(* A reading of a container that runs leaves out what earlier runs had     *)
(* received, and that only grows; samples are kept in the order in which   *)
(* they were read; and those since the row was written are its service's.  *)

Reading(s) ==
  /\ s.traffic <= traffic
  /\ s.running => s.traffic + vessel.count <= traffic + s.rx
  /\ ~s.running => s.rx = 0

After(p, q) == p.traffic <= q.traffic /\ (p.running /\ q.running => p.traffic + q.rx <= q.traffic + p.rx)

ReadInPast == sampler.t <= sec /\ \A t \in Sec : history[t].taken => t <= sec

RowHasVessel == vessel.state = "none" => since = 0

AreReadings ==
  /\ \A t \in Sec : history[t].taken => Reading(history[t])
  /\ sampler.pc = "read" => Reading(sampler.sample)
  /\ sampler.pc = "stats" => sampler.sample.running

KeptInOrder ==
  /\ \A u, t \in Sec : u < t /\ history[u].taken /\ history[t].taken => After(history[u], history[t])
  /\ sampler.pc = "read" => \A u \in Sec : history[u].taken => After(history[u], sampler.sample)

OwnSince ==
  since # 0 =>
    /\ \A t \in Sec : t >= since /\ history[t].taken => history[t].life = vessel.life
    /\ sampler.pc = "read" /\ sampler.t >= since => sampler.sample.life = vessel.life

MetSense == ReadInPast /\ RowHasVessel /\ AreReadings /\ KeptInOrder /\ OwnSince

MetIInv == MetTypes /\ MetSense

LEMMA MetSenseVessel == MetTypes /\ MetSense /\ VesselMoves => MetSense'
<1> SUFFICES ASSUME MetTypes, MetSense, VesselMoves PROVE MetSense'
  OBVIOUS
<1>1. /\ traffic <= traffic' /\ traffic + vessel'.count <= traffic' + vessel.count
      /\ since' # 0 => since' = since /\ (vessel'.life = vessel.life \/ vessel.state = "none")
      /\ vessel'.state = "none" => since' = 0 \/ vessel.state = "none"
      /\ since' \in {0, since}
      /\ UNCHANGED <<sec, sampler, history, saved>>
      /\ traffic \in Nat /\ traffic' \in Nat /\ vessel.count \in Nat /\ vessel'.count \in Nat
  <2>1. vessel \in VesselType /\ vessel' \in VesselType /\ traffic \in 0..MaxBytes /\ traffic' \in 0..MaxBytes
    BY VesselTypes DEF MetTypes
  <2>2. vessel.count \in 0..MaxBytes /\ vessel'.count \in 0..MaxBytes
    BY <2>1, VesselParts
  <2>3. 0..MaxBytes \subseteq Nat
    BY MetNumbers
  <2> QED
    BY <2>1, <2>2, <2>3, VesselTypes
<1>2. ASSUME NEW s \in Sample, Reading(s) PROVE Reading(s)'
  <2>1. s.traffic \in Nat /\ s.rx \in Nat
    BY MetNumbers DEF Sample
  <2> QED
    BY <1>1, <1>2, <2>1 DEF Reading
<1>3. history \in [Sec -> Sample] /\ sampler.sample \in Sample
  BY SamplerParts DEF MetTypes
<1>4. AreReadings'
  BY <1>1, <1>2, <1>3 DEF MetSense, AreReadings
<1>5. KeptInOrder' /\ ReadInPast'
  BY <1>1 DEF MetSense, KeptInOrder, After, ReadInPast
<1>6. RowHasVessel'
  BY <1>1 DEF MetSense, RowHasVessel
<1>7. OwnSince'
  BY <1>1 DEF MetSense, OwnSince, RowHasVessel
<1> QED
  BY <1>4, <1>5, <1>6, <1>7 DEF MetSense

(* Losing samples loses nothing else.                                      *)
LEMMA FewerSamples ==
  ASSUME MetTypes, MetSense, UNCHANGED <<sec, vessel, traffic, since>>,
         \A t \in Sec : history'[t] = history[t] \/ ~history'[t].taken,
         sampler'.t <= sec, sampler'.pc \in {"off", "idle", "ps"}
  PROVE  MetSense'
<1>1. ReadInPast' /\ RowHasVessel'
  BY DEF MetSense, ReadInPast, RowHasVessel
<1>2. AreReadings'
  BY DEF MetSense, AreReadings, Reading
<1>3. KeptInOrder'
  BY DEF MetSense, KeptInOrder, After
<1>4. OwnSince'
  BY DEF MetSense, OwnSince
<1> QED
  BY <1>1, <1>2, <1>3, <1>4 DEF MetSense

LEMMA MetSenseStep == MetTypes /\ MetSense /\ [MetNext]_metVars => MetSense'
<1> SUFFICES ASSUME MetTypes, MetSense, [MetNext]_metVars PROVE MetSense'
  OBVIOUS
<1>0. /\ sec \in Sec /\ vessel \in VesselType /\ traffic \in 0..MaxBytes /\ since \in 0..(MaxSec + 1)
      /\ sampler \in SamplerType /\ history \in [Sec -> Sample]
  BY DEF MetTypes
<1>n. /\ sec \in Nat /\ traffic \in Nat /\ since \in Nat /\ vessel.count \in Nat /\ sampler.t \in Sec /\ sampler.t \in Nat
      /\ sampler.sample \in Sample
  <2>1. sampler.t \in Sec /\ vessel.count \in 0..MaxBytes /\ sampler.sample \in Sample
    BY <1>0, SamplerParts, VesselParts
  <2>2. Sec \subseteq Nat /\ 0..MaxBytes \subseteq Nat /\ 0..(MaxSec + 1) \subseteq Nat
    BY MetNumbers DEF Sec
  <2> QED
    BY <1>0, <2>1, <2>2
<1>s. ASSUME NEW s \in Sample PROVE s.traffic \in Nat /\ s.rx \in Nat
  BY MetNumbers DEF Sample
<1>1. CASE VesselMoves
  BY <1>1, MetSenseVessel
<1>2. CASE Second
  <2>1. sec' = sec + 1 /\ UNCHANGED <<vessel, traffic, since, sampler, history>>
    BY <1>2 DEF Second
  <2>2. ReadInPast'
    <3>1. \A t \in Sec : t \in Nat
      BY MetNumbers DEF Sec
    <3> QED
      BY <1>n, <2>1, <3>1 DEF MetSense, ReadInPast
  <2> QED
    BY <2>1, <2>2 DEF MetSense, RowHasVessel, AreReadings, Reading, KeptInOrder, After, OwnSince
<1>3. CASE RowWritten
  <2>1. since' = sec + 1 /\ vessel.state # "none" /\ UNCHANGED <<sec, vessel, traffic, sampler, history>>
    BY <1>3 DEF RowWritten, Since
  <2>2. OwnSince'
    <3>1. \A t \in Sec : t \in Nat
      BY MetNumbers DEF Sec
    <3>2. \A t \in Sec : history[t].taken => ~(t >= since')
      BY <1>n, <2>1, <3>1 DEF MetSense, ReadInPast
    <3>3. ~(sampler.t >= since')
      BY <1>n, <2>1 DEF MetSense, ReadInPast
    <3> QED
      BY <2>1, <3>2, <3>3 DEF OwnSince
  <2> QED
    BY <2>1, <2>2 DEF MetSense, ReadInPast, RowHasVessel, AreReadings, Reading, KeptInOrder, After
<1>o. ASSUME NEW pc \in {"off", "idle"} PROVE SamplerAt(pc).pc = pc /\ SamplerAt(pc).t = 0 /\ 0 <= sec
  BY <1>n DEF SamplerAt
<1>4. CASE Load
  <2>1. \A t \in Sec : history'[t] = history[t] \/ ~history'[t].taken
    BY <1>4 DEF Load, Pruned, NoSample
  <2> QED
    BY <1>4, <1>o, <2>1, FewerSamples DEF Load
<1>5. CASE TickBegins
  <2>1. sampler'.t = sec /\ sampler'.pc = "ps"
    BY <1>5 DEF TickBegins, SamplerAt
  <2> QED
    BY <1>n, <1>5, <2>1, FewerSamples DEF TickBegins
<1>6. CASE Ps
  <2>1. /\ sampler'.t = sampler.t /\ UNCHANGED <<sec, vessel, traffic, since, history>>
        /\ sampler'.pc = IF vessel.state = "running" THEN "stats" ELSE "read"
        /\ sampler'.sample = [taken |-> TRUE, rx |-> 0, gen |-> vessel.gen, running |-> vessel.state = "running",
                   traffic |-> IF vessel.state = "running" THEN 0 ELSE traffic, life |-> vessel.life]
    BY <1>0, <1>6 DEF Ps, SamplerType
  <2>2. /\ sampler'.sample.running = (vessel.state = "running") /\ sampler'.sample.rx = 0
        /\ sampler'.sample.life = vessel.life
        /\ vessel.state # "running" => sampler'.sample.traffic = traffic
    BY <2>1
  <2>3. ReadInPast' /\ RowHasVessel' /\ OwnSince'
    BY <2>1, <2>2 DEF MetSense, ReadInPast, RowHasVessel, OwnSince
  <2>4. AreReadings'
    <3>1. \A t \in Sec : (history[t].taken => Reading(history[t]))'
      BY <2>1 DEF MetSense, AreReadings, Reading
    <3>2. CASE vessel.state = "running"
      BY <2>1, <2>2, <3>1, <3>2 DEF AreReadings
    <3>3. CASE vessel.state # "running"
      <4>1. sampler'.sample.traffic = traffic /\ ~sampler'.sample.running /\ sampler'.sample.rx = 0
        BY <2>2, <3>3
      <4>2. Reading(sampler.sample)'
        BY <1>n, <2>1, <4>1 DEF Reading
      <4> QED
        BY <2>1, <3>1, <3>3, <4>2 DEF AreReadings
    <3> QED
      BY <3>2, <3>3
  <2>5. sampler'.pc = "read" => \A u \in Sec : history[u].taken => After(history[u], sampler'.sample)
    BY <2>1, <2>2 DEF MetSense, AreReadings, Reading, After
  <2>6. KeptInOrder'
    BY <2>1, <2>5 DEF MetSense, KeptInOrder, After
  <2> QED
    BY <2>3, <2>4, <2>6 DEF MetSense
<1>7. CASE Stats
  <2>1. /\ sampler'.t = sampler.t /\ UNCHANGED <<sec, vessel, traffic, since, history>>
        /\ sampler'.pc = "read" /\ sampler.pc = "stats"
        /\ sampler'.sample = [sampler.sample EXCEPT !.rx = vessel.count, !.traffic = traffic, !.life = vessel.life]
    BY <1>0, <1>7 DEF Stats, SamplerType
  <2>2. /\ sampler'.sample.running = sampler.sample.running /\ sampler'.sample.rx = vessel.count
        /\ sampler'.sample.life = vessel.life /\ sampler'.sample.traffic = traffic
    BY <1>n, <2>1 DEF Sample
  <2>3. ReadInPast' /\ RowHasVessel' /\ OwnSince'
    BY <2>1, <2>2 DEF MetSense, ReadInPast, RowHasVessel, OwnSince
  <2>4. AreReadings'
    BY <1>n, <2>1, <2>2 DEF MetSense, AreReadings, Reading
  <2>5. ASSUME NEW u \in Sec, history[u].taken PROVE After(history[u], sampler'.sample)
    <3>1. history[u].traffic \in Nat /\ history[u].rx \in Nat
      BY <1>0, <1>s
    <3>2. history[u].traffic <= traffic /\ (history[u].running => history[u].traffic + vessel.count <= traffic + history[u].rx)
      BY <2>5 DEF MetSense, AreReadings, Reading
    <3> QED
      BY <1>n, <2>2, <3>1, <3>2 DEF After
  <2>6. KeptInOrder'
    BY <2>1, <2>5 DEF MetSense, KeptInOrder, After
  <2> QED
    BY <2>3, <2>4, <2>6 DEF MetSense
<1>8. CASE NothingRead
  BY <1>8, <1>o, FewerSamples DEF NothingRead
<1>9. CASE SamplerStops
  BY <1>9, <1>o, FewerSamples DEF SamplerStops
<1>10. CASE SamplerDies
  <2>1. \A t \in Sec : history'[t] = history[t] \/ ~history'[t].taken
    BY <1>10 DEF SamplerDies, NoSample
  <2> QED
    BY <1>10, <1>o, <2>1, FewerSamples DEF SamplerDies
<1>11. ASSUME NEW b \in BOOLEAN, Record(b) PROVE MetSense'
  <2>1. /\ sampler.pc = "read" /\ sampler'.pc = "idle" /\ sampler'.t = 0
        /\ UNCHANGED <<sec, vessel, traffic, since>> /\ history' = HistoryWith
    BY <1>11 DEF Record, SamplerAt
  <2>2. CASE \A t \in Sec : history'[t] = history[t] \/ ~history'[t].taken
    BY <1>n, <2>1, <2>2, FewerSamples
  <2>3. CASE /\ \A u \in Sec : u >= sampler.t => ~history[u].taken
             /\ \A t \in Sec : history'[t] = history[t] \/ ~history'[t].taken
                               \/ (t = sampler.t /\ history'[t] = sampler.sample)
    <3>1. \A t \in Sec : t \in Nat
      BY MetNumbers DEF Sec
    <3>2. ASSUME NEW t \in Sec, history'[t].taken
          PROVE  (history'[t] = history[t] /\ history[t].taken /\ t < sampler.t) \/ (t = sampler.t /\ history'[t] = sampler.sample)
      BY <1>n, <2>3, <3>1, <3>2
    <3>3. ReadInPast' /\ RowHasVessel'
      BY <1>n, <2>1, <3>2 DEF MetSense, ReadInPast, RowHasVessel
    <3>4. AreReadings'
      BY <2>1, <3>2 DEF MetSense, AreReadings, Reading
    <3>5. KeptInOrder'
      <4>1. ASSUME NEW u \in Sec, NEW t \in Sec, u < t, history'[u].taken, history'[t].taken
            PROVE  After(history'[u], history'[t])
        <5>1. history'[u] = history[u] /\ history[u].taken
          BY <1>n, <3>1, <3>2, <4>1
        <5> QED
          BY <2>1, <3>2, <4>1, <5>1 DEF MetSense, KeptInOrder
      <4> QED
        BY <2>1, <4>1 DEF KeptInOrder, After
    <3>6. OwnSince'
      BY <2>1, <3>2 DEF MetSense, OwnSince
    <3> QED
      BY <3>3, <3>4, <3>5, <3>6 DEF MetSense
  <2>4. ASSUME NEW h, NEW t \in Sec PROVE Pruned(h, sampler.t)[t] = h[t] \/ ~Pruned(h, sampler.t)[t].taken
    BY DEF Pruned, NoSample
  <2>5. CASE \E u \in Sec : u >= sampler.t /\ history[u].taken
    BY <2>1, <2>2, <2>4, <2>5 DEF HistoryWith
  <2>6. CASE ~\E u \in Sec : u >= sampler.t /\ history[u].taken
    <3> DEFINE h == [history EXCEPT ![sampler.t] = sampler.sample]
    <3>1. history' = Pruned(h, sampler.t)
      BY <2>1, <2>6 DEF HistoryWith
    <3>2. \A t \in Sec : h[t] = history[t] \/ (t = sampler.t /\ h[t] = sampler.sample)
      BY <1>0
    <3> HIDE DEF h
    <3>3. \A t \in Sec : history'[t] = h[t] \/ ~history'[t].taken
      BY <2>4, <3>1
    <3> QED
      BY <2>3, <2>6, <3>2, <3>3
  <2> QED
    BY <2>5, <2>6
<1>12. CASE UNCHANGED metVars
  BY <1>12 DEF metVars, MetSense, ReadInPast, RowHasVessel, AreReadings, Reading, KeptInOrder, After, OwnSince
<1> QED
  BY <1>1, <1>2, <1>3, <1>4, <1>5, <1>6, <1>7, <1>8, <1>9, <1>10, <1>11, <1>12, MetNextIs

LEMMA MetInvariant == MetSpec => []MetIInv
<1>1. MetInit => MetSense
  <2> SUFFICES ASSUME MetInit PROVE MetSense
    OBVIOUS
  <2>1. /\ \A t \in Sec : ~history[t].taken
        /\ since = 0 /\ sampler.pc = "off" /\ sampler.t = 0 /\ sec = 0
    BY DEF MetInit, Empty, NoSample, SamplerAt
  <2> QED
    BY <2>1 DEF MetSense, ReadInPast, RowHasVessel, AreReadings, KeptInOrder, OwnSince
<1> QED
  BY <1>1, MetInitType, MetTypeStep, MetSenseStep, PTL DEF MetSpec, MetIInv

(* A chart shows the service's own readings, and no rate in it is more     *)
(* than the traffic between them (metrics-history.ts, observedTargets).    *)
THEOREM ChartsStayTrue == MetSpec => []ChartsAreTraffic
<1>1. MetIInv => ChartsAreTraffic
  <2> SUFFICES ASSUME MetIInv PROVE ChartsAreTraffic
    OBVIOUS
  <2>1. history \in [Sec -> Sample] /\ \A t \in Sec : t \in Nat
    BY MetNumbers DEF MetIInv, MetTypes, Sec
  <2>2. ASSUME NEW t \in Sec, Charted(t) PROVE history[t].life = vessel.life
    BY <2>2 DEF Charted, MetIInv, MetSense, OwnSince
  <2>3. ASSUME NEW t \in Sec, NEW u \in Sec, Charted(t), Charted(u), Differenceable(u, t)
        PROVE  history[t].rx - history[u].rx <= history[t].traffic - history[u].traffic
    <3>1. /\ history[u].traffic \in Nat /\ history[u].rx \in Nat /\ history[t].traffic \in Nat /\ history[t].rx \in Nat
      BY <2>1, MetNumbers DEF Sample
    <3>2. After(history[u], history[t]) /\ Reading(history[t]) /\ Reading(history[u])
      BY <2>3 DEF Charted, Differenceable, Adjacent, MetIInv, MetSense, AreReadings, KeptInOrder
    <3>3. history[u].running = history[t].running
      BY <2>3 DEF Differenceable
    <3>4. CASE history[t].running
      BY <3>1, <3>2, <3>3, <3>4 DEF After
    <3>5. CASE ~history[t].running
      BY <3>1, <3>2, <3>3, <3>5 DEF After, Reading
    <3> QED
      BY <3>4, <3>5
  <2> QED
    BY <2>2, <2>3 DEF ChartsAreTraffic
<1> QED
  BY <1>1, MetInvariant, PTL
-----------------------------------------------------------------------------
(* Who is let in.                                                          *)

SessionRow == [is : BOOLEAN, updated : Day, expires : Day]
TouchType == [slides : BOOLEAN, updated : Day, expires : Day, drops : BOOLEAN]
CodeType == [status : {"none", "pending", "approved", "denied"}, expires : Day]

SessionTypes ==
  /\ day \in Nat /\ session \in [Session -> SessionRow] /\ touch \in [Session -> TouchType]
  /\ \A s \in Session : session[s].updated <= session[s].expires /\ touch[s].updated <= touch[s].expires

CodeTypes == code \in [Code -> CodeType] /\ minted \in [Code -> Nat]

OtherTypes ==
  /\ day <= MaxDay /\ daemonUp \in BOOLEAN /\ admin \in BOOLEAN /\ signedOut \subseteq Session /\ granted \subseteq Code
  /\ token \in [Token -> {"none", "live", "revoked"}]
  /\ approval \in [Approval -> {"none", "pending", "granted", "denied", "consumed"}]
  /\ passed \in Nat

AccTypes == SessionTypes /\ CodeTypes /\ OtherTypes

LEMMA AccTypesAre == AccTypes => AccTypeOK
<1>1. AccTypes => day \in 0..MaxDay
  BY AccessAssumption DEF AccTypes, SessionTypes, OtherTypes
<1> QED
  BY <1>1 DEF AccTypeOK, AccTypes, SessionTypes, CodeTypes, OtherTypes, SessionRow, TouchType, CodeType

LEMMA EmptyRows ==
  NoSession \in SessionRow /\ NoTouch \in TouchType /\ NoCode \in CodeType
BY DEF NoSession, NoTouch, NoCode, SessionRow, TouchType, CodeType, Day

LEMMA RowParts ==
  /\ \A r \in SessionRow : r.is \in BOOLEAN /\ r.updated \in Nat /\ r.expires \in Nat
  /\ \A x \in TouchType : /\ x.slides \in BOOLEAN /\ x.updated \in Nat /\ x.expires \in Nat /\ x.drops \in BOOLEAN
                          /\ [x EXCEPT !.drops = TRUE] \in TouchType
BY DEF SessionRow, TouchType, Day

(* The session of a row that is written from a queued renewal.             *)
LEMMA FlushedIs ==
  ASSUME SessionTypes
  PROVE  /\ Flushed \in [Session -> SessionRow]
         /\ \A s \in Session :
              /\ Flushed[s].updated <= Flushed[s].expires
              /\ ~Flushed[s].is \/ Flushed[s] = session[s]
                 \/ (session[s].is /\ touch[s].slides /\ ~touch[s].drops)
              /\ touch[s].drops => ~Flushed[s].is
              /\ ~session[s].is => ~Flushed[s].is
<1>1. ASSUME NEW s \in Session
      PROVE  /\ Flushed[s] \in SessionRow /\ Flushed[s].updated <= Flushed[s].expires
             /\ ~Flushed[s].is \/ Flushed[s] = session[s]
                 \/ (session[s].is /\ touch[s].slides /\ ~touch[s].drops)
             /\ touch[s].drops => ~Flushed[s].is
             /\ ~session[s].is => ~Flushed[s].is
  <2>1. /\ session[s] \in SessionRow /\ touch[s] \in TouchType
        /\ session[s].updated <= session[s].expires /\ touch[s].updated <= touch[s].expires
    BY DEF SessionTypes
  <2>2. CASE ~session[s].is \/ touch[s].drops
    <3>1. Flushed[s] = NoSession
      BY <2>2 DEF Flushed
    <3>2. ~NoSession.is /\ NoSession.updated <= NoSession.expires
      BY DEF NoSession
    <3> QED
      BY <3>1, <3>2, EmptyRows
  <2>3. CASE session[s].is /\ ~touch[s].drops /\ touch[s].slides
    <3>1. Flushed[s] = [is |-> TRUE, updated |-> touch[s].updated, expires |-> touch[s].expires]
      BY <2>3 DEF Flushed
    <3>2. Flushed[s] \in SessionRow
      BY <2>1, <3>1 DEF SessionRow, TouchType
    <3> QED
      BY <2>1, <2>3, <3>1, <3>2
  <2>4. CASE session[s].is /\ ~touch[s].drops /\ ~touch[s].slides
    BY <2>1, <2>4 DEF Flushed
  <2> QED
    BY <2>2, <2>3, <2>4
<1>2. Flushed = [s \in Session |-> Flushed[s]]
  BY DEF Flushed
<1> QED
  BY <1>1, <1>2

(* The sessions: one that has ended has no row, or has a row that expired  *)
(* and that nothing renews.                                                *)
EndedStayEnded ==
  \A s \in signedOut : ~session[s].is \/ (session[s].expires <= day /\ (touch[s].slides => touch[s].drops))

SessInv == SessionTypes /\ signedOut \subseteq Session /\ EndedStayEnded

LEMMA MintKeeps ==
  ASSUME SessInv, NEW s \in Session, NEW ttl \in Ttls, MintSession(s, ttl) PROVE SessInv'
<1>0. /\ day \in Nat /\ session \in [Session -> SessionRow] /\ touch \in [Session -> TouchType] /\ ttl \in Nat
      /\ \A u \in Session : session[u].updated <= session[u].expires /\ touch[u].updated <= touch[u].expires
  BY AccessAssumption DEF SessInv, SessionTypes
<1>1. /\ session' = Minted(s, ttl) /\ s \notin signedOut /\ UNCHANGED <<touch, signedOut, day>>
  BY DEF MintSession
<1>2. ASSUME NEW u \in Session
      PROVE  /\ session'[u] \in SessionRow /\ session'[u].updated <= session'[u].expires
             /\ u # s => session'[u] = session[u] \/ ~session'[u].is
  <2>1. CASE u = s
    <3>1. session'[u] = [is |-> TRUE, updated |-> day, expires |-> day + ttl]
      BY <1>1, <2>1 DEF Minted
    <3>2. day + ttl \in Nat /\ day <= day + ttl
      BY <1>0
    <3> QED
      BY <1>0, <2>1, <3>1, <3>2 DEF SessionRow, Day
  <2>2. CASE u # s
    <3>1. session'[u] = NoSession \/ session'[u] = session[u]
      BY <1>1, <2>2 DEF Minted
    <3>2. ~NoSession.is /\ NoSession.updated <= NoSession.expires
      BY DEF NoSession
    <3> QED
      BY <1>0, <2>2, <3>1, <3>2, EmptyRows
  <2> QED
    BY <2>1, <2>2
<1>3. session' = [u \in Session |-> session'[u]]
  BY <1>1 DEF Minted
<1>4. SessionTypes'
  BY <1>0, <1>1, <1>2, <1>3 DEF SessionTypes
<1>5. EndedStayEnded'
  BY <1>1, <1>2 DEF SessInv, EndedStayEnded
<1> QED
  BY <1>1, <1>4, <1>5 DEF SessInv

LEMMA FindKeeps ==
  ASSUME SessInv, NEW s \in Session, FindSession(s) PROVE SessInv'
<1>0. /\ day \in Nat /\ session \in [Session -> SessionRow] /\ touch \in [Session -> TouchType]
      /\ \A u \in Session : session[u].updated <= session[u].expires /\ touch[u].updated <= touch[u].expires
      /\ session[s].is
  BY DEF SessInv, SessionTypes, FindSession
<1>n. session[s].expires \in Nat /\ session[s].updated \in Nat
  BY <1>0, RowParts
<1>1. UNCHANGED <<day, session>>
  BY DEF FindSession
<1>2. CASE session[s].expires <= day
  <2>1. touch' = [touch EXCEPT ![s].drops = TRUE] /\ signedOut' = signedOut \cup {s}
    BY <1>2 DEF FindSession
  <2>2. [touch[s] EXCEPT !.drops = TRUE] \in TouchType
    BY <1>0, RowParts
  <2>3. touch' \in [Session -> TouchType]
    BY <1>0, <2>1, <2>2
  <2>4. /\ \A u \in Session : u # s => touch'[u] = touch[u]
        /\ touch'[s].drops /\ touch'[s].updated = touch[s].updated /\ touch'[s].expires = touch[s].expires
    BY <1>0, <2>1 DEF TouchType
  <2>5. SessionTypes'
    BY <1>0, <1>1, <2>3, <2>4 DEF SessionTypes
  <2>6. EndedStayEnded'
    BY <1>1, <1>2, <2>1, <2>4 DEF SessInv, EndedStayEnded
  <2> QED
    BY <2>1, <2>5, <2>6 DEF SessInv
<1>3. CASE ~(session[s].expires <= day)
  <2> DEFINE e == day + (session[s].expires - session[s].updated)
  <2>1. /\ touch' = [touch EXCEPT ![s] = [slides |-> TRUE, updated |-> day, expires |-> e, drops |-> touch[s].drops]]
        /\ signedOut' = signedOut
    BY <1>0, <1>3 DEF FindSession
  <2>2. e \in Nat /\ day <= e
    BY <1>0, <1>n
  <2> HIDE DEF e
  <2>3. [slides |-> TRUE, updated |-> day, expires |-> e, drops |-> touch[s].drops] \in TouchType
    BY <1>0, <2>2 DEF TouchType, Day
  <2>4. touch' \in [Session -> TouchType] /\ \A u \in Session : u # s => touch'[u] = touch[u]
    BY <1>0, <2>1, <2>3
  <2>5. touch'[s].updated = day /\ touch'[s].expires = e
    BY <1>0, <2>1
  <2>6. SessionTypes'
    BY <1>0, <1>1, <2>2, <2>4, <2>5 DEF SessionTypes
  <2>7. s \notin signedOut
    BY <1>0, <1>3 DEF SessInv, EndedStayEnded
  <2>8. EndedStayEnded'
    BY <1>1, <2>1, <2>4, <2>7 DEF SessInv, EndedStayEnded
  <2> QED
    BY <2>1, <2>6, <2>8 DEF SessInv
<1> QED
  BY <1>2, <1>3

(* The rows are replaced by fewer, or by what was queued for them; and     *)
(* nothing is queued any more.                                             *)
LEMMA FlushKeeps ==
  ASSUME SessInv, session' \in {session, Flushed}, touch' = [s \in Session |-> NoTouch], UNCHANGED <<day, signedOut>>
  PROVE  SessInv'
<1>1. ~NoTouch.slides /\ NoTouch.updated <= NoTouch.expires
  BY DEF NoTouch
<1>2. touch' \in [Session -> TouchType] /\ \A s \in Session : touch'[s] = NoTouch
  BY EmptyRows
<1>3. /\ session' \in [Session -> SessionRow]
      /\ \A s \in Session : /\ session'[s].updated <= session'[s].expires
                            /\ ~session'[s].is \/ session'[s] = session[s]
                               \/ (session[s].is /\ touch[s].slides /\ ~touch[s].drops)
  BY FlushedIs DEF SessInv, SessionTypes
<1>4. SessionTypes'
  BY <1>1, <1>2, <1>3 DEF SessInv, SessionTypes
<1>5. EndedStayEnded'
  BY <1>1, <1>2, <1>3 DEF SessInv, EndedStayEnded
<1> QED
  BY <1>4, <1>5 DEF SessInv

(* Rows are removed.                                                       *)
LEMMA RemovalKeeps ==
  ASSUME SessInv, NEW gone \in SUBSET Session, session' = [s \in Session |-> IF s \in gone THEN NoSession ELSE session[s]],
         UNCHANGED <<day, touch>>, signedOut' \subseteq signedOut \cup gone
  PROVE  SessInv'
<1>1. ~NoSession.is /\ NoSession.updated <= NoSession.expires
  BY DEF NoSession
<1>2. \A s \in Session : session'[s] = IF s \in gone THEN NoSession ELSE session[s]
  OBVIOUS
<1>3. SessionTypes'
  BY <1>1, <1>2, EmptyRows DEF SessInv, SessionTypes
<1>4. EndedStayEnded'
  BY <1>1, <1>2 DEF SessInv, EndedStayEnded
<1> QED
  BY <1>3, <1>4 DEF SessInv
-----------------------------------------------------------------------------
(* The device codes: one that is pending has not been granted; one that    *)
(* has been approved has minted nothing yet.                               *)
CodesOnce ==
  \A c \in Code :
    /\ c \notin granted => minted[c] = 0
    /\ c \in granted => minted[c] <= 1
    /\ code[c].status = "pending" => c \notin granted
    /\ code[c].status = "approved" => c \in granted /\ minted[c] = 0

CodeInv == CodeTypes /\ granted \subseteq Code /\ CodesOnce

LEMMA CodeKeeps ==
  ASSUME CodeInv, day \in Nat, NEW c \in Code,
         \/ StartCode(c) \/ ApproveCode(c) \/ DenyCode(c) \/ PollSettled(c)
         \/ \E t \in Token : PollApproved(c, t)
  PROVE  CodeInv'
<1>0. code \in [Code -> CodeType] /\ minted \in [Code -> Nat]
  BY DEF CodeInv, CodeTypes
<1>e. NoCode.status = "none" /\ NoCode \in CodeType
  BY EmptyRows DEF NoCode
<1>s. ASSUME NEW x \in CodeType, NEW st \in {"approved", "denied"} PROVE [x EXCEPT !.status = st] \in CodeType
  BY DEF CodeType
<1>1. CASE StartCode(c)
  <2>1. day + CodeTtl \in Nat
    BY AccessAssumption
  <2>2. [status |-> "pending", expires |-> day + CodeTtl] \in CodeType
    BY <2>1 DEF CodeType, Day
  <2>3. /\ c \notin granted /\ UNCHANGED <<granted, minted>>
        /\ \A d \in Code : d # c => code'[d] = code[d] \/ code'[d] = NoCode
        /\ code'[c] = [status |-> "pending", expires |-> day + CodeTtl]
        /\ code' = [d \in Code |-> code'[d]]
    BY <1>1 DEF StartCode, NotCodes
  <2>4. CodeTypes'
    BY <1>0, <1>e, <2>2, <2>3 DEF CodeTypes
  <2>5. CodesOnce'
    BY <1>e, <2>3 DEF CodeInv, CodesOnce
  <2> QED
    BY <2>3, <2>4, <2>5 DEF CodeInv
<1>2. CASE ApproveCode(c)
  <2>1. /\ code[c].status = "pending" /\ granted' = granted \cup {c} /\ minted' = minted
        /\ \A d \in Code : d # c => code'[d] = code[d]
        /\ code' = [code EXCEPT ![c] = [code[c] EXCEPT !.status = "approved"]]
    BY <1>0, <1>2 DEF ApproveCode, CodePending, NotCodes
  <2>2. code'[c].status = "approved"
    BY <1>0, <1>2 DEF ApproveCode, CodeType
  <2>3. CodeTypes'
    BY <1>0, <1>s, <2>1 DEF CodeTypes
  <2>4. minted[c] = 0
    BY <2>1 DEF CodeInv, CodesOnce
  <2>5. CodesOnce'
    BY <2>1, <2>2, <2>4 DEF CodeInv, CodesOnce
  <2> QED
    BY <2>1, <2>3, <2>5 DEF CodeInv
<1>3. CASE DenyCode(c)
  <2>1. /\ UNCHANGED <<granted, minted>>
        /\ \A d \in Code : d # c => code'[d] = code[d]
        /\ code' = [code EXCEPT ![c] = [code[c] EXCEPT !.status = "denied"]]
    BY <1>0, <1>3 DEF DenyCode, NotCodes
  <2>2. code'[c].status = "denied"
    BY <1>0, <1>3 DEF DenyCode, CodeType
  <2>3. CodeTypes'
    BY <1>0, <1>s, <2>1 DEF CodeTypes
  <2>4. CodesOnce'
    BY <2>1, <2>2 DEF CodeInv, CodesOnce
  <2> QED
    BY <2>1, <2>3, <2>4 DEF CodeInv
<1>4. CASE PollSettled(c)
  <2>1. UNCHANGED <<granted, minted>> /\ code' = [code EXCEPT ![c] = NoCode]
    BY <1>4 DEF PollSettled, NotCodes
  <2>2. CodeTypes'
    BY <1>0, <1>e, <2>1 DEF CodeTypes
  <2>3. CodesOnce'
    BY <1>0, <1>e, <2>1 DEF CodeInv, CodesOnce
  <2> QED
    BY <2>1, <2>2, <2>3 DEF CodeInv
<1>5. ASSUME NEW t \in Token, PollApproved(c, t) PROVE CodeInv'
  <2>1. /\ code[c].status = "approved" /\ granted' = granted
        /\ code' = [code EXCEPT ![c] = NoCode] /\ minted' = [minted EXCEPT ![c] = minted[c] + 1]
    BY <1>5 DEF PollApproved
  <2>2. minted[c] + 1 \in Nat /\ minted[c] = 0 /\ c \in granted
    BY <1>0, <2>1 DEF CodeInv, CodesOnce
  <2>3. CodeTypes'
    BY <1>0, <1>e, <2>1, <2>2 DEF CodeTypes
  <2>4. /\ \A d \in Code : d # c => code'[d] = code[d] /\ minted'[d] = minted[d]
        /\ code'[c].status = "none" /\ minted'[c] = 1
    BY <1>0, <1>e, <2>1, <2>2
  <2>5. CodesOnce'
    BY <2>1, <2>2, <2>4 DEF CodeInv, CodesOnce
  <2> QED
    BY <2>1, <2>3, <2>5 DEF CodeInv
<1> QED
  BY <1>1, <1>2, <1>3, <1>4, <1>5

CodesForgotten == code' = [c \in Code |-> NoCode] /\ UNCHANGED <<granted, minted>>

LEMMA ForgetKeeps == CodeInv /\ CodesForgotten => CodeInv'
<1> SUFFICES ASSUME CodeInv, CodesForgotten PROVE CodeInv'
  OBVIOUS
<1>1. NoCode.status = "none" /\ \A c \in Code : code'[c] = NoCode
  BY DEF NoCode, CodesForgotten
<1>2. CodeTypes'
  BY EmptyRows DEF CodeInv, CodeTypes, CodesForgotten
<1> QED
  BY <1>1, <1>2 DEF CodeInv, CodesOnce, CodesForgotten
-----------------------------------------------------------------------------
(* The approvals: one is consumed with every call that passes.             *)

Consumed == {a \in Approval : approval[a] = "consumed"}

PassesPaid == IsFiniteSet(Consumed) /\ passed <= Cardinality(Consumed)

ApprovalTypes ==
  approval \in [Approval -> {"none", "pending", "granted", "denied", "consumed"}] /\ passed \in Nat

PassInv == ApprovalTypes /\ PassesPaid

LEMMA GateKeeps ==
  ASSUME PassInv, NEW a \in Approval,
         GatePasses(a) \/ GateAsks(a) \/ Decide(a, "granted") \/ Decide(a, "denied")
  PROVE  PassInv'
<1>0. approval \in [Approval -> {"none", "pending", "granted", "denied", "consumed"}] /\ passed \in Nat
      /\ IsFiniteSet(Consumed) /\ passed <= Cardinality(Consumed)
  BY DEF PassInv, ApprovalTypes, PassesPaid
<1>1. CASE GatePasses(a)
  <2>1. approval[a] # "consumed" /\ passed' = passed + 1 /\ approval' = [approval EXCEPT ![a] = "consumed"]
    BY <1>1 DEF GatePasses
  <2>2. Consumed' = Consumed \cup {a} /\ a \notin Consumed
    BY <1>0, <2>1 DEF Consumed
  <2>3. IsFiniteSet(Consumed') /\ Cardinality(Consumed') = Cardinality(Consumed) + 1
    BY <1>0, <2>2, FS_AddElement
  <2>4. Cardinality(Consumed) \in Nat
    BY <1>0, FS_CardinalityType
  <2>5. passed' <= Cardinality(Consumed') /\ passed' \in Nat
    BY <1>0, <2>1, <2>3, <2>4
  <2>6. PassesPaid'
    BY <2>3, <2>5 DEF PassesPaid
  <2> QED
    BY <1>0, <2>1, <2>5, <2>6 DEF PassInv, ApprovalTypes
<1>2. ASSUME NEW v \in {"pending", "granted", "denied"}, approval' = [approval EXCEPT ![a] = v],
             approval[a] # "consumed", passed' = passed
      PROVE  PassInv'
  <2>1. Consumed' = Consumed
    BY <1>0, <1>2 DEF Consumed
  <2> QED
    BY <1>0, <1>2, <2>1 DEF PassInv, PassesPaid, ApprovalTypes
<1> QED
  BY <1>1, <1>2 DEF GateAsks, Decide
-----------------------------------------------------------------------------
Rest == day <= MaxDay /\ daemonUp \in BOOLEAN /\ admin \in BOOLEAN /\ token \in [Token -> {"none", "live", "revoked"}]

AccIInv == SessInv /\ CodeInv /\ PassInv /\ Rest

LEMMA AccIInvTypes == AccIInv => AccTypes
BY DEF AccIInv, SessInv, CodeInv, PassInv, Rest, ApprovalTypes, AccTypes, OtherTypes

LEMMA SessSame == SessInv /\ UNCHANGED <<day, session, touch, signedOut>> => SessInv'
BY DEF SessInv, SessionTypes, EndedStayEnded

LEMMA CodeSame == CodeInv /\ UNCHANGED <<code, granted, minted>> => CodeInv'
BY DEF CodeInv, CodeTypes, CodesOnce

LEMMA PassSame == PassInv /\ UNCHANGED <<approval, passed>> => PassInv'
BY DEF PassInv, ApprovalTypes, PassesPaid, Consumed

LEMMA AccInitInv == AccInit => AccIInv
<1> SUFFICES ASSUME AccInit PROVE AccIInv
  OBVIOUS
<1>1. NoSession.updated <= NoSession.expires /\ NoTouch.updated <= NoTouch.expires /\ NoCode.status = "none"
  BY DEF NoSession, NoTouch, NoCode
<1>2. SessInv
  BY <1>1, EmptyRows DEF AccInit, SessInv, SessionTypes, EndedStayEnded
<1>3. CodeInv
  BY <1>1, EmptyRows DEF AccInit, CodeInv, CodeTypes, CodesOnce
<1>4. PassInv
  <2>1. Consumed = {}
    BY DEF AccInit, Consumed
  <2>2. PassesPaid
    BY <2>1, FS_EmptySet DEF AccInit, PassesPaid
  <2> QED
    BY <2>2 DEF AccInit, PassInv, ApprovalTypes
<1>5. Rest
  <2>1. 0 <= MaxDay
    BY AccessAssumption
  <2> QED
    BY <2>1 DEF AccInit, Rest
<1> QED
  BY <1>2, <1>3, <1>4, <1>5 DEF AccIInv

LEMMA AccStep == AccIInv /\ [AccNext]_accVars => AccIInv'
<1> SUFFICES ASSUME AccIInv, [AccNext]_accVars PROVE AccIInv'
  OBVIOUS
<1> USE DEF NoRest, SameSessions
<1>0. SessInv /\ CodeInv /\ PassInv /\ Rest /\ day \in Nat
  BY DEF AccIInv, SessInv, SessionTypes
<1>t. ASSUME NEW t \in Token, MintToken(t) PROVE token' \in [Token -> {"none", "live", "revoked"}]
  BY <1>0, <1>t DEF MintToken, Rest
<1>1. CASE DayPasses
  <2>1. day' = day + 1 /\ day' \in Nat /\ day' <= MaxDay
    BY <1>0, <1>1, AccessAssumption DEF DayPasses
  <2>2. SessInv'
    <3>1. SessionTypes'
      BY <1>0, <1>1, <2>1 DEF DayPasses, SessInv, SessionTypes
    <3>2. \A s \in Session : session[s].expires \in Nat
      BY <1>0, RowParts DEF SessInv, SessionTypes
    <3>3. EndedStayEnded'
      <4>1. \A s \in Session : session[s].expires <= day => session[s].expires <= day'
        BY <1>0, <2>1, <3>2
      <4> QED
        BY <1>0, <1>1, <4>1 DEF DayPasses, SessInv, EndedStayEnded
    <3> QED
      BY <1>0, <1>1, <3>1, <3>3 DEF DayPasses, SessInv
  <2> QED
    BY <1>0, <1>1, <2>1, <2>2, CodeSame, PassSame DEF DayPasses, AccIInv, Rest
<1>2. CASE FlushTouchLater
  <2>1. SessInv'
    BY <1>0, <1>2, FlushKeeps DEF FlushTouchLater
  <2> QED
    BY <1>0, <1>2, <2>1, CodeSame, PassSame DEF FlushTouchLater, AccIInv, Rest
<1>3. CASE AccessDies \/ AccessExits
  <2>1. Down /\ session' \in {session, Flushed} /\ UNCHANGED <<day, admin, signedOut, token, granted, minted, approval, passed>>
    BY <1>3 DEF AccessDies, AccessExits
  <2>2. SessInv'
    BY <1>0, <2>1, FlushKeeps DEF Down
  <2>3. CodeInv'
    BY <1>0, <2>1, ForgetKeeps DEF Down, CodesForgotten
  <2> QED
    BY <1>0, <2>1, <2>2, <2>3, PassSame DEF Down, AccIInv, Rest
<1>4. CASE AccessRestarts
  BY <1>0, <1>4, SessSame, CodeSame, PassSame DEF AccessRestarts, AccIInv, Rest
<1>5. CASE ResetAdmin
  <2> DEFINE gone == Session
  <2>1. session' = [s \in Session |-> IF s \in gone THEN NoSession ELSE session[s]]
    BY <1>5 DEF ResetAdmin
  <2>2. SessInv'
    BY <1>0, <1>5, <2>1, RemovalKeeps DEF ResetAdmin
  <2> QED
    BY <1>0, <1>5, <2>2, CodeSame, PassSame DEF ResetAdmin, AccIInv, Rest
<1>6. ASSUME NEW s \in Session, NEW ttl \in Ttls, SignUp(s, ttl) \/ SignIn(s, ttl) PROVE AccIInv'
  <2>1. MintSession(s, ttl) /\ admin' \in BOOLEAN
    BY <1>0, <1>6 DEF SignUp, SignIn, Rest
  <2>2. SessInv'
    BY <1>0, <2>1, MintKeeps
  <2> QED
    BY <1>0, <2>1, <2>2, CodeSame, PassSame DEF MintSession, AccIInv, Rest
<1>7. ASSUME NEW s \in Session, FindSession(s) PROVE AccIInv'
  <2>1. SessInv'
    BY <1>0, <1>7, FindKeeps
  <2> QED
    BY <1>0, <1>7, <2>1, CodeSame, PassSame DEF FindSession, AccIInv, Rest
<1>8. ASSUME NEW s \in Session, RevokeSession(s) PROVE AccIInv'
  <2>1. session' = [u \in Session |-> IF u \in {s} THEN NoSession ELSE session[u]]
    BY <1>0, <1>8 DEF RevokeSession, SessInv, SessionTypes
  <2>2. SessInv'
    BY <1>0, <1>8, <2>1, RemovalKeeps DEF RevokeSession
  <2> QED
    BY <1>0, <1>8, <2>2, CodeSame, PassSame DEF RevokeSession, AccIInv, Rest
<1>9. ASSUME NEW t \in Token, CreateToken(t) \/ RevokeToken(t) PROVE AccIInv'
  <2>1. token' \in [Token -> {"none", "live", "revoked"}]
    BY <1>0, <1>9, <1>t DEF CreateToken, RevokeToken, Rest
  <2> QED
    BY <1>0, <1>9, <2>1, SessSame, CodeSame, PassSame DEF CreateToken, RevokeToken, AccIInv, Rest
<1>10. ASSUME NEW c \in Code, StartCode(c) \/ ApproveCode(c) \/ DenyCode(c) \/ PollSettled(c) PROVE AccIInv'
  <2>1. CodeInv'
    BY <1>0, <1>10, CodeKeeps
  <2> QED
    BY <1>0, <1>10, <2>1, SessSame, PassSame
    DEF StartCode, ApproveCode, DenyCode, PollSettled, NotCodes, AccIInv, Rest
<1>11. ASSUME NEW c \in Code, NEW t \in Token, PollApproved(c, t) PROVE AccIInv'
  <2>1. CodeInv'
    BY <1>0, <1>11, CodeKeeps
  <2>2. token' \in [Token -> {"none", "live", "revoked"}]
    BY <1>11, <1>t DEF PollApproved
  <2> QED
    BY <1>0, <1>11, <2>1, <2>2, SessSame, PassSame DEF PollApproved, AccIInv, Rest
<1>12. ASSUME NEW a \in Approval, GatePasses(a) \/ GateAsks(a) \/ Decide(a, "granted") \/ Decide(a, "denied")
       PROVE  AccIInv'
  <2>1. PassInv'
    BY <1>0, <1>12, GateKeeps
  <2> QED
    BY <1>0, <1>12, <2>1, SessSame, CodeSame DEF GatePasses, GateAsks, Decide, NotApprovals, AccIInv, Rest
<1>13. CASE UNCHANGED accVars
  BY <1>0, <1>13, SessSame, CodeSame, PassSame DEF accVars, AccIInv, Rest
<1> QED
  BY <1>1, <1>2, <1>3, <1>4, <1>5, <1>6, <1>7, <1>8, <1>9, <1>10, <1>11, <1>12, <1>13 DEF AccNext

LEMMA AccInvariant == AccSpec => []AccIInv
BY AccInitInv, AccStep, PTL DEF AccSpec

(* Every variable of the access keeps its type.                            *)
THEOREM AccTypesHold == AccSpec => []AccTypeOK
BY AccInvariant, AccIInvTypes, AccTypesAre, PTL

(* A session that has ended stays ended (identity.ts, state.ts touchLater),*)
(* a code is exchanged once (auth.ts), and an approval lets one call       *)
(* through (govern.ts).                                                    *)
THEOREM AccessStaysGranted == AccSpec => []AccessIsGranted
<1>1. AccIInv => AccessIsGranted
  <2> SUFFICES ASSUME AccIInv PROVE AccessIsGranted
    OBVIOUS
  <2>1. \A s \in signedOut : ~SessionLives(s)
    <3>1. ASSUME NEW s \in Session PROVE session[s].expires <= day => ~(session[s].expires > day)
      BY RowParts DEF AccIInv, SessInv, SessionTypes
    <3> QED
      BY <3>1 DEF AccIInv, SessInv, EndedStayEnded, SessionLives
  <2>2. \A c \in Code : minted[c] <= IF c \in granted THEN 1 ELSE 0
    BY DEF AccIInv, CodeInv, CodesOnce
  <2>3. passed <= Cardinality({a \in Approval : approval[a] = "consumed"})
    BY DEF AccIInv, PassInv, PassesPaid, Consumed
  <2> QED
    BY <2>1, <2>2, <2>3 DEF AccessIsGranted
<1> QED
  BY <1>1, AccInvariant, PTL
-----------------------------------------------------------------------------
(* The daemon's upkeep.                                                    *)

LEMMA AsFork == UpkeepNext => [ForkNext]_forkVars
BY DEF UpkeepNext, AtFork, AtLock, AtSnap, AtUp, AtMet, AtAcc, ForkNext, ForkStep

LEMMA AsLock == UpkeepNext => [LockNext]_lockVars
BY DEF UpkeepNext, AtFork, AtLock, AtSnap, AtUp, AtMet, AtAcc, LockNext

LEMMA AsSnap == UpkeepNext => [SnapNext]_snapVars
BY DEF UpkeepNext, AtFork, AtLock, AtSnap, AtUp, AtMet, AtAcc, SnapNext

LEMMA AsUp == UpkeepNext => [UpNext]_upVars
BY DEF UpkeepNext, AtFork, AtLock, AtSnap, AtUp, AtMet, AtAcc, UpNext

LEMMA AsMet == UpkeepNext => [MetNext]_metVars
BY DEF UpkeepNext, AtFork, AtLock, AtSnap, AtUp, AtMet, AtAcc, MetNext

LEMMA AsAcc == UpkeepNext => [AccNext]_accVars
BY DEF UpkeepNext, AtFork, AtLock, AtSnap, AtUp, AtMet, AtAcc, AccNext

(* Every step of the upkeep is a step of each part or leaves it alone.     *)
THEOREM UpkeepImplementsParts ==
  UpkeepSpec => ForkSpec /\ LockSpec /\ SnapSpec /\ UpSpec /\ MetSpec /\ AccSpec
<1>1. UpkeepInit => ForkInit /\ LockInit /\ SnapInit /\ UpInit /\ MetInit /\ AccInit
  BY DEF UpkeepInit
<1>2. [UpkeepNext]_upkeepVars => /\ [ForkNext]_forkVars /\ [LockNext]_lockVars /\ [SnapNext]_snapVars
                                 /\ [UpNext]_upVars /\ [MetNext]_metVars /\ [AccNext]_accVars
  BY AsFork, AsLock, AsSnap, AsUp, AsMet, AsAcc DEF upkeepVars
<1> QED
  BY <1>1, <1>2, PTL DEF UpkeepSpec, ForkSpec, LockSpec, SnapSpec, UpSpec, MetSpec, AccSpec

(* The state of every desk keeps its type.                                 *)
THEOREM UpkeepTypesHold == UpkeepSpec => []UpkeepTypeOK
<1>1. UpkeepInit => watched \in UpkeepDesks
  BY DEF UpkeepInit
<1>2. watched \in UpkeepDesks /\ [UpkeepNext]_upkeepVars => (watched \in UpkeepDesks)'
  BY DEF UpkeepNext, upkeepVars, AtFork, AtLock, AtSnap, AtUp, AtMet, AtAcc
<1>3. UpkeepSpec => [](watched \in UpkeepDesks)
  BY <1>1, <1>2, PTL DEF UpkeepSpec
<1>4. watched \in UpkeepDesks /\ ForkTypeOK /\ LockTypeOK /\ SnapTypeOK /\ UpTypeOK /\ MetTypeOK /\ AccTypeOK
        => UpkeepTypeOK
  BY DEF UpkeepTypeOK
<1> QED
  BY <1>3, <1>4, UpkeepImplementsParts, ForkTypesHold, LockTypesHold, SnapTypesHold, UpTypesHold, MetTypesHold,
     AccTypesHold, PTL

(* Neither the snapshot (scheduler.ts, absorb) nor the addresses           *)
(* (upstream.ts) go back behind what an operation has recorded.            *)
THEOREM ReadsDoRespect == UpkeepSpec => []ReadsRespectOutcomes
<1>1. ListingsRespectOutcomes /\ DialsRespectOutcomes => ReadsRespectOutcomes
  BY DEF ReadsRespectOutcomes
<1> QED
  BY <1>1, UpkeepImplementsParts, ListingsDoRespect, DialsDoRespect, PTL
=============================================================================
