------------------------------- MODULE PgFork -------------------------------
(***************************************************************************)
(* The copy of a branch's postgres (src/adapters/postgres.ts): a file by   *)
(* file clone of a source that nothing writes, else a streamed backup of a *)
(* running one; or a new database, where the source has none.  The daemon  *)
(* may die at any step and leave a container or bytes that the next        *)
(* attempt finds.  The fork holds the source's key, so whoever else starts *)
(* and stops the source does so from outside the daemon.                   *)
(*                                                                         *)
(* Bytes are versions of the source's data: a copy holds those between the *)
(* versions at which its walk began and ended.                             *)
(***************************************************************************)
EXTENDS Naturals

CONSTANTS MaxRuns,  \* bound on the starts and stops of the source
          MaxWrites \* bound on its writes

ASSUME ForkAssumption == MaxRuns \in Nat /\ MaxWrites \in Nat

VARIABLES
  setting,    \* INSTA_OSS_FORK with the boot probe; strict: =reflink
  source,     \* its container and its data
  dstCtr,     \* the container of the destination's name: none, an earlier attempt's, this one's
  copy,       \* the destination's directory
  forkPc,
  forkVia,    \* what is being made, by which method
  forkBefore, \* the source's fingerprint before the walk
  forkRetry   \* is this the second clone

forkVars == <<setting, source, dstCtr, copy, forkPc, forkVia, forkBefore, forkRetry>>

Bare == [held |-> "none", from |-> 0, to |-> 0, mixed |-> FALSE, hba |-> FALSE]
SourceState == {"exited", "running", "paused", "restarting", "gone"}
Fingerprint == [state : SourceState, runs : 0..MaxRuns]
NoFingerprint == [state |-> "gone", runs |-> 0]

ForkTypeOK ==
  /\ setting \in {"reflink", "strict", "basebackup"}
  /\ source \in [state : SourceState, runs : 0..MaxRuns, ver : 0..MaxWrites, hba : BOOLEAN]
  /\ dstCtr \in {"none", "left", "up"}
  /\ copy \in [held : {"none", "part", "whole"}, from : 0..MaxWrites, to : 0..MaxWrites,
               mixed : BOOLEAN, hba : BOOLEAN]
  /\ forkPc \in {"idle", "clear", "clearDir", "look", "clone", "walk", "judge", "start", "ready", "torn", "door",
                 "status", "stream", "strip", "failed", "done"}
  /\ forkVia \in {"reflink", "basebackup", "initdb"}
  /\ forkBefore \in Fingerprint
  /\ forkRetry \in BOOLEAN

ForkInit ==
  /\ setting \in {"reflink", "strict", "basebackup"}
  /\ \E st \in SourceState, h \in BOOLEAN : source = [state |-> st, runs |-> 0, ver |-> 0, hba |-> h]
  /\ dstCtr = "none" /\ copy = Bare
  /\ forkPc = "idle" /\ forkVia = "reflink" /\ forkBefore = NoFingerprint /\ forkRetry = FALSE
-----------------------------------------------------------------------------
Goes(from, to) == forkPc = from /\ forkPc' = to

ForkFails == forkPc' = "failed" \* and rejects

RunFingerprint == [state |-> source.state, runs |-> source.runs]

AtRest(print) == print.state \in {"exited", "gone"}

(* NoReflink, RunningSource and TornCopy errors stream instead, unless the *)
(* operator asked for a clone or nothing.                                  *)
FallsBack ==
  IF setting = "strict" THEN ForkFails /\ UNCHANGED forkVia
                        ELSE forkPc' = "clear" /\ forkVia' = "basebackup"

ForkBegins ==
  /\ Goes("idle", "clear")
  /\ forkVia' = (IF setting = "basebackup" THEN "basebackup" ELSE "reflink")
  /\ forkRetry' = FALSE
  /\ UNCHANGED <<setting, source, dstCtr, copy, forkBefore>>

ProvisionBegins ==
  /\ Goes("idle", "clear") /\ forkVia' = "initdb"
  /\ UNCHANGED <<setting, source, dstCtr, copy, forkBefore, forkRetry>>

(* What an interrupted attempt left is cleared on docker's word only: a    *)
(* probe that could not answer stops the operation.  A removal that failed *)
(* is taken for one that raced, and the name stays in use.                 *)
ProbeUnreadable ==
  /\ forkPc = "clear" /\ ForkFails
  /\ UNCHANGED <<setting, source, dstCtr, copy, forkVia, forkBefore, forkRetry>>

ClearOrphan(removed) ==
  /\ Goes("clear", "clearDir")
  /\ dstCtr' = IF removed THEN "none" ELSE dstCtr
  /\ UNCHANGED <<setting, source, copy, forkVia, forkBefore, forkRetry>>

ClearOrphanBytes ==
  /\ forkPc = "clearDir" /\ copy' = Bare
  /\ forkPc' = (CASE forkVia = "reflink" -> "look" [] forkVia = "basebackup" -> "door" [] OTHER -> "start")
  /\ UNCHANGED <<setting, source, dstCtr, forkVia, forkBefore, forkRetry>>

OrphanBytesStay ==
  /\ forkPc = "clearDir" /\ copy.held # "none" /\ ForkFails
  /\ UNCHANGED <<setting, source, dstCtr, copy, forkVia, forkBefore, forkRetry>>
-----------------------------------------------------------------------------
(* The clone.                                                              *)

LooksAtSource ==
  /\ forkPc = "look" /\ forkBefore' = RunFingerprint
  /\ IF AtRest(RunFingerprint) THEN forkPc' = "clone" /\ UNCHANGED forkVia ELSE FallsBack
  /\ UNCHANGED <<setting, source, dstCtr, copy, forkRetry>>

SourceUnreadable ==
  /\ forkPc = "look" /\ FallsBack
  /\ UNCHANGED <<setting, source, dstCtr, copy, forkBefore, forkRetry>>

CloneBegins ==
  /\ Goes("clone", "walk")
  /\ copy' = [Bare EXCEPT !.held = "part", !.from = source.ver, !.mixed = copy.held # "none"]
  /\ UNCHANGED <<setting, source, dstCtr, forkVia, forkBefore, forkRetry>>

ClonePostgres ==
  /\ Goes("walk", "judge")
  /\ copy' = [copy EXCEPT !.held = "whole", !.to = source.ver, !.hba = source.hba]
  /\ UNCHANGED <<setting, source, dstCtr, forkVia, forkBefore, forkRetry>>

(* The filesystem has no reflinks after all; or the walk fails otherwise.  *)
NoReflink ==
  /\ forkPc = "walk" /\ FallsBack
  /\ UNCHANGED <<setting, source, dstCtr, copy, forkBefore, forkRetry>>

CloneFails ==
  /\ forkPc = "walk" /\ ForkFails
  /\ UNCHANGED <<setting, source, dstCtr, copy, forkVia, forkBefore, forkRetry>>

\* variant: the status alone is compared
StatusJudged ==
  /\ Goes("judge", "start") /\ source.state = forkBefore.state
  /\ UNCHANGED <<setting, source, dstCtr, copy, forkVia, forkBefore, forkRetry>>

CopyJudged ==
  /\ Goes("judge", "start") /\ RunFingerprint = forkBefore
  /\ UNCHANGED <<setting, source, dstCtr, copy, forkVia, forkBefore, forkRetry>>

(* The source ran, or docker cannot say: the copy goes, if it will.        *)
CopySpansAWrite(removed, unreadable) ==
  /\ forkPc = "judge" /\ (unreadable \/ RunFingerprint # forkBefore)
  /\ copy' = (IF removed THEN Bare ELSE copy)
  /\ FallsBack
  /\ UNCHANGED <<setting, source, dstCtr, forkBefore, forkRetry>>
-----------------------------------------------------------------------------
(* The stream.                                                             *)

EnsureSourceRunning ==
  /\ Goes("door", "status") /\ source.state # "gone"
  /\ source.state = "exited" => source.runs < MaxRuns
  /\ source' = [source EXCEPT !.state = "running", !.runs = IF source.state = "exited" THEN @ + 1 ELSE @]
  /\ UNCHANGED <<setting, dstCtr, copy, forkVia, forkBefore, forkRetry>>

DoorFails ==
  /\ forkPc = "door" /\ ForkFails
  /\ UNCHANGED <<setting, source, dstCtr, copy, forkVia, forkBefore, forkRetry>>

(* The source is waited for, and takes the replication line.               *)
EnsureHba ==
  /\ Goes("status", "stream") /\ source.state = "running"
  /\ source' = [source EXCEPT !.hba = TRUE]
  /\ UNCHANGED <<setting, dstCtr, copy, forkVia, forkBefore, forkRetry>>

SourceNotReady ==
  /\ forkPc = "status" /\ ForkFails
  /\ UNCHANGED <<setting, source, dstCtr, copy, forkVia, forkBefore, forkRetry>>

BackupEnds ==
  /\ Goes("stream", "strip") /\ source.state = "running"
  /\ copy' = [held |-> "whole", from |-> source.ver, to |-> source.ver, mixed |-> copy.held # "none", hba |-> source.hba]
  /\ UNCHANGED <<setting, source, dstCtr, forkVia, forkBefore, forkRetry>>

BackupFails(removed) ==
  /\ forkPc = "stream" /\ ForkFails
  /\ copy' = IF removed THEN Bare ELSE [copy EXCEPT !.held = "part"]
  /\ UNCHANGED <<setting, source, dstCtr, forkVia, forkBefore, forkRetry>>

StripHba ==
  /\ Goes("strip", "start")
  /\ copy' = [copy EXCEPT !.hba = FALSE]
  /\ UNCHANGED <<setting, source, dstCtr, forkVia, forkBefore, forkRetry>>

StripFails ==
  /\ forkPc = "strip" /\ ForkFails
  /\ UNCHANGED <<setting, source, dstCtr, copy, forkVia, forkBefore, forkRetry>>
-----------------------------------------------------------------------------
(* The container on the copy, or on an empty directory.                    *)

PgRun ==
  /\ Goes("start", "ready") /\ dstCtr = "none"
  /\ dstCtr' = "up"
  /\ copy' = IF forkVia = "initdb" THEN [Bare EXCEPT !.held = "whole", !.mixed = copy.held # "none"] ELSE copy
  /\ UNCHANGED <<setting, source, forkVia, forkBefore, forkRetry>>

PgRunFails(created) ==
  /\ forkPc = "start" /\ ForkFails
  /\ dstCtr' = IF created THEN "left" ELSE dstCtr
  /\ UNCHANGED <<setting, source, copy, forkVia, forkBefore, forkRetry>>

PgIsReady ==
  /\ Goes("ready", "done")
  /\ UNCHANGED <<setting, source, dstCtr, copy, forkVia, forkBefore, forkRetry>>

(* A clone that does not come up is removed; if its log says that it was   *)
(* torn, it is cloned once more, and then streamed.  Others stay for the   *)
(* engine's compensation.                                                  *)
CloneNotReady(gone, removed) ==
  /\ Goes("ready", "torn") /\ forkVia = "reflink"
  /\ dstCtr' = (IF gone THEN "none" ELSE "left") /\ copy' = (IF removed THEN Bare ELSE copy)
  /\ UNCHANGED <<setting, source, forkVia, forkBefore, forkRetry>>

TornCopyRetried ==
  /\ Goes("torn", "clear") /\ ~forkRetry /\ forkRetry' = TRUE
  /\ UNCHANGED <<setting, source, dstCtr, copy, forkVia, forkBefore>>

TornCopyTwice ==
  /\ forkPc = "torn" /\ forkRetry /\ FallsBack
  /\ UNCHANGED <<setting, source, dstCtr, copy, forkBefore, forkRetry>>

NotReady ==
  /\ \/ forkPc = "torn" /\ UNCHANGED dstCtr
     \/ forkPc = "ready" /\ forkVia # "reflink" /\ dstCtr' = "left"
  /\ ForkFails
  /\ UNCHANGED <<setting, source, copy, forkVia, forkBefore, forkRetry>>

(* The engine's compensation removes the branch's directories.             *)
ForkRollsBack(removed) ==
  /\ Goes("failed", "idle")
  /\ copy' = IF removed THEN Bare ELSE copy
  /\ UNCHANGED <<setting, source, dstCtr, forkVia, forkBefore, forkRetry>>

ForkDies ==
  /\ forkPc \notin {"idle", "done"} /\ forkPc' = "idle"
  /\ dstCtr' = IF dstCtr = "up" THEN "left" ELSE dstCtr
  /\ UNCHANGED <<setting, source, copy, forkVia, forkBefore, forkRetry>>
-----------------------------------------------------------------------------
(* The source, from outside.  A run's start and its end each stamp a time; *)
(* a pause stamps nothing.                                                 *)

SourceStarts ==
  /\ source.state \in {"exited", "restarting"} /\ source.runs < MaxRuns
  /\ source' = [source EXCEPT !.state = "running", !.runs = @ + 1]

SourceStops ==
  /\ source.state \in {"running", "restarting"} /\ source.runs < MaxRuns
  /\ \E st \in {"exited", "restarting"} : source' = [source EXCEPT !.state = st, !.runs = @ + 1]

SourcePauses ==
  /\ source.state = "running" /\ source' = [source EXCEPT !.state = "paused"]

SourceUnpauses ==
  /\ source.state = "paused" /\ source' = [source EXCEPT !.state = "running"]

SourceWrites ==
  /\ source.state = "running" /\ source.ver < MaxWrites
  /\ source' = [source EXCEPT !.ver = @ + 1]

SourceActs ==
  /\ SourceStarts \/ SourceStops \/ SourcePauses \/ SourceUnpauses \/ SourceWrites
  /\ UNCHANGED <<setting, dstCtr, copy, forkPc, forkVia, forkBefore, forkRetry>>
-----------------------------------------------------------------------------
ForkStep ==
  \/ ForkBegins \/ ProvisionBegins \/ ProbeUnreadable \/ ClearOrphanBytes \/ OrphanBytesStay
  \/ LooksAtSource \/ SourceUnreadable \/ CloneBegins \/ ClonePostgres \/ NoReflink \/ CloneFails \/ CopyJudged
  \/ EnsureSourceRunning \/ DoorFails \/ EnsureHba \/ SourceNotReady \/ BackupEnds \/ StripHba \/ StripFails
  \/ PgRun \/ PgIsReady \/ TornCopyRetried \/ TornCopyTwice \/ NotReady
  \/ \E b \in BOOLEAN : ClearOrphan(b) \/ BackupFails(b) \/ PgRunFails(b) \/ ForkRollsBack(b)
  \/ \E b, c \in BOOLEAN : CopySpansAWrite(b, c) \/ CloneNotReady(b, c)

ForkNext == ForkStep \/ ForkDies \/ SourceActs

ForkSpec == ForkInit /\ [][ForkNext]_forkVars
-----------------------------------------------------------------------------
(* No container is started on a clone that spans a write of its source, on *)
(* bytes of two attempts, or on a streamed copy that still takes           *)
(* replication connections; and a strict fork never streams.               *)
ForkIsSound ==
  forkPc \in {"ready", "done"} =>
    /\ copy.held = "whole" /\ copy.from = copy.to /\ ~copy.mixed
    /\ forkVia = "basebackup" => ~copy.hba /\ setting # "strict"
=============================================================================
