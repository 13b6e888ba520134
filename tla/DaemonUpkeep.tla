---------------------------- MODULE DaemonUpkeep ----------------------------
(***************************************************************************)
(* What the daemon keeps up around its work, composed: the copies of       *)
(* postgres that its creates are made of, the lock on its data directory,  *)
(* its views of docker (the snapshot of states, the addresses, the samples *)
(* of counters), and whom it lets in.  As in DaemonWork, a behaviour is    *)
(* looked at from one desk, and the others rest.                           *)
(***************************************************************************)
EXTENDS PgFork, ProcessLock, Snapshot, Upstream, Metrics, Access

CONSTANT UpkeepDesks \* those that are looked at

ASSUME UpkeepAssumption == UpkeepDesks \subseteq {"fork", "lock", "snapshot", "upstream", "metrics", "access"}

VARIABLE watched \* the one that this behaviour follows

upkeepVars == <<watched, forkVars, lockVars, snapVars, upVars, metVars, accVars>>

AtFork == watched = "fork" /\ UNCHANGED <<watched, lockVars, snapVars, upVars, metVars, accVars>>
AtLock == watched = "lock" /\ UNCHANGED <<watched, forkVars, snapVars, upVars, metVars, accVars>>
AtSnap == watched = "snapshot" /\ UNCHANGED <<watched, forkVars, lockVars, upVars, metVars, accVars>>
AtUp == watched = "upstream" /\ UNCHANGED <<watched, forkVars, lockVars, snapVars, metVars, accVars>>
AtMet == watched = "metrics" /\ UNCHANGED <<watched, forkVars, lockVars, snapVars, upVars, accVars>>
AtAcc == watched = "access" /\ UNCHANGED <<watched, forkVars, lockVars, snapVars, upVars, metVars>>

UpkeepTypeOK ==
  watched \in UpkeepDesks /\ ForkTypeOK /\ LockTypeOK /\ SnapTypeOK /\ UpTypeOK /\ MetTypeOK /\ AccTypeOK

(* A desk that is not followed is fixed where it does not matter.          *)
UpkeepInit ==
  /\ watched \in UpkeepDesks
  /\ ForkInit /\ LockInit /\ SnapInit /\ UpInit /\ MetInit /\ AccInit
  /\ watched # "fork" => setting = "reflink" /\ source = [state |-> "exited", runs |-> 0, ver |-> 0, hba |-> FALSE]
  /\ watched # "snapshot" => \A c \in Ctr : docker[c].state = "gone"
  /\ watched # "upstream" => ~box.up /\ asking = [q \in Caller |-> NoCall(CHOOSE p \in Served : TRUE)]

UpkeepNext ==
  \/ AtFork /\ (ForkBegins \/ ProvisionBegins \/ ProbeUnreadable \/ ClearOrphanBytes \/ OrphanBytesStay)
  \/ AtFork /\ (LooksAtSource \/ SourceUnreadable \/ CloneBegins \/ ClonePostgres \/ NoReflink \/ CloneFails \/ CopyJudged)
  \/ AtFork /\ (EnsureSourceRunning \/ DoorFails \/ EnsureHba \/ SourceNotReady \/ BackupEnds \/ StripHba \/ StripFails)
  \/ AtFork /\ (PgRun \/ PgIsReady \/ TornCopyRetried \/ TornCopyTwice \/ NotReady)
  \/ \E b \in BOOLEAN : AtFork /\ (ClearOrphan(b) \/ BackupFails(b) \/ PgRunFails(b) \/ ForkRollsBack(b))
  \/ \E b, c \in BOOLEAN : AtFork /\ (CopySpansAWrite(b, c) \/ CloneNotReady(b, c))
  \/ AtFork /\ (ForkDies \/ SourceActs)
  \/ AtLock /\ TimePasses
  \/ \E p \in Proc :
       \/ \E oneShot \in BOOLEAN : AtLock /\ Starts(p, oneShot)
       \/ AtLock /\ (OpenExclusive(p) \/ StatKey(p) \/ Judges(p) \/ TakesOver(p) \/ TriesAgain(p))
       \/ AtLock /\ (HeartBeat(p) \/ ReleaseLock(p) \/ ReadHolder(p) \/ UnlinksOwn(p))
       \/ AtLock /\ (Killed(p) \/ Paused(p) \/ Resumed(p))
  \/ AtSnap /\ Tick
  \/ \E c \in Ctr :
       \/ \E st \in CtrState : AtSnap /\ (ByItself(c, st) \/ VerbActs(c, st))
       \/ AtSnap /\ (SetCached(c) \/ VerbEnds(c) \/ StopFails(c))
  \/ \E r \in Listing : AtSnap /\ (ReadContainers(r) \/ DockerLists(r) \/ ListingFails(r) \/ Absorb(r))
  \/ \E replaced \in BOOLEAN : AtUp /\ Runs(replaced)
  \/ AtUp /\ Stops
  \/ \E n \in Epoch : AtUp /\ (OutcomeRecorded(n) \/ ForgetIfChanged(n))
  \/ \E p \in Served : AtUp /\ Expires(p)
  \/ \E q \in Caller :
       \/ \E p \in Served : AtUp /\ Resolve(q, p)
       \/ AtUp /\ (DockerInspects(q) \/ InspectFails(q) \/ ForgetAndResolve(q) \/ WakeFails(q))
       \/ AtUp /\ (Dialled(q) \/ DialRefused(q))
       \/ \E running \in BOOLEAN : AtUp /\ LookupAnswers(q, running)
  \/ AtMet /\ (Second \/ Receives \/ Redeployed \/ RowRemoved \/ ContainerAdded \/ RowWritten)
  \/ AtMet /\ (Turns("running", "paused") \/ Turns("paused", "running") \/ Turns("running", "exited"))
  \/ AtMet /\ (Turns("paused", "exited") \/ Turns("exited", "running"))
  \/ AtMet /\ (Load \/ TickBegins \/ Ps \/ Stats \/ NothingRead \/ SamplerStops \/ SamplerDies)
  \/ \E persists \in BOOLEAN : AtMet /\ Record(persists)
  \/ AtAcc /\ (DayPasses \/ FlushTouchLater \/ AccessDies \/ AccessExits \/ AccessRestarts \/ ResetAdmin)
  \/ \E s \in Session, ttl \in Ttls : AtAcc /\ (SignUp(s, ttl) \/ SignIn(s, ttl))
  \/ \E s \in Session : AtAcc /\ (FindSession(s) \/ RevokeSession(s))
  \/ \E t \in Token : AtAcc /\ (CreateToken(t) \/ RevokeToken(t))
  \/ \E c \in Code : AtAcc /\ (StartCode(c) \/ ApproveCode(c) \/ DenyCode(c) \/ PollSettled(c))
  \/ \E c \in Code, t \in Token : AtAcc /\ PollApproved(c, t)
  \/ \E a \in Approval : AtAcc /\ (GatePasses(a) \/ GateAsks(a) \/ Decide(a, "granted") \/ Decide(a, "denied"))

UpkeepSpec == UpkeepInit /\ [][UpkeepNext]_upkeepVars
-----------------------------------------------------------------------------
(* Neither view of docker that operations decide by, the snapshot or the   *)
(* addresses, goes back behind what an operation has recorded.             *)
ReadsRespectOutcomes == ListingsRespectOutcomes /\ DialsRespectOutcomes
=============================================================================
