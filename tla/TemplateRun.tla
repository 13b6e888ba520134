---------------------------- MODULE TemplateRun ----------------------------
(***************************************************************************)
(* Deployments of one template under one deployment id                     *)
(* (src/templates/executor.ts): the accept that decides between an echo, a *)
(* resume and a fresh run, the row with the claim token of the run that    *)
(* last took it, the background run with its guarded saves, and the        *)
(* daemon's death at any of its writes.                                    *)
(*                                                                         *)
(* A service of the branch is its manifest name and its copy number, so    *)
(* that <<"web", 2>> is `web-2`.  A generated value is named for the run   *)
(* that minted it.                                                         *)
(***************************************************************************)
EXTENDS Integers, Sequences, FiniteSets

CONSTANTS Run,       \* creates with this deployment id, each with a claim token
          Manifest,  \* the manifest's services, in order
          Databases, \* those of type postgres
          MaxCopies  \* MAX_TEMPLATE_COPIES

Kind == {Manifest[i] : i \in DOMAIN Manifest}

ASSUME TplAssumption ==
  /\ MaxCopies \in Nat \ {0}
  /\ Manifest \in Seq(Kind) /\ Manifest # <<>> \* parseManifest: a non-empty map
  /\ "none" \notin Run

Webs == Kind \ Databases
Service == Kind \X (1..MaxCopies)
NoRun == "none"

VARIABLES row,        \* templateDeployments[id]: [token, status, spec]
          present,    \* services of the branch
          owned,      \* those that carry this deployment's id
          secret,     \* by service: the generated value in its user secrets
          pc, at,     \* of a run: where it is, and at which service
          spec,       \* of a run: its record.services
          gen,        \* of a run: the generated value it recovered or mints
          overlapped  \* history: a create was let in beside another

tplVars == <<row, present, owned, secret, pc, at, spec, gen, overlapped>>

Spec0 == [created |-> {}, copy |-> 1, state |-> [s \in Kind |-> "pending"]]
Finished == {"succeeded", "failed", "partial"}
SpecType == [created : SUBSET Kind, copy : 1..MaxCopies,
             state : [Kind -> {"pending", "created", "deployed", "healthy", "failed"}]]
RowType == [token : Run \cup {NoRun}, status : Finished \cup {"absent", "running"}, spec : SpecType]
Place == {"new", "asked", "minted", "create", "write", "database", "deploy", "health", "over"}

TplTypeOK ==
  /\ row \in RowType
  /\ present \subseteq Service /\ owned \subseteq present
  /\ secret \in [Service -> Run \cup {NoRun}]
  /\ pc \in [Run -> Place]
  /\ at \in [Run -> 1..Len(Manifest)]
  /\ spec \in [Run -> SpecType] /\ gen \in [Run -> Run \cup {NoRun}]
  /\ overlapped \in BOOLEAN

TplInit ==
  /\ row = [token |-> NoRun, status |-> "absent", spec |-> Spec0]
  /\ present = {} /\ owned = {}
  /\ secret = [n \in Service |-> NoRun]
  /\ pc = [r \in Run |-> "new"] /\ at = [r \in Run |-> 1]
  /\ spec = [r \in Run |-> Spec0] /\ gen = [r \in Run |-> NoRun]
  /\ overlapped = FALSE

Name(r, s) == <<s, spec[r].copy>>
Active(r) == pc[r] \notin {"new", "over"}
Go(r, l) == pc' = [pc EXCEPT ![r] = l]
Sets(r, f) == spec' = [spec EXCEPT ![r] = f]

\* the run is over: what it held in memory is no more
Forgotten(r) ==
  /\ Go(r, "over") /\ at' = [at EXCEPT ![r] = 1]
  /\ Sets(r, Spec0) /\ gen' = [gen EXCEPT ![r] = NoRun]

-----------------------------------------------------------------------------
(* Accepting a create.                                                     *)

(* The values an earlier attempt wrote, read back from the services it     *)
(* recorded as created.                                                    *)
Forgets(previous) == NoRun

RecoverStoredVariables(previous) ==
  LET held == {secret[<<s, previous.copy>>] : s \in previous.created \cap Webs} \ {NoRun}
  IN  IF held = {} THEN NoRun ELSE CHOOSE v \in held : TRUE

(* A finished or live deployment answers with its row; a failed, a partial *)
(* or one whose lease has run out is resumed.                              *)
Asks(r, leaseOver) ==
  /\ pc[r] = "new"
  /\ IF row.status = "succeeded" \/ (row.status = "running" /\ ~leaseOver)
       THEN Forgotten(r) /\ UNCHANGED overlapped
       ELSE /\ Go(r, "asked")
            /\ Sets(r, [row.spec EXCEPT !.state = [s \in Kind |-> "pending"]])
            /\ gen' = [gen EXCEPT ![r] = RecoverStoredVariables(row.spec)]
            /\ overlapped' = (overlapped \/ \E q \in Run : Active(q))
            /\ UNCHANGED at
  /\ UNCHANGED <<row, present, owned, secret>>

(* mintServiceNames: the first copy number free for the whole group, unless*)
(* an attempt already created something under recorded names.              *)
Mints(r) ==
  LET free == {n \in 1..MaxCopies : \A s \in Kind : <<s, n>> \notin present} IN
  /\ pc[r] = "asked"
  /\ \/ /\ spec[r].created # {}
        /\ Go(r, "minted") /\ UNCHANGED <<at, spec, gen>>
     \/ /\ spec[r].created = {} /\ free # {}
        /\ Go(r, "minted")
        /\ Sets(r, [spec[r] EXCEPT !.copy = CHOOSE n \in free : \A m \in free : n <= m])
        /\ UNCHANGED <<at, gen>>
     \/ /\ spec[r].created = {} /\ free = {}
        /\ Forgotten(r)
  /\ UNCHANGED <<row, present, owned, secret, overlapped>>

(* The run takes the row, whoever holds it by now, and is answered 202. *)
Claims(r) ==
  /\ pc[r] = "minted"
  /\ Go(r, "create")
  /\ row' = [token |-> r, status |-> "running", spec |-> spec[r]]
  /\ UNCHANGED <<present, owned, secret, at, spec, gen, overlapped>>

(* The branch is at its limit of services: a 400 and no row. *)
OverQuota(r) ==
  /\ pc[r] = "minted" /\ Forgotten(r)
  /\ UNCHANGED <<row, present, owned, secret, overlapped>>

-----------------------------------------------------------------------------
(* The run.  `save` and `finish` leave a row alone that another run took.  *)

SavesAnyway(r, f) == row' = [row EXCEPT !.spec = f]

Save(r, f) == row' = IF row.token = r THEN [row EXCEPT !.spec = f] ELSE row

Finish(r, f, status) ==
  row' = IF row.token = r THEN [row EXCEPT !.spec = f, !.status = status] ELSE row

Ends(r, f, status) == Forgotten(r) /\ Finish(r, f, status)

Live(f) == {s \in Kind : f.state[s] \in {"deployed", "healthy"}}
FailedOrPartial(f) == IF Live(f) = {} THEN "failed" ELSE "partial"

Fails(r, f) == Ends(r, f, FailedOrPartial(f))

Recorded(r, s) == [spec[r] EXCEPT !.created = @ \cup {s}, !.state[s] = "created"]

\* the next service of the manifest, else the next step
Advance(r, l) ==
  IF at[r] = Len(Manifest)
    THEN at' = [at EXCEPT ![r] = 1] /\ Go(r, l)
    ELSE at' = [at EXCEPT ![r] = @ + 1] /\ UNCHANGED pc

\* a service that is there is this deployment's, or the run fails
CreateService(r) ==
  LET s == Manifest[at[r]]  n == Name(r, s) IN
  /\ pc[r] = "create"
  /\ \/ /\ n \in present /\ (s \in spec[r].created \/ n \in owned)
        /\ UNCHANGED <<present, owned>>
     \/ n \notin present /\ present' = present \cup {n} /\ owned' = owned \cup {n}
  /\ Sets(r, Recorded(r, s)) /\ Save(r, Recorded(r, s))
  /\ Advance(r, "write")
  /\ UNCHANGED <<secret, gen, overlapped>>

NameTaken(r) ==
  LET s == Manifest[at[r]]  n == Name(r, s) IN
  /\ pc[r] = "create" /\ n \in present \ owned /\ s \notin spec[r].created
  /\ Fails(r, spec[r])
  /\ UNCHANGED <<present, owned, secret, overlapped>>

(* writeServiceEnv for every web service, the recovered value before a new *)
Value(r) == IF gen[r] = NoRun THEN r ELSE gen[r]

Written(r, B) == [n \in Service |-> IF n \in {Name(r, s) : s \in B} THEN Value(r) ELSE secret[n]]

WriteVariables(r) ==
  /\ pc[r] = "write"
  /\ secret' = Written(r, Webs)
  /\ Save(r, spec[r])
  /\ Go(r, "database")
  /\ UNCHANGED <<present, owned, at, spec, gen, overlapped>>

(* awaitDbReady: healthy or at rest, or the run fails at the deadline. *)
DatabasesReady(r) ==
  LET f == [spec[r] EXCEPT !.state = [s \in Kind |-> IF s \in Databases THEN "healthy" ELSE @[s]]] IN
  /\ pc[r] = "database"
  /\ Sets(r, f) /\ Save(r, f)
  /\ Go(r, "deploy")
  /\ UNCHANGED <<present, owned, secret, at, gen, overlapped>>

DatabaseNotReady(r) ==
  /\ pc[r] = "database"
  /\ \E s \in Databases : Ends(r, [spec[r] EXCEPT !.state[s] = "failed"], "failed")
  /\ UNCHANGED <<present, owned, secret, overlapped>>

\* a deploy materialises a group someone has removed
DeployService(r) ==
  LET s == Manifest[at[r]]
      f == [spec[r] EXCEPT !.state[s] = "deployed"] IN
  /\ pc[r] = "deploy"
  /\ IF s \in Databases THEN UNCHANGED <<spec, row, present>>
     ELSE Sets(r, f) /\ Save(r, f) /\ present' = present \cup {Name(r, s)}
  /\ Advance(r, "health")
  /\ UNCHANGED <<owned, secret, gen, overlapped>>

DeployFailed(r) ==
  LET s == Manifest[at[r]]
      f == [spec[r] EXCEPT !.state[s] = "failed"] IN
  /\ pc[r] = "deploy" /\ s \notin Databases
  /\ Fails(r, f)
  /\ UNCHANGED <<present, owned, secret, overlapped>>

(* awaitHealthy for each: `B` do not answer their healthcheck in time. *)
HealthCheck(r, B) ==
  LET f == [spec[r] EXCEPT !.state = [s \in Kind |-> IF s \in Databases THEN @[s]
                                       ELSE IF s \in B THEN "failed" ELSE "healthy"]]
      healthy == {s \in Kind : f.state[s] = "healthy"} IN
  /\ pc[r] = "health"
  /\ Ends(r, f, IF B = {} THEN "succeeded" ELSE IF healthy = {} THEN "failed" ELSE "partial")
  /\ UNCHANGED <<present, owned, secret, overlapped>>

(* Anything thrown on the way: a docker call, a lock, a state write. *)
Throws(r) ==
  /\ pc[r] \in {"create", "write", "database"}
  /\ Fails(r, spec[r])
  /\ UNCHANGED <<present, owned, secret, overlapped>>

-----------------------------------------------------------------------------
(* The daemon dies, and boots: no run is left, and abandonStale fails the  *)
(* row before the API listens.                                             *)
AbandonNone(f) == UNCHANGED row

AbandonStale(f) == row' = IF row.status = "running" THEN [row EXCEPT !.status = "failed"] ELSE row

Boots ==
  /\ AbandonStale(row.spec)
  /\ pc' = [r \in Run |-> IF Active(r) THEN "over" ELSE pc[r]]
  /\ at' = [r \in Run |-> 1] /\ spec' = [r \in Run |-> Spec0] /\ gen' = [r \in Run |-> NoRun]
  /\ UNCHANGED overlapped

Dies ==
  /\ \E r \in Run : Active(r)
  /\ UNCHANGED <<present, owned, secret>> /\ Boots

\* between the two writes of a service: it is there and nobody noted it
DiesCreating(r) ==
  LET n == Name(r, Manifest[at[r]]) IN
  /\ pc[r] = "create" /\ n \notin present
  /\ present' = present \cup {n} /\ owned' = owned \cup {n}
  /\ UNCHANGED secret /\ Boots

\* with the variables of some of the services written
DiesWriting(r) ==
  /\ pc[r] = "write"
  /\ \E B \in SUBSET Webs : secret' = Written(r, B)
  /\ UNCHANGED <<present, owned>> /\ Boots

(* Someone else adds a service by a name of the manifest, while it is free.*)
SomeoneAdds(s) ==
  /\ <<s, 1>> \notin present
  /\ present' = present \cup {<<s, 1>>}
  /\ UNCHANGED <<row, owned, secret, pc, at, spec, gen, overlapped>>

(* `services remove` takes the service and its bound secrets. *)
ServiceGone(n) ==
  /\ n \in owned
  /\ present' = present \ {n} /\ owned' = owned \ {n}
  /\ secret' = [secret EXCEPT ![n] = NoRun]
  /\ UNCHANGED <<row, pc, at, spec, gen, overlapped>>

TplStep(r) ==
  \/ Mints(r) \/ Claims(r) \/ OverQuota(r)
  \/ CreateService(r) \/ NameTaken(r) \/ WriteVariables(r)
  \/ DatabasesReady(r) \/ DatabaseNotReady(r)
  \/ DeployService(r) \/ DeployFailed(r)
  \/ \E B \in SUBSET Webs : HealthCheck(r, B)
  \/ Throws(r)

TplNext ==
  \/ \E r \in Run : \/ \E leaseOver \in BOOLEAN : Asks(r, leaseOver)
                    \/ TplStep(r) \/ DiesCreating(r) \/ DiesWriting(r)
  \/ Dies
  \/ \E s \in Kind : SomeoneAdds(s)
  \/ \E n \in Service : ServiceGone(n)

TplSpec == TplInit /\ [][TplNext]_tplVars

(* Docker answers or a deadline passes: every await of a run ends. *)
TplFairness == \A r \in Run : WF_tplVars(TplStep(r))

-----------------------------------------------------------------------------
(* Properties.                                                             *)

(* A row that says `succeeded` stands for services this deployment made    *)
(* and found healthy, all of them: a run that lost its claim, slow or late,*)
(* writes neither the services nor the verdict.                            *)
SucceededIsWhole ==
  row.status = "succeeded" => /\ row.spec.created = Kind
                              /\ \A s \in Kind : row.spec.state[s] = "healthy"

(* A row that says `running` has a live run behind it with its token, so a *)
(* poll is never answered `running` for ever by a run that is no more.     *)
RunningRowHasARun ==
  row.status = "running" => row.token \in Run /\ Active(row.token)

(* What a poll of the row reads, `running` or `succeeded`, is so.          *)
RowIsTrue == SucceededIsWhole /\ RunningRowHasARun

(* A resume, alone, never rotates a generated value that a service was     *)
(* given, wherever the attempts before it stopped or died.                 *)
SecretsKept ==
  [][~overlapped' => \A n \in present \cap present' :
       secret[n] # NoRun => secret'[n] = secret[n]]_tplVars

(* Every deployment that was accepted comes to a verdict. *)
DeploymentEnds == row.status = "running" ~> row.status # "running"
=============================================================================
