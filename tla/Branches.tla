------------------------------ MODULE Branches ------------------------------
(***************************************************************************)
(* The branches of one project (src/engine.ts): `branch create` with its   *)
(* lock set, its claim on the ref, its provisioning and both of its        *)
(* compensations, `branch delete`, and what takes no lock at all, a rename *)
(* and a secret; and the daemon's death at any await, with the boot that   *)
(* gives abandoned claims back (src/state.ts).                             *)
(*                                                                         *)
(* A ref is the slug of the name a branch was created under, here that     *)
(* name.  What a ref names in Docker and on disk is a network, bytes (the  *)
(* branch roots) and containers with the buckets.                          *)
(***************************************************************************)
EXTENDS Integers, FiniteSets

CONSTANTS Clone,     \* ids minted by creates
          BrName,    \* names they are created under and renamed to
          BrService, \* services of the project that the branches may carry
          Rounds,    \* CREATE_LOCK_ROUNDS
          Growing,   \* bound: the branches that services are added to
          Excluding  \* values of `excludeServices` that creates are given

ASSUME BrAssumption ==
  /\ Rounds \in Nat \ {0} /\ Excluding \subseteq BOOLEAN /\ Growing \subseteq Clone \cup {"main"}
  /\ "main" \notin BrName \cup Clone /\ "none" \notin Clone

Main == "main" \* the default branch: its id and its name
NoOne == "none"
Branch == Clone \cup {Main}
Thing == {"network", "bytes", "containers"}

VARIABLES here,    \* ids with a row
          name, ref, status, \* of a row
          carried, \* services a row carries
          stage,   \* what the holder of branchOp(id) is at,
          step,    \* and of a demolition, at which of its steps
          asked,   \* of a create: [as, from, empty, keys, round]
          claim,   \* branchReservations
          laned,   \* ids with laneReservations
          held,    \* by ref: the create or the row that what it names belongs to
          failed,  \* of a teardown: what it could not remove
          was,     \* of an unwind after secrets were cloned: the row's name then
          secrets, \* userSecrets, each with the branch it was written for
          doubled, \* history: two rows had one name
          cut      \* history: ids whose teardown has begun

brVars == <<here, name, ref, status, carried, stage, step, asked, claim, laned,
            held, failed, was, secrets, doubled, cut>>

Provisioning == {"claim", "network", "bytes", "containers"}
Completing == {"deploy", "inherit", "finish"}
Demolishing == {"unwind", "delete"}
Step == {"proves", "detaches", "erases"}
RequestType == [as : BrName \cup {Main}, from : Branch, empty : BOOLEAN,
                keys : SUBSET BrService, round : 0..Rounds]
Request0 == [as |-> Main, from |-> Main, empty |-> TRUE, keys |-> {}, round |-> 0]

Creating(b) == stage[b] \in Provisioning \cup Completing \cup {"unwind"}

BrTypeOK ==
  /\ here \subseteq Branch /\ Main \in here
  /\ name \in [Branch -> BrName \cup {Main}] /\ ref \in [Branch -> BrName \cup {Main}]
  /\ status \in [Branch -> {"ready", "cleanup-failed"}]
  /\ carried \in [Branch -> SUBSET BrService]
  /\ stage \in [Clone -> {"new", "asked", "rest"} \cup Provisioning \cup Completing \cup Demolishing]
  /\ step \in [Clone -> Step \cup {NoOne}]
  /\ asked \in [Clone -> RequestType]
  /\ name[Main] = Main
  /\ \A b \in Clone : stage[b] = "asked" \/ Creating(b) => asked[b].as \in BrName
  /\ claim \in [BrName -> Clone \cup {NoOne}] /\ laned \subseteq Clone
  /\ held \in [BrName \X Thing -> Clone \cup {NoOne}]
  /\ failed \in [Clone -> SUBSET Thing]
  /\ was \in [Clone -> BrName \cup {Main}]
  /\ secrets \subseteq [of : BrName \cup {Main}, home : Branch]
  /\ doubled \in BOOLEAN /\ cut \subseteq Clone

BrInit ==
  /\ here = {Main}
  /\ name = [b \in Branch |-> Main] /\ ref = [b \in Branch |-> Main]
  /\ status = [b \in Branch |-> "ready"]
  /\ carried = [b \in Branch |-> {}]
  /\ stage = [b \in Clone |-> "new"] /\ step = [b \in Clone |-> NoOne]
  /\ asked = [b \in Clone |-> Request0]
  /\ claim = [n \in BrName |-> NoOne] /\ laned = {}
  /\ held = [p \in BrName \X Thing |-> NoOne]
  /\ failed = [b \in Clone |-> {}]
  /\ was = [b \in Clone |-> Main]
  /\ secrets = {[of |-> Main, home |-> Main]}
  /\ doubled = FALSE /\ cut = {}

rowVars == <<here, name, ref, status>>
claimVars == <<claim, laned>>
histVars == <<doubled, cut>>

At(b, l) == stage' = [stage EXCEPT ![b] = l] /\ UNCHANGED step

\* getBranchByName: an id that answers to the name
Answers(n) == {b \in here : name[b] = n}
Taken(n) == Answers(n) # {}

Deleting(b) == stage[b] = "delete"

\* branchOp(b) is nobody's: no create of it or from it, and no delete
OpFree(b) ==
  /\ b \in Clone => ~Creating(b) /\ ~Deleting(b)
  /\ \A c \in Clone : Creating(c) => asked[c].from # b

\* what the locked body of a create may need keys for
Needed(b) == IF asked[b].empty THEN {} ELSE carried[asked[b].from]

\* the create is over: its request is no more
Leaves(b) == At(b, "rest") /\ asked' = [asked EXCEPT ![b] = Request0]

-----------------------------------------------------------------------------
(* createBranch: the key set is read before the lock.                      *)
CreateBranch(b, n, from, empty) ==
  /\ stage[b] = "new" /\ from \in here /\ ~Taken(n)
  /\ At(b, "asked")
  /\ asked' = [asked EXCEPT ![b] = [as |-> n, from |-> from, empty |-> empty, round |-> 1,
                                    keys |-> IF empty THEN {} ELSE carried[from]]]
  /\ UNCHANGED <<rowVars, carried, claimVars, held, failed, was, secrets, histVars>>

(* Granted, it reads its source again: over a row that grew it starts over *)
(* with the union, at most Rounds times.                                   *)
Settled(b) == Needed(b) \subseteq asked[b].keys

Granted(b) ==
  LET from == asked[b].from IN
  /\ stage[b] = "asked"
  /\ \A c \in Clone : ~Creating(c)
  /\ OpFree(from)
  /\ IF from \in here /\ ~Settled(b) /\ asked[b].round < Rounds
       THEN /\ asked' = [asked EXCEPT ![b].keys = @ \cup Needed(b), ![b].round = @ + 1]
            /\ UNCHANGED <<stage, step>>
       ELSE IF from \in here /\ Settled(b) /\ status[from] = "ready" /\ ~Taken(asked[b].as)
         THEN At(b, "claim") /\ UNCHANGED asked
         ELSE Leaves(b)
  /\ UNCHANGED <<rowVars, carried, claimVars, held, failed, was, secrets, histVars>>

(* reserveBranchRef: the name, the ref and the claim on the ref are free.  *)
FreeByName(b) == ~Taken(asked[b].as)

FreeRef(b) ==
  LET n == asked[b].as IN
  /\ ~Taken(n) /\ (\A r \in here : ref[r] # n) /\ claim[n] \in {b, NoOne}

ReserveBranchRef(b) ==
  /\ stage[b] = "claim"
  /\ IF FreeRef(b)
       THEN /\ claim' = [claim EXCEPT ![asked[b].as] = b]
            /\ At(b, "network") /\ UNCHANGED asked
       ELSE Leaves(b) /\ UNCHANGED claim
  /\ UNCHANGED <<rowVars, carried, laned, held, failed, was, secrets, histVars>>

ReleaseBranchRef(b) ==
  claim' = [n \in BrName |-> IF n = asked[b].as /\ claim[n] = b THEN NoOne ELSE claim[n]]

(* The network is made, or is the verified leftover of a create that is no *)
(* more, and the lanes are reserved in the same turn.                      *)
CreateNetwork(b) ==
  /\ stage[b] = "network"
  /\ held' = [held EXCEPT ![<<asked[b].as, "network">>] = b]
  /\ laned' = IF Needed(b) = {} THEN laned ELSE laned \cup {b}
  /\ At(b, "bytes")
  /\ UNCHANGED <<rowVars, carried, asked, claim, failed, was, secrets, histVars>>

(* No subnet left; or no host or lane, and then the network stays, nobody's*)
NetworkRefused(b) ==
  /\ stage[b] = "network"
  /\ ReleaseBranchRef(b) /\ Leaves(b)
  /\ UNCHANGED <<rowVars, carried, laned, held, failed, was, secrets, histVars>>

(* An orphan of the name goes before the directories are written. *)
ProvisionBytes(b) ==
  /\ stage[b] = "bytes"
  /\ held' = [held EXCEPT ![<<asked[b].as, "bytes">>] = b]
  /\ At(b, "containers")
  /\ UNCHANGED <<rowVars, carried, asked, claimVars, failed, was, secrets, histVars>>

(* rollback: every removal is tried once, and what stays is nobody's; the  *)
(* bytes and the network go only while the ref is claimed.                 *)
RollsBack(b) == IF claim[asked[b].as] = b THEN Thing ELSE {"containers"}

Rollback(b) ==
  /\ stage[b] \in {"bytes", "containers"}
  /\ held' = [p \in DOMAIN held |->
                IF p[1] = asked[b].as /\ p[2] \in RollsBack(b) THEN NoOne ELSE held[p]]
  /\ laned' = laned \ {b}
  /\ ReleaseBranchRef(b) /\ Leaves(b)
  /\ UNCHANGED <<rowVars, carried, failed, was, secrets, histVars>>

(* The last container, and in the same turn the row, and with it the end   *)
(* of the claims it supersedes.                                            *)
CommitRow(b) ==
  LET n == asked[b].as IN
  /\ stage[b] = "containers"
  /\ held' = [held EXCEPT ![<<n, "containers">>] = b]
  /\ doubled' = (doubled \/ Taken(n))
  /\ here' = here \cup {b}
  /\ name' = [name EXCEPT ![b] = n] /\ ref' = [ref EXCEPT ![b] = n]
  /\ status' = [status EXCEPT ![b] = "ready"]
  /\ carried' = [carried EXCEPT ![b] = Needed(b)]
  /\ laned' = laned \ {b} /\ ReleaseBranchRef(b)
  /\ At(b, "deploy")
  /\ UNCHANGED <<asked, failed, was, secrets, cut>>

-----------------------------------------------------------------------------
(* Completing the branch its row already shows.                            *)

\* the branches that the clone's redeploy may reach: it looks one up by name
Reached(b) == Answers(asked[b].as)

(* Volumes and buckets are copied, and the source's compute is redeployed, *)
(* by the name the create was given, under the lock of the branch that     *)
(* answers to it now.                                                      *)
Redeploy(b) ==
  /\ stage[b] = "deploy"
  /\ \/ UNCHANGED held \* nothing to deploy
     \/ ~asked[b].empty /\ \E t \in Reached(b) :
          /\ t = b \/ OpFree(t)
          /\ status[t] = "ready"
          /\ held' = [held EXCEPT ![<<ref[t], "containers">>] = t]
  /\ At(b, "inherit")
  /\ UNCHANGED <<rowVars, carried, asked, claimVars, failed, was, secrets, histVars>>

(* The source's secrets are copied, both branches by their names of now. *)
InheritsAsAsked(b) == [of |-> asked[b].as, home |-> b]

InheritsAs(b) == [of |-> name[b], home |-> b]

InheritSecrets(b) ==
  /\ stage[b] = "inherit"
  /\ secrets' = IF ~asked[b].empty /\ \E s \in secrets : s.of = name[asked[b].from]
               THEN secrets \cup {InheritsAs(b)} ELSE secrets
  /\ At(b, "finish")
  /\ UNCHANGED <<rowVars, carried, asked, claimVars, held, failed, was, histVars>>

FinishCreate(b) ==
  /\ stage[b] = "finish"
  /\ Leaves(b)
  /\ UNCHANGED <<rowVars, carried, claimVars, held, failed, was, secrets, histVars>>

-----------------------------------------------------------------------------
(* The demolition, of a create that failed and of a delete.                *)

Demolishes(b, op) ==
  /\ stage' = [stage EXCEPT ![b] = op] /\ step' = [step EXCEPT ![b] = "proves"]
  /\ failed' = [failed EXCEPT ![b] = {}]
  /\ was' = [was EXCEPT ![b] = IF stage[b] = "finish" THEN name[b] ELSE Main]
  /\ cut' = cut \cup {b}
  /\ UNCHANGED <<rowVars, carried, asked, claimVars, held, secrets, doubled>>

(* Anything thrown after the row; copied secrets are known to the unwind.  *)
CreateFails(b) == stage[b] \in Completing /\ Demolishes(b, "unwind")

DeleteBranch(b) == b \in here /\ stage[b] = "rest" /\ OpFree(b) /\ Demolishes(b, "delete")

\* what is named so is gone, proved, or is counted as failed
Proved(b, k) ==
  \/ held' = [held EXCEPT ![<<ref[b], k>>] = NoOne] /\ UNCHANGED failed
  \/ failed' = [failed EXCEPT ![b] = @ \cup {k}] /\ UNCHANGED held

Steps(b, from, to) == step[b] = from /\ step' = [step EXCEPT ![b] = to]

RemoveContainers(b) ==
  /\ Steps(b, "proves", "detaches")
  /\ Proved(b, "containers")
  /\ UNCHANGED <<rowVars, carried, stage, asked, claimVars, was, secrets, histVars>>

RemoveNetwork(b) ==
  /\ Steps(b, "detaches", "erases")
  /\ Proved(b, "network")
  /\ UNCHANGED <<rowVars, carried, stage, asked, claimVars, was, secrets, histVars>>

\* the bytes only go from under containers proved gone
NoSurvivors(b) == FALSE

Survivors(b) == "containers" \in failed[b]

\* the names whose secrets go: the branch's own, never another's
Swept(b, complete) ==
  (IF complete THEN {name[b]} ELSE {})
  \cup (IF was[b] # Main /\ ~asked[b].empty
          THEN {asked[b].as, was[b], name[b]} \ {name[o] : o \in here \ {b}}
          ELSE {})

Erases(b, gone, complete) ==
  /\ Steps(b, "erases", NoOne)
  /\ gone => ~Survivors(b)
  /\ held' = IF gone THEN [held EXCEPT ![<<ref[b], "bytes">>] = NoOne] ELSE held
  /\ secrets' = {s \in secrets : s.of \notin Swept(b, complete)}
  /\ IF complete
       THEN /\ here' = here \ {b} /\ carried' = [carried EXCEPT ![b] = {}]
            /\ name' = [name EXCEPT ![b] = Main] /\ ref' = [ref EXCEPT ![b] = Main]
            /\ status' = [status EXCEPT ![b] = "ready"]
            /\ cut' = cut \ {b}
       ELSE /\ status' = [status EXCEPT ![b] = "cleanup-failed"]
            /\ UNCHANGED <<here, name, ref, carried, cut>>
  /\ ReleaseBranchRef(b) /\ laned' = laned \ {b}
  /\ stage' = [stage EXCEPT ![b] = "rest"] /\ asked' = [asked EXCEPT ![b] = Request0]
  /\ failed' = [failed EXCEPT ![b] = {}] /\ was' = [was EXCEPT ![b] = Main]
  /\ UNCHANGED doubled

\* the row goes last, or stays and says what happened
RemoveBytes(b) == \E gone \in BOOLEAN : Erases(b, gone, gone /\ failed[b] = {})

-----------------------------------------------------------------------------
(* Other operations on a branch.                                           *)

(* `deploy`, under branchOp; refused on a half-demolished branch. *)
DeployApp(b) ==
  /\ b \in here \ {Main} /\ OpFree(b) /\ status[b] = "ready"
  /\ held' = [held EXCEPT ![<<ref[b], "containers">>] = b]
  /\ UNCHANGED <<rowVars, carried, stage, step, asked, claimVars, failed, was, secrets, histVars>>

(* `services add`, under branchOp too. *)
AddUnlocked(b, s) ==
  /\ b \in here /\ status[b] = "ready"
  /\ carried' = [carried EXCEPT ![b] = @ \cup {s}]
  /\ UNCHANGED <<rowVars, stage, step, asked, claimVars, held, failed, was, secrets, histVars>>

AddService(b, s) ==
  /\ b \in here /\ OpFree(b) /\ status[b] = "ready"
  /\ carried' = [carried EXCEPT ![b] = @ \cup {s}]
  /\ UNCHANGED <<rowVars, stage, step, asked, claimVars, held, failed, was, secrets, histVars>>

(* renameBranch: no lock, no container; the secrets follow the name. *)
RenameBranch(b, n) ==
  /\ b \in here \ {Main} /\ ~Taken(n)
  /\ name' = [name EXCEPT ![b] = n]
  /\ secrets' = {IF s.of = name[b] THEN [s EXCEPT !.of = n] ELSE s : s \in secrets}
  /\ UNCHANGED <<here, ref, status, carried, stage, step, asked, claimVars, held, failed, was, histVars>>

SetUserSecret(b) ==
  /\ b \in here
  /\ secrets' = secrets \cup {[of |-> name[b], home |-> b]}
  /\ UNCHANGED <<rowVars, carried, stage, step, asked, claimVars, held, failed, was, histVars>>

(* The daemon dies; the next boot drops the claims no row supersedes. *)
ReclaimNone == UNCHANGED claimVars

ReclaimAbandonedReservations ==
  /\ claim' = [n \in BrName |-> IF claim[n] \in here THEN claim[n] ELSE NoOne]
  /\ laned' = laned \cap here

BrDies ==
  /\ \E b \in Clone : stage[b] \notin {"new", "rest"}
  /\ ReclaimAbandonedReservations
  /\ stage' = [b \in Clone |-> IF stage[b] = "new" THEN "new" ELSE "rest"]
  /\ step' = [b \in Clone |-> NoOne]
  /\ asked' = [b \in Clone |-> Request0]
  /\ failed' = [b \in Clone |-> {}] /\ was' = [b \in Clone |-> Main]
  /\ held' = [p \in DOMAIN held |-> IF held[p] \in Clone \ here THEN NoOne ELSE held[p]]
  /\ UNCHANGED <<rowVars, carried, secrets, histVars>>

BrCreateStep(b) ==
  \/ Granted(b) \/ ReserveBranchRef(b) \/ CreateNetwork(b) \/ NetworkRefused(b)
  \/ ProvisionBytes(b) \/ Rollback(b) \/ CommitRow(b)
  \/ Redeploy(b) \/ InheritSecrets(b) \/ FinishCreate(b) \/ CreateFails(b)

BrTeardownStep(b) ==
  RemoveContainers(b) \/ RemoveNetwork(b) \/ RemoveBytes(b)

BrNext ==
  \/ \E b \in Clone :
       \/ \E n \in BrName, from \in Branch, empty \in Excluding : CreateBranch(b, n, from, empty)
       \/ BrCreateStep(b) \/ DeleteBranch(b) \/ BrTeardownStep(b)
  \/ \E b \in Branch : DeployApp(b) \/ SetUserSecret(b)
  \/ \E b \in Growing, s \in BrService : AddService(b, s)
  \/ \E b \in Branch, n \in BrName : RenameBranch(b, n)
  \/ BrDies

BrSpec == BrInit /\ [][BrNext]_brVars

-----------------------------------------------------------------------------
(* Properties.                                                             *)

(* What a row names goes in order: its bytes not from under containers     *)
(* that are still there, and the row only when nothing of its ref is left. *)
RowGoesLast ==
  [][\A b \in here \cap Clone :
       LET has(k) == held[<<ref[b], k>>] = b
           keeps(k) == held'[<<ref[b], k>>] = b IN
       /\ has("bytes") /\ ~keeps("bytes") => ~keeps("containers")
       /\ b \notin here' => \A k \in Thing : ~keeps(k)]_brVars

(* A ready branch keeps its network, its bytes and its containers until a  *)
(* demolition of its own: no other create, compensation, delete or crash   *)
(* takes or overwrites them, whatever the branches are renamed to.         *)
ReadyHasItsOwn ==
  \A b \in here \cap Clone : b \notin cut => \A k \in Thing : held[<<ref[b], k>>] = b

(* A branch's secrets stay its own: none is left for the next branch of a  *)
(* freed name, and none strays by a rename in the middle of a create, an   *)
(* unwind or a delete, as long as no two rows had one name.                *)
SecretsStayHome ==
  ~doubled => \A s \in secrets : s.home \in here /\ name[s.home] = s.of

(* A ref and a lane are claimed only by a create that is under way, so no  *)
(* retry of a name is refused for a create that failed or died.            *)
NoLeakedClaim ==
  /\ \A n \in BrName : claim[n] # NoOne => stage[claim[n]] \in Provisioning /\ asked[claim[n]].as = n
  /\ \A b \in laned : stage[b] \in Provisioning

(* A create forks every service its source carries under that service's    *)
(* key: none was added since the set was settled.                          *)
ForksUnderItsKeys ==
  \A b \in Clone : Creating(b) /\ ~asked[b].empty => carried[asked[b].from] \subseteq asked[b].keys
=============================================================================
