--------------------------- MODULE BranchesProofs ---------------------------
(***************************************************************************)
(* Proofs about Branches, for every set of ids, names and services.  The   *)
(* types first; then what a create, a compensation and a demolition own,   *)
(* as one inductive invariant of named parts, from which the properties of *)
(* Branches follow.                                                        *)
(***************************************************************************)
EXTENDS Branches, TLAPS

LEMMA Apart == /\ \A b \in Clone : b # Main /\ b # NoOne
               /\ \A n \in BrName : n # Main
BY BrAssumption DEF Main, NoOne

-----------------------------------------------------------------------------
(* Types.                                                                  *)

LEMMA NothingAsked == Request0 \in RequestType
BY BrAssumption DEF Request0, RequestType, Branch

LEMMA TypeInit == BrInit => BrTypeOK
<1> SUFFICES ASSUME BrInit PROVE BrTypeOK
  OBVIOUS
<1>1. [of |-> Main, home |-> Main] \in [of : BrName \cup {Main}, home : Branch]
  BY DEF Branch
<1> QED
  BY <1>1, NothingAsked DEF BrInit, BrTypeOK, Creating, Provisioning, Completing, Branch

LEMMA TypeCreate ==
  ASSUME BrTypeOK, NEW b \in Clone, BrCreateStep(b)
  PROVE  BrTypeOK'
<1> USE DEF At, Leaves, rowVars, claimVars, histVars, Branch, Provisioning, Completing,
            Demolishing, Step, Thing, Creating, Needed, ReleaseBranchRef
<1>1. CASE Granted(b)
  <2> DEFINE q == [asked[b] EXCEPT !.keys = @ \cup Needed(b), !.round = @ + 1]
  <2>1. CASE asked' = [asked EXCEPT ![b] = q] /\ asked[b].round < Rounds /\ UNCHANGED <<stage, step>>
    <3>1. asked[b] \in RequestType /\ Needed(b) \subseteq BrService
      BY DEF BrTypeOK, RequestType
    <3>2. asked[b].round + 1 \in 0..Rounds
      BY <2>1, <3>1, BrAssumption DEF RequestType
    <3>3. q \in RequestType /\ q.as = asked[b].as
      BY <3>1, <3>2 DEF RequestType
    <3> QED
      BY <1>1, <2>1, <3>3 DEF Granted, BrTypeOK
  <2>2. CASE At(b, "claim") /\ UNCHANGED asked
    BY <1>1, <2>2 DEF Granted, BrTypeOK
  <2>3. CASE Leaves(b)
    BY <1>1, <2>3, NothingAsked DEF Granted, BrTypeOK
  <2> QED
    BY <1>1, <2>1, <2>2, <2>3 DEF Granted
<1>2. CASE ReserveBranchRef(b)
  BY <1>2, NothingAsked DEF ReserveBranchRef, FreeRef, BrTypeOK
<1>3. CASE CreateNetwork(b)
  BY <1>3 DEF CreateNetwork, BrTypeOK
<1>4. CASE NetworkRefused(b)
  BY <1>4, NothingAsked DEF NetworkRefused, BrTypeOK
<1>5. CASE ProvisionBytes(b)
  BY <1>5 DEF ProvisionBytes, BrTypeOK
<1>6. CASE Rollback(b)
  <2>1. held' \in [BrName \X Thing -> Clone \cup {NoOne}]
    BY <1>6 DEF Rollback, RollsBack, BrTypeOK
  <2> QED
    BY <1>6, <2>1, NothingAsked DEF Rollback, BrTypeOK
<1>7. CASE CommitRow(b)
  <2> DEFINE n == asked[b].as
  <2>1. n \in BrName /\ Needed(b) \subseteq BrService
    BY <1>7 DEF CommitRow, BrTypeOK, RequestType
  <2>2. /\ held' \in [BrName \X Thing -> Clone \cup {NoOne}]
        /\ claim' \in [BrName -> Clone \cup {NoOne}]
    BY <1>7 DEF CommitRow, BrTypeOK
  <2>3. name'[Main] = Main /\ doubled' \in BOOLEAN
    BY <1>7, Apart DEF CommitRow, BrTypeOK, Taken
  <2> QED
    BY <1>7, <2>1, <2>2, <2>3 DEF CommitRow, BrTypeOK
<1>8. CASE Redeploy(b)
  <2>1. \A t \in Reached(b) : t \in Clone
    BY <1>8, Apart DEF Redeploy, Reached, Answers, BrTypeOK
  <2>2. held' \in [BrName \X Thing -> Clone \cup {NoOne}]
    BY <1>8, <2>1 DEF Redeploy, BrTypeOK
  <2> QED
    BY <1>8, <2>2 DEF Redeploy, BrTypeOK
<1>9. CASE InheritSecrets(b)
  <2>1. secrets' \subseteq [of : BrName \cup {Main}, home : Branch]
    BY <1>9 DEF InheritSecrets, InheritsAs, BrTypeOK
  <2> QED
    BY <1>9, <2>1 DEF InheritSecrets, BrTypeOK
<1>10. CASE FinishCreate(b)
  BY <1>10, NothingAsked DEF FinishCreate, BrTypeOK
<1>11. CASE CreateFails(b)
  BY <1>11 DEF CreateFails, Demolishes, BrTypeOK
<1> QED
  BY <1>1, <1>2, <1>3, <1>4, <1>5, <1>6, <1>7, <1>8, <1>9, <1>10, <1>11 DEF BrCreateStep

LEMMA TypeTeardown ==
  ASSUME BrTypeOK, NEW b \in Clone, BrTeardownStep(b)
  PROVE  BrTypeOK'
<1> USE DEF rowVars, claimVars, histVars, Branch, Demolishing, Step, Thing, Creating, Provisioning, Completing,
            ReleaseBranchRef, Steps, Proved
<1>1. CASE RemoveContainers(b)
  BY <1>1 DEF RemoveContainers, BrTypeOK
<1>2. CASE RemoveNetwork(b)
  BY <1>2 DEF RemoveNetwork, BrTypeOK
<1>3. CASE RemoveBytes(b)
  <2>1. PICK gone \in BOOLEAN : Erases(b, gone, gone /\ failed[b] = {})
    BY <1>3 DEF RemoveBytes
  <2> DEFINE complete == gone /\ failed[b] = {}
  <2>2. held' \in [BrName \X Thing -> Clone \cup {NoOne}]
    BY <2>1 DEF Erases, BrTypeOK
  <2>3. claim' \in [BrName -> Clone \cup {NoOne}]
    BY <2>1 DEF Erases, BrTypeOK
  <2>4. secrets' \subseteq secrets
    BY <2>1 DEF Erases
  <2>5. CASE complete
    <3>1. name' \in [Branch -> BrName \cup {Main}] /\ name'[Main] = Main
      BY <2>1, <2>5, Apart DEF Erases, BrTypeOK
    <3> QED
      BY SMTT(30), <2>1, <2>2, <2>3, <2>4, <2>5, <3>1, NothingAsked, Apart DEF Erases, BrTypeOK
  <2>6. CASE ~complete
    BY <2>1, <2>2, <2>3, <2>4, <2>6, NothingAsked DEF Erases, BrTypeOK
  <2> QED
    BY <2>5, <2>6
<1> QED
  BY <1>1, <1>2, <1>3 DEF BrTeardownStep

LEMMA TypeStep == BrTypeOK /\ [BrNext]_brVars => BrTypeOK'
<1> SUFFICES ASSUME BrTypeOK, [BrNext]_brVars
             PROVE  BrTypeOK'
  OBVIOUS
<1> USE DEF At, rowVars, claimVars, histVars, Branch, Provisioning, Completing, Demolishing,
            Step, Thing, Creating
<1>1. ASSUME NEW b \in Clone, NEW n \in BrName, NEW from \in Branch, NEW empty \in Excluding,
             CreateBranch(b, n, from, empty)
      PROVE  BrTypeOK'
  <2>1. empty \in BOOLEAN /\ 1 \in 0..Rounds
    BY BrAssumption
  <2> QED
    BY <1>1, <2>1 DEF CreateBranch, BrTypeOK, RequestType
<1>2. ASSUME NEW b \in Clone, DeleteBranch(b)
      PROVE  BrTypeOK'
  BY <1>2 DEF DeleteBranch, Demolishes, BrTypeOK
<1>3. ASSUME NEW b \in Branch, DeployApp(b)
      PROVE  BrTypeOK'
  <2>1. held' \in [BrName \X Thing -> Clone \cup {NoOne}]
    BY <1>3 DEF DeployApp, BrTypeOK
  <2> QED
    BY <1>3, <2>1 DEF DeployApp, BrTypeOK
<1>4. ASSUME NEW b \in Branch, SetUserSecret(b)
      PROVE  BrTypeOK'
  BY <1>4 DEF SetUserSecret, BrTypeOK
<1>5. ASSUME NEW b \in Growing, NEW s \in BrService, AddService(b, s)
      PROVE  BrTypeOK'
  BY <1>5, BrAssumption DEF AddService, BrTypeOK, Main
<1>6. ASSUME NEW b \in Branch, NEW n \in BrName, RenameBranch(b, n)
      PROVE  BrTypeOK'
  <2>1. secrets' \subseteq [of : BrName \cup {Main}, home : Branch]
    BY <1>6 DEF RenameBranch, BrTypeOK
  <2> QED
    BY <1>6, <2>1 DEF RenameBranch, BrTypeOK
<1>7. CASE BrDies
  <2>1. claim' \in [BrName -> Clone \cup {NoOne}] /\ laned' \subseteq Clone
    BY <1>7 DEF BrDies, ReclaimAbandonedReservations, BrTypeOK
  <2>2. held' \in [BrName \X Thing -> Clone \cup {NoOne}]
    BY <1>7 DEF BrDies, BrTypeOK
  <2> QED
    BY <1>7, <2>1, <2>2, NothingAsked DEF BrDies, BrTypeOK
<1>8. CASE UNCHANGED brVars
  BY <1>8 DEF brVars, BrTypeOK
<1> QED
  BY <1>1, <1>2, <1>3, <1>4, <1>5, <1>6, <1>7, <1>8, TypeCreate, TypeTeardown DEF BrNext

(* Every variable of the branches has its type, in every reachable state.  *)
THEOREM BrTypesHold == BrSpec => []BrTypeOK
BY TypeInit, TypeStep, PTL DEF BrSpec

-----------------------------------------------------------------------------
(* What a create, a row and a demolition own.                              *)

Making == {"network", "bytes", "containers"}

\* a row is there from the commit on, and a demolition is of a row
StagesFit ==
  \A b \in Clone :
    /\ step[b] # NoOne <=> stage[b] \in Demolishing
    /\ stage[b] \in {"new", "asked"} \cup Provisioning => b \notin here
    /\ stage[b] \in Completing \cup Demolishing => b \in here
    /\ stage[b] \in Demolishing => b \in cut

\* projectOp: the creates of a project come one after another
OneCreate ==
  /\ \A b, c \in Clone : Creating(b) /\ Creating(c) => b = c
  /\ \A b \in Clone : stage[b] = "asked" \/ Creating(b) => asked[b].from # b

ClaimsFit ==
  /\ \A n \in BrName : claim[n] # NoOne => stage[claim[n]] \in Making /\ asked[claim[n]].as = n
  /\ \A b \in laned : stage[b] \in {"bytes", "containers"}

\* no two rows name the same things, nor does a create on its way
RefsApart ==
  /\ \A b \in here \cap Clone : ref[b] \in BrName
  /\ \A b, c \in here \cap Clone : ref[b] = ref[c] => b = c
  /\ \A b \in Clone : stage[b] \in Making => \A r \in here : ref[r] # asked[b].as

MakesItsOwn ==
  \A b \in Clone :
    /\ stage[b] \in {"bytes", "containers"} => held[<<asked[b].as, "network">>] = b
    /\ stage[b] = "containers" => held[<<asked[b].as, "bytes">>] = b

\* what a demolition proved gone stays gone
StaysGone ==
  \A b \in Clone :
    /\ step[b] \in {"detaches", "erases"} /\ "containers" \notin failed[b]
         => held[<<ref[b], "containers">>] # b
    /\ step[b] = "erases" /\ "network" \notin failed[b] => held[<<ref[b], "network">>] # b

NamesApart == ~doubled => \A b, c \in here : name[b] = name[c] => b = c

BrIInv ==
  /\ BrTypeOK /\ StagesFit /\ OneCreate /\ ClaimsFit /\ RefsApart /\ MakesItsOwn
  /\ ReadyHasItsOwn /\ StaysGone /\ NamesApart /\ SecretsStayHome /\ ForksUnderItsKeys

LEMMA RowNames ==
  ASSUME BrTypeOK, RefsApart
  PROVE  \A r \in here \cap Clone, k \in Thing :
           <<ref[r], k>> \in BrName \X Thing /\ held[<<ref[r], k>>] \in Clone \cup {NoOne}
BY DEF BrTypeOK, RefsApart

-----------------------------------------------------------------------------
(* The steps of a create.                                                  *)

LEMMA CreateBranchKeeps ==
  ASSUME BrIInv, NEW b \in Clone, NEW n \in BrName, NEW from \in Branch, NEW empty \in
         Excluding, CreateBranch(b, n, from, empty)
  PROVE  BrIInv'
<1> USE DEF BrIInv, BrTypeOK, Creating, Provisioning, Completing, Demolishing, Making, Thing, Step, Branch,
            rowVars, claimVars, histVars
<1>1. BrTypeOK'
  BY TypeStep DEF BrNext
<1>2. StagesFit'
  BY DEF CreateBranch, At, StagesFit, NoOne
<1>3. OneCreate'
  BY DEF CreateBranch, At, OneCreate, StagesFit
<1>4. ClaimsFit'
  BY DEF CreateBranch, At, ClaimsFit, StagesFit, OneCreate
<1>5. RefsApart'
  BY DEF CreateBranch, At, RefsApart, StagesFit, OneCreate
<1>6. MakesItsOwn'
  BY DEF CreateBranch, At, MakesItsOwn, StagesFit, OneCreate, RefsApart
<1>7. ForksUnderItsKeys'
  BY DEF CreateBranch, At, ForksUnderItsKeys, StagesFit, OneCreate
<1>8. ReadyHasItsOwn'
  BY DEF CreateBranch, At, ReadyHasItsOwn
<1>9. StaysGone'
  BY DEF CreateBranch, At, StaysGone
<1>10. NamesApart'
  BY DEF CreateBranch, At, NamesApart
<1>11. SecretsStayHome'
  BY DEF CreateBranch, At, SecretsStayHome
<1> QED
  BY <1>1, <1>2, <1>3, <1>4, <1>5, <1>6, <1>7, <1>8, <1>9, <1>10, <1>11

LEMMA GrantedKeeps ==
  ASSUME BrIInv, NEW b \in Clone, Granted(b)
  PROVE  BrIInv'
<1> USE DEF BrIInv, BrTypeOK, Creating, Provisioning, Completing, Demolishing, Making, Thing, Step, Branch,
            rowVars, claimVars, histVars
<1>1. BrTypeOK'
  BY TypeStep, TypeCreate DEF BrCreateStep
<1>2. StagesFit'
  BY DEF Granted, At, Leaves, OpFree, Settled, Needed, StagesFit, NoOne
<1>3. OneCreate'
  <2>1. \A c \in Clone : asked'[c].from = asked[c].from \/ (c = b /\ stage'[b] = "rest")
    <3>1. CASE asked' = [asked EXCEPT ![b].keys = @ \cup Needed(b), ![b].round = @ + 1]
      BY <3>1 DEF RequestType
    <3>2. CASE UNCHANGED asked
      BY <3>2
    <3>3. CASE Leaves(b)
      BY <3>3 DEF Leaves, At
    <3> QED
      BY <3>1, <3>2, <3>3 DEF Granted
  <2>2. \A c \in Clone : stage'[c] = stage[c] \/ (c = b /\ stage'[b] \in {"claim", "rest"})
    BY DEF Granted, At, Leaves
  <2> QED
    BY <2>1, <2>2 DEF Granted, OneCreate
<1>4. ClaimsFit'
  BY DEF Granted, At, Leaves, OpFree, Settled, Needed, ClaimsFit, StagesFit, OneCreate
<1>5. RefsApart'
  BY DEF Granted, At, Leaves, OpFree, Settled, Needed, RefsApart, StagesFit, OneCreate
<1>6. MakesItsOwn'
  BY DEF Granted, At, Leaves, OpFree, Settled, Needed, MakesItsOwn, StagesFit, OneCreate, RefsApart
<1>7. ForksUnderItsKeys'
  BY DEF Granted, At, Leaves, OpFree, Settled, Needed, ForksUnderItsKeys, StagesFit, OneCreate
<1>8. ReadyHasItsOwn'
  BY DEF Granted, ReadyHasItsOwn
<1>9. StaysGone'
  BY DEF Granted, At, Leaves, OpFree, Settled, Needed, StaysGone
<1>10. NamesApart'
  BY DEF Granted, At, Leaves, OpFree, Settled, Needed, NamesApart
<1>11. SecretsStayHome'
  BY DEF Granted, At, Leaves, OpFree, Settled, Needed, SecretsStayHome
<1> QED
  BY <1>1, <1>2, <1>3, <1>4, <1>5, <1>6, <1>7, <1>8, <1>9, <1>10, <1>11

LEMMA ReserveBranchRefKeeps ==
  ASSUME BrIInv, NEW b \in Clone, ReserveBranchRef(b)
  PROVE  BrIInv'
<1> USE DEF BrIInv, BrTypeOK, Creating, Provisioning, Completing, Demolishing, Making, Thing, Step, Branch,
            rowVars, claimVars, histVars
<1>1. BrTypeOK'
  BY TypeStep, TypeCreate DEF BrCreateStep
<1>2. StagesFit'
  BY DEF ReserveBranchRef, At, Leaves, FreeRef, StagesFit, NoOne
<1>3. OneCreate'
  BY DEF ReserveBranchRef, At, Leaves, FreeRef, OneCreate, StagesFit
<1>4. ClaimsFit'
  BY DEF ReserveBranchRef, At, Leaves, FreeRef, ClaimsFit, StagesFit, OneCreate
<1>5. RefsApart'
  BY DEF ReserveBranchRef, At, Leaves, FreeRef, RefsApart, StagesFit, OneCreate
<1>6. MakesItsOwn'
  BY DEF ReserveBranchRef, At, Leaves, FreeRef, MakesItsOwn, StagesFit, OneCreate, RefsApart
<1>7. ForksUnderItsKeys'
  BY DEF ReserveBranchRef, At, Leaves, FreeRef, ForksUnderItsKeys, StagesFit, OneCreate
<1>8. ReadyHasItsOwn'
  BY DEF ReserveBranchRef, At, Leaves, FreeRef, ReadyHasItsOwn
<1>9. StaysGone'
  BY DEF ReserveBranchRef, At, Leaves, FreeRef, StaysGone
<1>10. NamesApart'
  BY DEF ReserveBranchRef, At, Leaves, FreeRef, NamesApart
<1>11. SecretsStayHome'
  BY DEF ReserveBranchRef, At, Leaves, FreeRef, SecretsStayHome
<1> QED
  BY <1>1, <1>2, <1>3, <1>4, <1>5, <1>6, <1>7, <1>8, <1>9, <1>10, <1>11

LEMMA CreateNetworkKeeps ==
  ASSUME BrIInv, NEW b \in Clone, CreateNetwork(b)
  PROVE  BrIInv'
<1> USE DEF BrIInv, BrTypeOK, Creating, Provisioning, Completing, Demolishing, Making, Thing, Step, Branch,
            rowVars, claimVars, histVars
<1>1. BrTypeOK'
  BY TypeStep, TypeCreate DEF BrCreateStep
<1>2. \A r \in here \cap Clone, k \in Thing : held'[<<ref[r], k>>] = held[<<ref[r], k>>]
  BY RowNames DEF CreateNetwork, RefsApart, StagesFit
<1>3. StagesFit'
  BY DEF CreateNetwork, At, StagesFit, NoOne
<1>4. OneCreate'
  BY DEF CreateNetwork, At, OneCreate, StagesFit
<1>5. ClaimsFit'
  BY DEF CreateNetwork, At, ClaimsFit, StagesFit, OneCreate
<1>6. RefsApart'
  BY DEF CreateNetwork, At, RefsApart, StagesFit, OneCreate
<1>7. MakesItsOwn'
  BY <1>2, RowNames DEF CreateNetwork, At, MakesItsOwn, StagesFit, OneCreate, RefsApart
<1>8. ReadyHasItsOwn'
  <2> SUFFICES ASSUME NEW r \in here' \cap Clone, r \notin cut', NEW k \in Thing
               PROVE  held'[<<ref'[r], k>>] = r
    BY DEF ReadyHasItsOwn
  <2>1. r \in here /\ r \notin cut => held[<<ref[r], k>>] = r
    BY DEF ReadyHasItsOwn
  <2> QED
    BY <2>1, <1>2 DEF CreateNetwork, At, StagesFit, RefsApart, MakesItsOwn, NoOne
<1>9. StaysGone'
  BY <1>2 DEF CreateNetwork, At, StagesFit, RefsApart, NoOne, StaysGone
<1>10. ForksUnderItsKeys'
  BY DEF CreateNetwork, At, ForksUnderItsKeys, StagesFit, OneCreate
<1>11. NamesApart'
  BY DEF CreateNetwork, At, NamesApart
<1>12. SecretsStayHome'
  BY DEF CreateNetwork, At, SecretsStayHome
<1> QED
  BY <1>1, <1>3, <1>4, <1>5, <1>6, <1>7, <1>8, <1>9, <1>10, <1>11, <1>12

LEMMA NetworkRefusedKeeps ==
  ASSUME BrIInv, NEW b \in Clone, NetworkRefused(b)
  PROVE  BrIInv'
<1> USE DEF BrIInv, BrTypeOK, Creating, Provisioning, Completing, Demolishing, Making, Thing, Step, Branch,
            rowVars, claimVars, histVars
<1>1. BrTypeOK'
  BY TypeStep, TypeCreate DEF BrCreateStep
<1>2. StagesFit'
  BY DEF NetworkRefused, ReleaseBranchRef, At, Leaves, StagesFit, NoOne
<1>3. OneCreate'
  BY DEF NetworkRefused, ReleaseBranchRef, At, Leaves, OneCreate, StagesFit
<1>4. ClaimsFit'
  BY DEF NetworkRefused, ReleaseBranchRef, At, Leaves, ClaimsFit, StagesFit, OneCreate
<1>5. RefsApart'
  BY DEF NetworkRefused, ReleaseBranchRef, At, Leaves, RefsApart, StagesFit, OneCreate
<1>6. MakesItsOwn'
  BY DEF NetworkRefused, ReleaseBranchRef, At, Leaves, MakesItsOwn, StagesFit, OneCreate, RefsApart
<1>7. ForksUnderItsKeys'
  BY DEF NetworkRefused, ReleaseBranchRef, At, Leaves, ForksUnderItsKeys, StagesFit, OneCreate
<1>8. ReadyHasItsOwn'
  BY DEF NetworkRefused, ReleaseBranchRef, At, Leaves, ReadyHasItsOwn
<1>9. StaysGone'
  BY DEF NetworkRefused, ReleaseBranchRef, At, Leaves, StaysGone
<1>10. NamesApart'
  BY DEF NetworkRefused, ReleaseBranchRef, At, Leaves, NamesApart
<1>11. SecretsStayHome'
  BY DEF NetworkRefused, ReleaseBranchRef, At, Leaves, SecretsStayHome
<1> QED
  BY <1>1, <1>2, <1>3, <1>4, <1>5, <1>6, <1>7, <1>8, <1>9, <1>10, <1>11

LEMMA ProvisionBytesKeeps ==
  ASSUME BrIInv, NEW b \in Clone, ProvisionBytes(b)
  PROVE  BrIInv'
<1> USE DEF BrIInv, BrTypeOK, Creating, Provisioning, Completing, Demolishing, Making, Thing, Step, Branch,
            rowVars, claimVars, histVars
<1>1. BrTypeOK'
  BY TypeStep, TypeCreate DEF BrCreateStep
<1>2. \A r \in here \cap Clone, k \in Thing : held'[<<ref[r], k>>] = held[<<ref[r], k>>]
  BY RowNames DEF ProvisionBytes, RefsApart, StagesFit
<1>3. StagesFit'
  BY DEF ProvisionBytes, At, StagesFit, NoOne
<1>4. OneCreate'
  BY DEF ProvisionBytes, At, OneCreate, StagesFit
<1>5. ClaimsFit'
  BY DEF ProvisionBytes, At, ClaimsFit, StagesFit, OneCreate
<1>6. RefsApart'
  BY DEF ProvisionBytes, At, RefsApart, StagesFit, OneCreate
<1>7. MakesItsOwn'
  BY <1>2, RowNames DEF ProvisionBytes, At, MakesItsOwn, StagesFit, OneCreate, RefsApart
<1>8. ReadyHasItsOwn'
  <2> SUFFICES ASSUME NEW r \in here' \cap Clone, r \notin cut', NEW k \in Thing
               PROVE  held'[<<ref'[r], k>>] = r
    BY DEF ReadyHasItsOwn
  <2>1. r \in here /\ r \notin cut => held[<<ref[r], k>>] = r
    BY DEF ReadyHasItsOwn
  <2> QED
    BY <2>1, <1>2 DEF ProvisionBytes, At, StagesFit, RefsApart, MakesItsOwn, NoOne
<1>9. StaysGone'
  BY <1>2 DEF ProvisionBytes, At, StagesFit, RefsApart, NoOne, StaysGone
<1>10. ForksUnderItsKeys'
  BY DEF ProvisionBytes, At, ForksUnderItsKeys, StagesFit, OneCreate
<1>11. NamesApart'
  BY DEF ProvisionBytes, At, NamesApart
<1>12. SecretsStayHome'
  BY DEF ProvisionBytes, At, SecretsStayHome
<1> QED
  BY <1>1, <1>3, <1>4, <1>5, <1>6, <1>7, <1>8, <1>9, <1>10, <1>11, <1>12

LEMMA RollbackKeeps ==
  ASSUME BrIInv, NEW b \in Clone, Rollback(b)
  PROVE  BrIInv'
<1> USE DEF BrIInv, BrTypeOK, Creating, Provisioning, Completing, Demolishing, Making, Thing, Step, Branch,
            rowVars, claimVars, histVars
<1>1. BrTypeOK'
  BY TypeStep, TypeCreate DEF BrCreateStep
<1>2. \A r \in here \cap Clone, k \in Thing : held'[<<ref[r], k>>] = held[<<ref[r], k>>]
  BY RowNames DEF Rollback, RollsBack, RefsApart, StagesFit
<1>3. StagesFit'
  BY DEF Rollback, RollsBack, ReleaseBranchRef, At, Leaves, StagesFit, NoOne
<1>4. OneCreate'
  BY DEF Rollback, RollsBack, ReleaseBranchRef, At, Leaves, OneCreate, StagesFit
<1>5. ClaimsFit'
  BY DEF Rollback, RollsBack, ReleaseBranchRef, At, Leaves, ClaimsFit, StagesFit, OneCreate
<1>6. RefsApart'
  BY DEF Rollback, RollsBack, ReleaseBranchRef, At, Leaves, RefsApart, StagesFit, OneCreate
<1>7. MakesItsOwn'
  BY <1>2, RowNames DEF Rollback, RollsBack, ReleaseBranchRef, At, Leaves, MakesItsOwn,
     StagesFit, OneCreate, RefsApart
<1>8. ReadyHasItsOwn'
  <2> SUFFICES ASSUME NEW r \in here' \cap Clone, r \notin cut', NEW k \in Thing
               PROVE  held'[<<ref'[r], k>>] = r
    BY DEF ReadyHasItsOwn
  <2>1. r \in here /\ r \notin cut => held[<<ref[r], k>>] = r
    BY DEF ReadyHasItsOwn
  <2> QED
    BY <2>1, <1>2 DEF Rollback, RollsBack, ReleaseBranchRef, At, Leaves, StagesFit, RefsApart,
       MakesItsOwn, NoOne
<1>9. StaysGone'
  BY <1>2 DEF Rollback, RollsBack, ReleaseBranchRef, At, Leaves, StagesFit, RefsApart, NoOne,
     StaysGone
<1>10. ForksUnderItsKeys'
  BY DEF Rollback, RollsBack, ReleaseBranchRef, At, Leaves, ForksUnderItsKeys, StagesFit, OneCreate
<1>11. NamesApart'
  BY DEF Rollback, RollsBack, ReleaseBranchRef, At, Leaves, NamesApart
<1>12. SecretsStayHome'
  BY DEF Rollback, RollsBack, ReleaseBranchRef, At, Leaves, SecretsStayHome
<1> QED
  BY <1>1, <1>3, <1>4, <1>5, <1>6, <1>7, <1>8, <1>9, <1>10, <1>11, <1>12

LEMMA CommitRowKeeps ==
  ASSUME BrIInv, NEW b \in Clone, CommitRow(b)
  PROVE  BrIInv'
<1> USE DEF BrIInv, BrTypeOK, Creating, Provisioning, Completing, Demolishing, Making, Thing, Step, Branch,
            rowVars, claimVars, histVars
<1>1. BrTypeOK'
  BY TypeStep, TypeCreate DEF BrCreateStep
<1>2. /\ \A r \in here \cap Clone, k \in Thing : held'[<<ref[r], k>>] = held[<<ref[r], k>>]
      /\ \A k \in Thing : held'[<<asked[b].as, k>>] = b
  BY RowNames DEF CommitRow, RefsApart, MakesItsOwn
<1>3. StagesFit'
  BY DEF CommitRow, ReleaseBranchRef, At, Taken, Answers, StagesFit, NoOne
<1>4. OneCreate'
  BY DEF CommitRow, ReleaseBranchRef, At, Taken, Answers, OneCreate, StagesFit
<1>5. ClaimsFit'
  BY DEF CommitRow, ReleaseBranchRef, At, Taken, Answers, ClaimsFit, StagesFit, OneCreate
<1>6. RefsApart'
  BY DEF CommitRow, ReleaseBranchRef, At, Taken, Answers, RefsApart, StagesFit, OneCreate
<1>7. MakesItsOwn'
  BY <1>2, RowNames DEF CommitRow, ReleaseBranchRef, At, Taken, Answers, MakesItsOwn, StagesFit,
     OneCreate, RefsApart
<1>8. ReadyHasItsOwn'
  <2> SUFFICES ASSUME NEW r \in here' \cap Clone, r \notin cut', NEW k \in Thing
               PROVE  held'[<<ref'[r], k>>] = r
    BY DEF ReadyHasItsOwn
  <2>1. r \in here /\ r \notin cut => held[<<ref[r], k>>] = r
    BY DEF ReadyHasItsOwn
  <2>2. CASE r = b
    BY <2>2, <1>2 DEF CommitRow, StagesFit
  <2>3. CASE r # b
    BY <2>1, <2>3, <1>2 DEF CommitRow
  <2> QED
    BY <2>2, <2>3
<1>9. StaysGone'
  BY <1>2 DEF CommitRow, ReleaseBranchRef, At, Taken, Answers, StagesFit, RefsApart, NoOne,
     StaysGone
<1>10. NamesApart'
  BY DEF CommitRow, ReleaseBranchRef, At, Taken, Answers, NamesApart, StagesFit
<1>11. SecretsStayHome'
  BY DEF CommitRow, ReleaseBranchRef, At, Taken, Answers, SecretsStayHome, StagesFit, NamesApart
<1>12. ForksUnderItsKeys'
  BY DEF CommitRow, ReleaseBranchRef, At, Taken, Answers, ForksUnderItsKeys, StagesFit, OneCreate
<1> QED
  BY <1>1, <1>3, <1>4, <1>5, <1>6, <1>7, <1>8, <1>9, <1>10, <1>11, <1>12

LEMMA RedeployKeeps ==
  ASSUME BrIInv, NEW b \in Clone, Redeploy(b)
  PROVE  BrIInv'
<1> USE DEF BrIInv, BrTypeOK, Creating, Provisioning, Completing, Demolishing, Making, Thing, Step, Branch,
            rowVars, claimVars, histVars
<1>1. BrTypeOK'
  BY TypeStep, TypeCreate DEF BrCreateStep
<1>2. \/ UNCHANGED held
     \/ \E t \in here \cap Clone :
          /\ t = b \/ OpFree(t)
          /\ \A r \in here \cap Clone, k \in Thing :
               held'[<<ref[r], k>>] = IF r = t /\ k = "containers" THEN t ELSE held[<<ref[r], k>>]
  <2>1. \A t \in Reached(b) : t \in here \cap Clone
    BY Apart DEF Redeploy, Reached, Answers
  <2>2. ASSUME NEW t \in here \cap Clone, held' = [held EXCEPT ![<<ref[t], "containers">>] = t]
        PROVE  \A r \in here \cap Clone, k \in Thing :
                 held'[<<ref[r], k>>] = IF r = t /\ k = "containers" THEN t ELSE held[<<ref[r], k>>]
    BY <2>2, RowNames DEF RefsApart
  <2> QED
    BY <2>1, <2>2 DEF Redeploy
<1>3. StagesFit'
  BY DEF Redeploy, At, Reached, Answers, OpFree, Deleting, StagesFit, NoOne
<1>4. OneCreate'
  BY DEF Redeploy, At, Reached, Answers, OpFree, Deleting, OneCreate, StagesFit
<1>5. ClaimsFit'
  BY DEF Redeploy, At, Reached, Answers, OpFree, Deleting, ClaimsFit, StagesFit, OneCreate
<1>6. RefsApart'
  BY DEF Redeploy, At, Reached, Answers, OpFree, Deleting, RefsApart, StagesFit, OneCreate
<1>7. MakesItsOwn'
  BY <1>2, RowNames DEF Redeploy, At, Reached, Answers, OpFree, Deleting, MakesItsOwn,
     StagesFit, OneCreate, RefsApart
<1>8. ReadyHasItsOwn'
  <2> SUFFICES ASSUME NEW r \in here' \cap Clone, r \notin cut', NEW k \in Thing
               PROVE  held'[<<ref'[r], k>>] = r
    BY DEF ReadyHasItsOwn
  <2>1. r \in here /\ r \notin cut => held[<<ref[r], k>>] = r
    BY DEF ReadyHasItsOwn
  <2>2. here' = here /\ cut' = cut /\ ref' = ref
    BY DEF Redeploy
  <2> QED
    BY <2>1, <2>2, <1>2
<1>9. StaysGone'
  <2>1. step' = step /\ failed' = failed /\ ref' = ref
    BY DEF Redeploy, At
  <2>2. CASE UNCHANGED held
    BY <2>1, <2>2 DEF StaysGone
  <2>3. ASSUME NEW t \in here \cap Clone, t = b \/ OpFree(t),
               \A r \in here \cap Clone, k \in Thing :
                 held'[<<ref[r], k>>] = IF r = t /\ k = "containers" THEN t ELSE held[<<ref[r], k>>]
        PROVE  StaysGone'
    <3>1. step[t] = NoOne
      BY <2>3 DEF Redeploy, OpFree, Deleting, StagesFit
    <3>2. \A c \in Clone : step[c] # NoOne => c \in here
      BY DEF StagesFit
    <3> QED
      BY <2>1, <2>3, <3>1, <3>2 DEF StaysGone, NoOne
  <2> QED
    BY <1>2, <2>2, <2>3
<1>10. ForksUnderItsKeys'
  BY DEF Redeploy, At, Reached, Answers, OpFree, Deleting, ForksUnderItsKeys, StagesFit, OneCreate
<1>11. NamesApart'
  BY DEF Redeploy, At, Reached, Answers, OpFree, Deleting, NamesApart
<1>12. SecretsStayHome'
  BY DEF Redeploy, At, Reached, Answers, OpFree, Deleting, SecretsStayHome
<1> QED
  BY <1>1, <1>3, <1>4, <1>5, <1>6, <1>7, <1>8, <1>9, <1>10, <1>11, <1>12

LEMMA InheritSecretsKeeps ==
  ASSUME BrIInv, NEW b \in Clone, InheritSecrets(b)
  PROVE  BrIInv'
<1> USE DEF BrIInv, BrTypeOK, Creating, Provisioning, Completing, Demolishing, Making, Thing, Step, Branch,
            rowVars, claimVars, histVars
<1>1. BrTypeOK'
  BY TypeStep, TypeCreate DEF BrCreateStep
<1>2. StagesFit'
  BY DEF InheritSecrets, InheritsAs, At, StagesFit, NoOne
<1>3. OneCreate'
  BY DEF InheritSecrets, InheritsAs, At, OneCreate, StagesFit
<1>4. ClaimsFit'
  BY DEF InheritSecrets, InheritsAs, At, ClaimsFit, StagesFit, OneCreate
<1>5. RefsApart'
  BY DEF InheritSecrets, InheritsAs, At, RefsApart, StagesFit, OneCreate
<1>6. MakesItsOwn'
  BY DEF InheritSecrets, InheritsAs, At, MakesItsOwn, StagesFit, OneCreate, RefsApart
<1>7. SecretsStayHome'
  BY DEF InheritSecrets, InheritsAs, At, SecretsStayHome, StagesFit, NamesApart
<1>8. ForksUnderItsKeys'
  BY DEF InheritSecrets, InheritsAs, At, ForksUnderItsKeys, StagesFit, OneCreate
<1>9. ReadyHasItsOwn'
  BY DEF InheritSecrets, InheritsAs, At, ReadyHasItsOwn
<1>10. StaysGone'
  BY DEF InheritSecrets, InheritsAs, At, StaysGone
<1>11. NamesApart'
  BY DEF InheritSecrets, InheritsAs, At, NamesApart
<1> QED
  BY <1>1, <1>2, <1>3, <1>4, <1>5, <1>6, <1>7, <1>8, <1>9, <1>10, <1>11

LEMMA FinishCreateKeeps ==
  ASSUME BrIInv, NEW b \in Clone, FinishCreate(b)
  PROVE  BrIInv'
<1> USE DEF BrIInv, BrTypeOK, Creating, Provisioning, Completing, Demolishing, Making, Thing, Step, Branch,
            rowVars, claimVars, histVars
<1>1. BrTypeOK'
  BY TypeStep, TypeCreate DEF BrCreateStep
<1>2. StagesFit'
  BY DEF FinishCreate, At, Leaves, StagesFit, NoOne
<1>3. OneCreate'
  BY DEF FinishCreate, At, Leaves, OneCreate, StagesFit
<1>4. ClaimsFit'
  BY DEF FinishCreate, At, Leaves, ClaimsFit, StagesFit, OneCreate
<1>5. RefsApart'
  BY DEF FinishCreate, At, Leaves, RefsApart, StagesFit, OneCreate
<1>6. MakesItsOwn'
  BY DEF FinishCreate, At, Leaves, MakesItsOwn, StagesFit, OneCreate, RefsApart
<1>7. ForksUnderItsKeys'
  BY DEF FinishCreate, At, Leaves, ForksUnderItsKeys, StagesFit, OneCreate
<1>8. ReadyHasItsOwn'
  BY DEF FinishCreate, At, Leaves, ReadyHasItsOwn
<1>9. StaysGone'
  BY DEF FinishCreate, At, Leaves, StaysGone
<1>10. NamesApart'
  BY DEF FinishCreate, At, Leaves, NamesApart
<1>11. SecretsStayHome'
  BY DEF FinishCreate, At, Leaves, SecretsStayHome
<1> QED
  BY <1>1, <1>2, <1>3, <1>4, <1>5, <1>6, <1>7, <1>8, <1>9, <1>10, <1>11

LEMMA CreateFailsKeeps ==
  ASSUME BrIInv, NEW b \in Clone, CreateFails(b)
  PROVE  BrIInv'
<1> USE DEF BrIInv, BrTypeOK, Creating, Provisioning, Completing, Demolishing, Making, Thing, Step, Branch,
            rowVars, claimVars, histVars
<1>1. BrTypeOK'
  BY TypeStep, TypeCreate DEF BrCreateStep
<1>2. StagesFit'
  BY DEF CreateFails, Demolishes, StagesFit, NoOne
<1>3. OneCreate'
  BY DEF CreateFails, Demolishes, OneCreate, StagesFit
<1>4. ClaimsFit'
  BY DEF CreateFails, Demolishes, ClaimsFit, StagesFit, OneCreate
<1>5. RefsApart'
  BY DEF CreateFails, Demolishes, RefsApart, StagesFit, OneCreate
<1>6. MakesItsOwn'
  BY DEF CreateFails, Demolishes, MakesItsOwn, StagesFit, OneCreate, RefsApart
<1>7. ReadyHasItsOwn'
  <2> SUFFICES ASSUME NEW r \in here' \cap Clone, r \notin cut', NEW k \in Thing
               PROVE  held'[<<ref'[r], k>>] = r
    BY DEF ReadyHasItsOwn
  <2>1. r \in here /\ r \notin cut => held[<<ref[r], k>>] = r
    BY DEF ReadyHasItsOwn
  <2> QED
    BY <2>1 DEF CreateFails, Demolishes, StagesFit, RefsApart, MakesItsOwn, NoOne
<1>8. StaysGone'
  BY DEF CreateFails, Demolishes, StagesFit, RefsApart, NoOne, StaysGone
<1>9. ForksUnderItsKeys'
  BY DEF CreateFails, Demolishes, ForksUnderItsKeys, StagesFit, OneCreate
<1>10. NamesApart'
  BY DEF CreateFails, Demolishes, NamesApart
<1>11. SecretsStayHome'
  BY DEF CreateFails, Demolishes, SecretsStayHome
<1> QED
  BY <1>1, <1>2, <1>3, <1>4, <1>5, <1>6, <1>7, <1>8, <1>9, <1>10, <1>11

LEMMA DeleteBranchKeeps ==
  ASSUME BrIInv, NEW b \in Clone, DeleteBranch(b)
  PROVE  BrIInv'
<1> USE DEF BrIInv, BrTypeOK, Creating, Provisioning, Completing, Demolishing, Making, Thing, Step, Branch,
            rowVars, claimVars, histVars
<1>1. BrTypeOK'
  BY TypeStep DEF BrNext
<1>2. StagesFit'
  BY DEF DeleteBranch, Demolishes, OpFree, Deleting, StagesFit, NoOne
<1>3. OneCreate'
  BY DEF DeleteBranch, Demolishes, OpFree, Deleting, OneCreate, StagesFit
<1>4. ClaimsFit'
  BY DEF DeleteBranch, Demolishes, OpFree, Deleting, ClaimsFit, StagesFit, OneCreate
<1>5. RefsApart'
  BY DEF DeleteBranch, Demolishes, OpFree, Deleting, RefsApart, StagesFit, OneCreate
<1>6. MakesItsOwn'
  BY DEF DeleteBranch, Demolishes, OpFree, Deleting, MakesItsOwn, StagesFit, OneCreate, RefsApart
<1>7. ReadyHasItsOwn'
  <2> SUFFICES ASSUME NEW r \in here' \cap Clone, r \notin cut', NEW k \in Thing
               PROVE  held'[<<ref'[r], k>>] = r
    BY DEF ReadyHasItsOwn
  <2>1. r \in here /\ r \notin cut => held[<<ref[r], k>>] = r
    BY DEF ReadyHasItsOwn
  <2> QED
    BY <2>1 DEF DeleteBranch, Demolishes, OpFree, Deleting, StagesFit, RefsApart, MakesItsOwn, NoOne
<1>8. StaysGone'
  BY DEF DeleteBranch, Demolishes, OpFree, Deleting, StagesFit, RefsApart, NoOne, StaysGone
<1>9. ForksUnderItsKeys'
  BY DEF DeleteBranch, Demolishes, OpFree, Deleting, ForksUnderItsKeys, StagesFit, OneCreate
<1>10. NamesApart'
  BY DEF DeleteBranch, Demolishes, OpFree, Deleting, NamesApart
<1>11. SecretsStayHome'
  BY DEF DeleteBranch, Demolishes, OpFree, Deleting, SecretsStayHome
<1> QED
  BY <1>1, <1>2, <1>3, <1>4, <1>5, <1>6, <1>7, <1>8, <1>9, <1>10, <1>11

LEMMA RemoveContainersKeeps ==
  ASSUME BrIInv, NEW b \in Clone, RemoveContainers(b)
  PROVE  BrIInv'
<1> USE DEF BrIInv, BrTypeOK, Creating, Provisioning, Completing, Demolishing, Making, Thing, Step, Branch,
            rowVars, claimVars, histVars
<1>1. BrTypeOK'
  BY TypeStep, TypeTeardown DEF BrTeardownStep
<1>2. /\ b \in here
      /\ \A r \in here \cap Clone, k \in Thing : r # b \/ k # "containers" => held'[<<ref[r], k>>] = held[<<ref[r], k>>]
      /\ \A c \in Clone, k \in Thing :
          stage[c] \in Making => held'[<<asked[c].as, k>>] = held[<<asked[c].as, k>>]
  BY RowNames, Apart DEF RemoveContainers, Steps, Proved, StagesFit, RefsApart, NoOne
<1>3. StagesFit'
  BY DEF RemoveContainers, Steps, Proved, StagesFit, NoOne
<1>4. MakesItsOwn'
  BY SMTT(30), <1>2, RowNames DEF RemoveContainers, Steps, Proved, MakesItsOwn, StagesFit, OneCreate,
     RefsApart
<1>5. ReadyHasItsOwn'
  <2> SUFFICES ASSUME NEW r \in here' \cap Clone, r \notin cut', NEW k \in Thing
               PROVE  held'[<<ref'[r], k>>] = r
    BY DEF ReadyHasItsOwn
  <2>1. r \in here /\ r \notin cut => held[<<ref[r], k>>] = r
    BY DEF ReadyHasItsOwn
  <2> QED
    BY <2>1, <1>2 DEF RemoveContainers, Steps, Proved, StagesFit, RefsApart, MakesItsOwn, NoOne
<1>6. StaysGone'
  <2>1. step[b] = "proves" /\ step' = [step EXCEPT ![b] = "detaches"] /\ ref' = ref
    BY DEF RemoveContainers, Steps
  <2>2. \A c \in Clone : c # b => failed'[c] = failed[c]
    BY DEF RemoveContainers, Proved
  <2>3. \A j \in Thing : j \in failed[b] => j \in failed'[b]
    BY DEF RemoveContainers, Proved
  <2>4. held'[<<ref[b], "containers">>] = NoOne \/ "containers" \in failed'[b]
    <3>1. <<ref[b], "containers">> \in BrName \X Thing
      BY <1>2, RowNames
    <3> QED
      BY <3>1 DEF RemoveContainers, Proved
  <2>5. \A c \in Clone : step[c] # NoOne => c \in here
    BY DEF StagesFit
  <2> SUFFICES ASSUME NEW c \in Clone PROVE StaysGone!(c)'
    BY DEF StaysGone
  <2>6. CASE c = b
    <3>1. step'[c] = "detaches"
      BY <2>1, <2>6
    <3> QED
      BY <1>2, <2>1, <2>3, <2>4, <2>6, <3>1, Apart DEF StaysGone, NoOne
  <2>7. CASE c # b
    <3>1. step'[c] = step[c] /\ failed'[c] = failed[c] /\ ref'[c] = ref[c]
      BY <2>1, <2>2, <2>7
    <3>2. step[c] # NoOne => \A j \in Thing : held'[<<ref[c], j>>] = held[<<ref[c], j>>]
      BY <1>2, <2>5, <2>7
    <3> QED
      BY <3>1, <3>2 DEF StaysGone, NoOne
  <2> QED
    BY <2>6, <2>7
<1>7. NamesApart'
  BY DEF RemoveContainers, Steps, Proved, NamesApart
<1>8. SecretsStayHome'
  BY DEF RemoveContainers, Steps, Proved, SecretsStayHome
<1>9. OneCreate' /\ ClaimsFit' /\ RefsApart' /\ ForksUnderItsKeys'
  BY DEF RemoveContainers, Steps, Proved, OneCreate, ClaimsFit, RefsApart, ForksUnderItsKeys
<1> QED
  BY <1>1, <1>3, <1>4, <1>5, <1>6, <1>7, <1>8, <1>9

LEMMA RemoveNetworkKeeps ==
  ASSUME BrIInv, NEW b \in Clone, RemoveNetwork(b)
  PROVE  BrIInv'
<1> USE DEF BrIInv, BrTypeOK, Creating, Provisioning, Completing, Demolishing, Making, Thing, Step, Branch,
            rowVars, claimVars, histVars
<1>1. BrTypeOK'
  BY TypeStep, TypeTeardown DEF BrTeardownStep
<1>2. /\ b \in here
      /\ \A r \in here \cap Clone, k \in Thing : r # b \/ k # "network" => held'[<<ref[r], k>>] = held[<<ref[r], k>>]
      /\ \A c \in Clone, k \in Thing :
          stage[c] \in Making => held'[<<asked[c].as, k>>] = held[<<asked[c].as, k>>]
  BY RowNames, Apart DEF RemoveNetwork, Steps, Proved, StagesFit, RefsApart, NoOne
<1>3. StagesFit'
  BY DEF RemoveNetwork, Steps, Proved, StagesFit, NoOne
<1>4. MakesItsOwn'
  BY SMTT(30), <1>2, RowNames DEF RemoveNetwork, Steps, Proved, MakesItsOwn, StagesFit, OneCreate, RefsApart
<1>5. ReadyHasItsOwn'
  <2> SUFFICES ASSUME NEW r \in here' \cap Clone, r \notin cut', NEW k \in Thing
               PROVE  held'[<<ref'[r], k>>] = r
    BY DEF ReadyHasItsOwn
  <2>1. r \in here /\ r \notin cut => held[<<ref[r], k>>] = r
    BY DEF ReadyHasItsOwn
  <2> QED
    BY <2>1, <1>2 DEF RemoveNetwork, Steps, Proved, StagesFit, RefsApart, MakesItsOwn, NoOne
<1>6. StaysGone'
  <2>1. step[b] = "detaches" /\ step' = [step EXCEPT ![b] = "erases"] /\ ref' = ref
    BY DEF RemoveNetwork, Steps
  <2>2. \A c \in Clone : c # b => failed'[c] = failed[c]
    BY DEF RemoveNetwork, Proved
  <2>3. \A j \in Thing : j \in failed[b] => j \in failed'[b]
    BY DEF RemoveNetwork, Proved
  <2>4. held'[<<ref[b], "network">>] = NoOne \/ "network" \in failed'[b]
    <3>1. <<ref[b], "network">> \in BrName \X Thing
      BY <1>2, RowNames
    <3> QED
      BY <3>1 DEF RemoveNetwork, Proved
  <2>5. \A c \in Clone : step[c] # NoOne => c \in here
    BY DEF StagesFit
  <2> SUFFICES ASSUME NEW c \in Clone PROVE StaysGone!(c)'
    BY DEF StaysGone
  <2>6. CASE c = b
    <3>1. step'[c] = "erases"
      BY <2>1, <2>6
    <3>2. "containers" \notin failed[b] => held[<<ref[b], "containers">>] # b
      BY <2>1 DEF StaysGone
    <3>3. held'[<<ref[b], "containers">>] = held[<<ref[b], "containers">>]
      BY <1>2
    <3> QED
      BY <2>1, <2>3, <2>4, <2>6, <3>1, <3>2, <3>3, Apart DEF NoOne
  <2>7. CASE c # b
    <3>1. step'[c] = step[c] /\ failed'[c] = failed[c] /\ ref'[c] = ref[c]
      BY <2>1, <2>2, <2>7
    <3>2. step[c] # NoOne => \A j \in Thing : held'[<<ref[c], j>>] = held[<<ref[c], j>>]
      BY <1>2, <2>5, <2>7
    <3> QED
      BY <3>1, <3>2 DEF StaysGone, NoOne
  <2> QED
    BY <2>6, <2>7
<1>7. NamesApart'
  BY DEF RemoveNetwork, Steps, Proved, NamesApart
<1>8. SecretsStayHome'
  BY DEF RemoveNetwork, Steps, Proved, SecretsStayHome
<1>9. OneCreate' /\ ClaimsFit' /\ RefsApart' /\ ForksUnderItsKeys'
  BY DEF RemoveNetwork, Steps, Proved, OneCreate, ClaimsFit, RefsApart, ForksUnderItsKeys
<1> QED
  BY <1>1, <1>3, <1>4, <1>5, <1>6, <1>7, <1>8, <1>9

LEMMA ErasesKeeps ==
  ASSUME BrIInv, NEW b \in Clone, NEW gone \in BOOLEAN, NEW complete \in BOOLEAN, complete =
         (gone /\ failed[b] = {}), Erases(b, gone, complete)
  PROVE  BrIInv'
<1> USE DEF BrIInv, BrTypeOK, Creating, Provisioning, Completing, Demolishing, Making, Thing, Step, Branch,
            rowVars, claimVars, histVars
<1>1. BrTypeOK'
  BY TypeTeardown DEF BrTeardownStep, RemoveBytes
<1>2. /\ b \in here
      /\ \A r \in here \cap Clone, k \in Thing : r # b \/ k # "bytes" => held'[<<ref[r], k>>] = held[<<ref[r], k>>]
      /\ \A c \in Clone, k \in Thing :
          stage[c] \in Making => held'[<<asked[c].as, k>>] = held[<<asked[c].as, k>>]
  BY RowNames, Apart DEF Erases, Steps, Proved, StagesFit, RefsApart, NoOne
<1>3. StagesFit'
  BY DEF Erases, Steps, Survivors, Swept, ReleaseBranchRef, StagesFit, NoOne
<1>4. OneCreate'
  BY DEF Erases, Steps, Survivors, Swept, ReleaseBranchRef, OneCreate, StagesFit
<1>5. ClaimsFit'
  BY DEF Erases, Steps, Survivors, Swept, ReleaseBranchRef, ClaimsFit, StagesFit, OneCreate
<1>6. RefsApart'
  BY DEF Erases, Steps, Survivors, Swept, ReleaseBranchRef, RefsApart, StagesFit, OneCreate
<1>7. MakesItsOwn'
  BY <1>2, RowNames DEF Erases, Steps, Survivors, Swept, ReleaseBranchRef, MakesItsOwn,
     StagesFit, OneCreate, RefsApart
<1>8. ReadyHasItsOwn'
  <2> SUFFICES ASSUME NEW r \in here' \cap Clone, r \notin cut', NEW k \in Thing
               PROVE  held'[<<ref'[r], k>>] = r
    BY DEF ReadyHasItsOwn
  <2>1. r \in here /\ r \notin cut => held[<<ref[r], k>>] = r
    BY DEF ReadyHasItsOwn
  <2>2. r # b
    BY DEF Erases, Steps, StagesFit, NoOne
  <2>3. r \in here /\ r \notin cut /\ ref'[r] = ref[r]
    BY <2>2 DEF Erases
  <2> QED
    BY <2>1, <2>2, <2>3, <1>2
<1>9. StaysGone'
  BY <1>2 DEF Erases, Steps, Survivors, Swept, ReleaseBranchRef, StagesFit, RefsApart, NoOne,
     StaysGone
<1>10. NamesApart'
  BY DEF Erases, Steps, Survivors, Swept, ReleaseBranchRef, NamesApart, StagesFit
<1>11. SecretsStayHome'
  BY DEF Erases, Steps, Survivors, Swept, ReleaseBranchRef, SecretsStayHome, StagesFit, NamesApart
<1>12. ForksUnderItsKeys'
  <2>1. \A c \in Clone : Creating(c)' => c # b /\ Creating(c) /\ asked'[c] = asked[c]
    BY DEF Erases
  <2>2. \A c \in Branch : carried'[c] \subseteq carried[c]
    BY DEF Erases
  <2>3. \A c \in Clone : asked[c].from \in Branch
    BY DEF RequestType
  <2> QED
    BY <2>1, <2>2, <2>3 DEF ForksUnderItsKeys
<1> QED
  BY <1>1, <1>3, <1>4, <1>5, <1>6, <1>7, <1>8, <1>9, <1>10, <1>11, <1>12

LEMMA DeployAppKeeps ==
  ASSUME BrIInv, NEW b \in Branch, DeployApp(b)
  PROVE  BrIInv'
<1> USE DEF BrIInv, BrTypeOK, Creating, Provisioning, Completing, Demolishing, Making, Thing, Step, Branch,
            rowVars, claimVars, histVars
<1>1. BrTypeOK'
  BY TypeStep DEF BrNext
<1>2. b \in Clone /\ \A r \in here \cap Clone, k \in Thing :
       held'[<<ref[r], k>>] = IF r = b /\ k = "containers" THEN b ELSE held[<<ref[r], k>>]
  BY RowNames DEF DeployApp, RefsApart
<1>3. MakesItsOwn'
  BY <1>2, RowNames DEF DeployApp, OpFree, Deleting, MakesItsOwn, StagesFit, OneCreate, RefsApart
<1>4. ReadyHasItsOwn'
  <2> SUFFICES ASSUME NEW r \in here' \cap Clone, r \notin cut', NEW k \in Thing
               PROVE  held'[<<ref'[r], k>>] = r
    BY DEF ReadyHasItsOwn
  <2>1. r \in here /\ r \notin cut => held[<<ref[r], k>>] = r
    BY DEF ReadyHasItsOwn
  <2> QED
    BY <2>1, <1>2 DEF DeployApp, OpFree, Deleting, StagesFit, RefsApart, MakesItsOwn, NoOne
<1>5. StaysGone'
  BY <1>2 DEF DeployApp, OpFree, Deleting, StagesFit, RefsApart, NoOne, StaysGone
<1>6. NamesApart'
  BY DEF DeployApp, OpFree, Deleting, NamesApart
<1>7. SecretsStayHome'
  BY DEF DeployApp, OpFree, Deleting, SecretsStayHome
<1>8. StagesFit' /\ OneCreate' /\ ClaimsFit' /\ RefsApart' /\ ForksUnderItsKeys'
  BY DEF DeployApp, OpFree, Deleting, StagesFit, OneCreate, ClaimsFit, RefsApart, ForksUnderItsKeys
<1> QED
  BY <1>1, <1>3, <1>4, <1>5, <1>6, <1>7, <1>8

LEMMA SetUserSecretKeeps ==
  ASSUME BrIInv, NEW b \in Branch, SetUserSecret(b)
  PROVE  BrIInv'
<1> USE DEF BrIInv, BrTypeOK, Creating, Provisioning, Completing, Demolishing, Making, Thing, Step, Branch,
            rowVars, claimVars, histVars
<1>1. BrTypeOK'
  BY TypeStep DEF BrNext
<1>2. SecretsStayHome'
  BY DEF SetUserSecret, SecretsStayHome, StagesFit, NamesApart
<1>3. ReadyHasItsOwn'
  BY DEF SetUserSecret, ReadyHasItsOwn
<1>4. StaysGone'
  BY DEF SetUserSecret, StaysGone
<1>5. NamesApart'
  BY DEF SetUserSecret, NamesApart
<1>6. StagesFit' /\ OneCreate' /\ ClaimsFit' /\ RefsApart' /\ MakesItsOwn' /\ ForksUnderItsKeys'
  BY DEF SetUserSecret, StagesFit, OneCreate, ClaimsFit, RefsApart, MakesItsOwn, ForksUnderItsKeys
<1> QED
  BY <1>1, <1>2, <1>3, <1>4, <1>5, <1>6

LEMMA AddServiceKeeps ==
  ASSUME BrIInv, NEW b \in Growing, NEW s \in BrService, AddService(b, s)
  PROVE  BrIInv'
<1> USE DEF BrIInv, BrTypeOK, Creating, Provisioning, Completing, Demolishing, Making, Thing, Step, Branch,
            rowVars, claimVars, histVars
<1>1. BrTypeOK'
  BY TypeStep DEF BrNext
<1>2. ForksUnderItsKeys'
  BY DEF AddService, OpFree, ForksUnderItsKeys, StagesFit, OneCreate
<1>3. ReadyHasItsOwn'
  BY DEF AddService, OpFree, ReadyHasItsOwn
<1>4. StaysGone'
  BY DEF AddService, OpFree, StaysGone
<1>5. NamesApart'
  BY DEF AddService, OpFree, NamesApart
<1>6. SecretsStayHome'
  BY DEF AddService, OpFree, SecretsStayHome
<1>7. StagesFit' /\ OneCreate' /\ ClaimsFit' /\ RefsApart' /\ MakesItsOwn'
  BY DEF AddService, OpFree, StagesFit, OneCreate, ClaimsFit, RefsApart, MakesItsOwn
<1> QED
  BY <1>1, <1>2, <1>3, <1>4, <1>5, <1>6, <1>7

LEMMA RenameBranchKeeps ==
  ASSUME BrIInv, NEW b \in Branch, NEW n \in BrName, RenameBranch(b, n)
  PROVE  BrIInv'
<1> USE DEF BrIInv, BrTypeOK, Creating, Provisioning, Completing, Demolishing, Making, Thing, Step, Branch,
            rowVars, claimVars, histVars
<1>1. BrTypeOK'
  BY TypeStep DEF BrNext
<1>2. NamesApart'
  BY DEF RenameBranch, Taken, Answers, NamesApart, StagesFit
<1>3. SecretsStayHome'
  BY DEF RenameBranch, Taken, Answers, SecretsStayHome, StagesFit, NamesApart
<1>4. ReadyHasItsOwn'
  BY DEF RenameBranch, Taken, Answers, ReadyHasItsOwn
<1>5. StaysGone'
  BY DEF RenameBranch, Taken, Answers, StaysGone
<1>6. StagesFit' /\ OneCreate' /\ ClaimsFit' /\ RefsApart' /\ MakesItsOwn' /\ ForksUnderItsKeys'
  BY DEF RenameBranch, Taken, Answers, StagesFit, OneCreate, ClaimsFit, RefsApart, MakesItsOwn,
     ForksUnderItsKeys
<1> QED
  BY <1>1, <1>2, <1>3, <1>4, <1>5, <1>6

LEMMA BrDiesKeeps ==
  ASSUME BrIInv, BrDies
  PROVE  BrIInv'
<1> USE DEF BrIInv, BrTypeOK, Creating, Provisioning, Completing, Demolishing, Making, Thing, Step, Branch,
            rowVars, claimVars, histVars
<1>1. BrTypeOK'
  BY TypeStep DEF BrNext
<1>2. \A r \in here \cap Clone, k \in Thing :
       held'[<<ref[r], k>>] = IF held[<<ref[r], k>>] \in Clone \ here THEN NoOne ELSE held[<<ref[r], k>>]
  BY RowNames DEF BrDies
<1>3. StagesFit'
  BY DEF BrDies, ReclaimAbandonedReservations, StagesFit, NoOne
<1>4. OneCreate'
  BY DEF BrDies, ReclaimAbandonedReservations, OneCreate, StagesFit
<1>5. ClaimsFit'
  BY DEF BrDies, ReclaimAbandonedReservations, ClaimsFit, StagesFit, OneCreate
<1>6. RefsApart'
  BY DEF BrDies, ReclaimAbandonedReservations, RefsApart, StagesFit, OneCreate
<1>7. MakesItsOwn'
  BY <1>2, RowNames DEF BrDies, ReclaimAbandonedReservations, MakesItsOwn, StagesFit, OneCreate,
     RefsApart
<1>8. ReadyHasItsOwn'
  <2> SUFFICES ASSUME NEW r \in here' \cap Clone, r \notin cut', NEW k \in Thing
               PROVE  held'[<<ref'[r], k>>] = r
    BY DEF ReadyHasItsOwn
  <2>1. r \in here /\ r \notin cut => held[<<ref[r], k>>] = r
    BY DEF ReadyHasItsOwn
  <2> QED
    BY <2>1, <1>2 DEF BrDies, ReclaimAbandonedReservations, StagesFit, RefsApart, MakesItsOwn, NoOne
<1>9. StaysGone'
  BY <1>2 DEF BrDies, ReclaimAbandonedReservations, StagesFit, RefsApart, NoOne, StaysGone
<1>10. ForksUnderItsKeys'
  BY DEF BrDies, ReclaimAbandonedReservations, ForksUnderItsKeys, StagesFit, OneCreate
<1>11. NamesApart'
  BY DEF BrDies, ReclaimAbandonedReservations, NamesApart
<1>12. SecretsStayHome'
  BY DEF BrDies, ReclaimAbandonedReservations, SecretsStayHome
<1> QED
  BY <1>1, <1>3, <1>4, <1>5, <1>6, <1>7, <1>8, <1>9, <1>10, <1>11, <1>12

LEMMA IInvInit == BrInit => BrIInv
<1> SUFFICES ASSUME BrInit PROVE BrIInv
  OBVIOUS
<1>1. BrTypeOK
  BY TypeInit
<1>2. here \cap Clone = {}
  BY Apart DEF BrInit
<1>3. StagesFit /\ OneCreate /\ ClaimsFit /\ MakesItsOwn /\ ForksUnderItsKeys
  BY Apart DEF BrInit, StagesFit, OneCreate, ClaimsFit, MakesItsOwn, ForksUnderItsKeys, Creating,
               Provisioning, Completing, Demolishing, Making, NoOne
<1>4. RefsApart /\ ReadyHasItsOwn /\ StaysGone
  BY <1>2 DEF BrInit, RefsApart, ReadyHasItsOwn, StaysGone, Making, NoOne
<1>5. NamesApart /\ SecretsStayHome
  BY DEF BrInit, NamesApart, SecretsStayHome, Branch
<1> QED
  BY <1>1, <1>3, <1>4, <1>5 DEF BrIInv

LEMMA IInvStutters == BrIInv /\ UNCHANGED brVars => BrIInv'
BY DEF brVars, BrIInv, BrTypeOK, StagesFit, OneCreate, ClaimsFit, RefsApart, MakesItsOwn,
   ReadyHasItsOwn,
       StaysGone, NamesApart, SecretsStayHome, ForksUnderItsKeys, Creating, Making

LEMMA RemoveBytesKeeps ==
  ASSUME BrIInv, NEW b \in Clone, RemoveBytes(b)
  PROVE  BrIInv'
BY ErasesKeeps DEF RemoveBytes

LEMMA IInvStep == BrIInv /\ [BrNext]_brVars => BrIInv'
<1> SUFFICES ASSUME BrIInv, [BrNext]_brVars
             PROVE  BrIInv'
  OBVIOUS
<1>1. ASSUME NEW b \in Clone, BrCreateStep(b)
      PROVE  BrIInv'
  BY <1>1, GrantedKeeps, ReserveBranchRefKeeps, CreateNetworkKeeps, NetworkRefusedKeeps,
     ProvisionBytesKeeps, RollbackKeeps, CommitRowKeeps, RedeployKeeps, InheritSecretsKeeps,
     FinishCreateKeeps, CreateFailsKeeps DEF BrCreateStep
<1>2. ASSUME NEW b \in Clone, BrTeardownStep(b)
      PROVE  BrIInv'
  BY <1>2, RemoveContainersKeeps, RemoveNetworkKeeps, RemoveBytesKeeps DEF BrTeardownStep
<1> QED
  BY <1>1, <1>2, CreateBranchKeeps, DeleteBranchKeeps, DeployAppKeeps, SetUserSecretKeeps,
     AddServiceKeeps, RenameBranchKeeps, BrDiesKeeps, IInvStutters DEF BrNext

LEMMA IInvHolds == BrSpec => []BrIInv
BY IInvInit, IInvStep, PTL DEF BrSpec

(* A ready branch keeps its network, its bytes and its containers until a  *)
(* demolition of its own, whatever creates, compensations, deletes of      *)
(* other branches, renames and deaths of the daemon come in between.       *)
THEOREM ReadyBranchesKeepTheirOwn == BrSpec => []ReadyHasItsOwn
<1>1. BrIInv => ReadyHasItsOwn
  BY DEF BrIInv
<1> QED
  BY <1>1, IInvHolds, PTL

(* Secrets stay with the branch they were written for, under its name of   *)
(* now, as long as no two rows had one name.                               *)
THEOREM SecretsDoNotStray == BrSpec => []SecretsStayHome
<1>1. BrIInv => SecretsStayHome
  BY DEF BrIInv
<1> QED
  BY <1>1, IInvHolds, PTL

(* A claim on a ref or on a lane is that of a create that is under way.    *)
THEOREM ClaimsAreGivenBack == BrSpec => []NoLeakedClaim
<1>1. BrIInv => NoLeakedClaim
  BY DEF BrIInv, NoLeakedClaim, ClaimsFit, Making, Provisioning
<1> QED
  BY <1>1, IInvHolds, PTL

(* A create forks every service of its source under that service's key.    *)
THEOREM CreatesHoldTheirKeys == BrSpec => []ForksUnderItsKeys
<1>1. BrIInv => ForksUnderItsKeys
  BY DEF BrIInv
<1> QED
  BY <1>1, IInvHolds, PTL

\* what one step may take from a row
InOrder(b) ==
  LET has(k) == held[<<ref[b], k>>] = b
      keeps(k) == held'[<<ref[b], k>>] = b IN
  /\ has("bytes") /\ ~keeps("bytes") => ~keeps("containers")
  /\ b \notin here' => \A k \in Thing : ~keeps(k)

LEMMA StepGoesInOrder ==
  ASSUME BrIInv, [BrNext]_brVars, NEW b \in here \cap Clone
  PROVE  InOrder(b)
<1> DEFINE has(k) == held[<<ref[b], k>>] = b
           keeps(k) == held'[<<ref[b], k>>] = b
<1>1. /\ BrTypeOK /\ StagesFit /\ RefsApart /\ MakesItsOwn /\ StaysGone
      /\ \A k \in Thing : <<ref[b], k>> \in BrName \X Thing
  BY RowNames DEF BrIInv
<1>2. ASSUME here \subseteq here', has("bytes") => keeps("bytes")
      PROVE  InOrder(b)
  BY <1>2 DEF InOrder, Thing
<1>3. ASSUME UNCHANGED <<here, held>> PROVE InOrder(b)
  BY <1>2, <1>3
<1> USE DEF rowVars, claimVars, Thing
<1>4. ASSUME NEW c \in Clone, BrCreateStep(c) PROVE InOrder(b)
  <2>1. CASE Granted(c) \/ ReserveBranchRef(c) \/ NetworkRefused(c) \/ InheritSecrets(c)
             \/ FinishCreate(c) \/ CreateFails(c)
    BY <2>1, <1>3 DEF Granted, ReserveBranchRef, NetworkRefused, InheritSecrets, FinishCreate,
                      CreateFails, Demolishes
  <2>2. CASE CreateNetwork(c)
    BY <2>2, <1>1, <1>2 DEF CreateNetwork
  <2>3. CASE ProvisionBytes(c)
    <3>1. asked[c].as # ref[b]
      BY <2>3, <1>1 DEF ProvisionBytes, RefsApart, Making
    <3> QED
      BY <2>3, <3>1, <1>1, <1>2 DEF ProvisionBytes
  <2>4. CASE Rollback(c)
    <3>1. asked[c].as # ref[b]
      BY <2>4, <1>1 DEF Rollback, RefsApart, Making
    <3> QED
      BY <2>4, <3>1, <1>1, <1>2 DEF Rollback, BrTypeOK
  <2>5. CASE CommitRow(c)
    BY <2>5, <1>1, <1>2 DEF CommitRow
  <2>6. CASE Redeploy(c)
    <3>1. held' # held => \E t \in Branch : held' = [held EXCEPT ![<<ref[t], "containers">>] = t]
      BY <2>6, <1>1 DEF Redeploy, Reached, Answers, BrTypeOK
    <3>2. held'[<<ref[b], "bytes">>] = held[<<ref[b], "bytes">>]
      BY <3>1, <1>1 DEF BrTypeOK
    <3> QED
      BY <2>6, <3>2, <1>2 DEF Redeploy
  <2> QED
    BY <1>4, <2>1, <2>2, <2>3, <2>4, <2>5, <2>6 DEF BrCreateStep
<1>5. ASSUME NEW c \in Clone, RemoveContainers(c) PROVE InOrder(b)
  <2>1. held'[<<ref[b], "bytes">>] = held[<<ref[b], "bytes">>]
    BY <1>1, <1>5 DEF RemoveContainers, Proved, BrTypeOK
  <2> QED
    BY <1>5, <2>1, <1>2 DEF RemoveContainers
<1>6. ASSUME NEW c \in Clone, RemoveNetwork(c) PROVE InOrder(b)
  <2>1. held'[<<ref[b], "bytes">>] = held[<<ref[b], "bytes">>]
    BY <1>1, <1>6 DEF RemoveNetwork, Proved, BrTypeOK
  <2> QED
    BY <1>6, <2>1, <1>2 DEF RemoveNetwork
<1>7. ASSUME NEW c \in Clone, RemoveBytes(c) PROVE InOrder(b)
  <2>1. PICK gone \in BOOLEAN : Erases(c, gone, gone /\ failed[c] = {})
    BY <1>7 DEF RemoveBytes
  <2>2. step[c] = "erases" /\ c \in here
    BY <2>1, <1>1 DEF Erases, Steps, StagesFit, NoOne
  <2>3. CASE b # c
    <3>1. ref[b] # ref[c]
      BY <1>1, <2>2, <2>3 DEF RefsApart
    <3>2. held'[<<ref[b], "bytes">>] = held[<<ref[b], "bytes">>]
      BY <2>1, <3>1, <1>1 DEF Erases
    <3>3. here \ {c} \subseteq here'
      BY <2>1 DEF Erases
    <3> QED
      BY <2>3, <3>2, <3>3 DEF InOrder
  <2>4. CASE b = c
    <3>1. \A k \in {"network", "containers"} : held'[<<ref[b], k>>] = held[<<ref[b], k>>]
      BY <2>1, <1>1 DEF Erases
    <3>2. gone => "containers" \notin failed[b] /\ ~keeps("bytes")
      <4>1. gone => ~Survivors(b) /\ held' = [held EXCEPT ![<<ref[b], "bytes">>] = NoOne]
        BY <2>1, <2>4 DEF Erases
      <4>2. <<ref[b], "bytes">> \in BrName \X Thing /\ b # NoOne
        BY <1>1, Apart
      <4> QED
        BY <4>1, <4>2, <1>1 DEF Survivors, BrTypeOK
    <3>3. ~gone => held' = held /\ here' = here
      BY <2>1 DEF Erases
    <3>4. b \notin here' => gone /\ failed[b] = {}
      BY <2>1, <2>4 DEF Erases
    <3>5. /\ "containers" \notin failed[b] => ~has("containers")
          /\ "network" \notin failed[b] => ~has("network")
      BY <1>1, <2>2, <2>4 DEF StaysGone
    <3>6. gone => ~keeps("containers")
      BY <3>1, <3>2, <3>5
    <3>7. b \notin here' => ~keeps("network")
      BY <3>1, <3>4, <3>5
    <3> QED
      BY <3>2, <3>3, <3>4, <3>6, <3>7 DEF InOrder
  <2> QED
    BY <2>3, <2>4
<1>8. ASSUME NEW c \in Branch, DeployApp(c) PROVE InOrder(b)
  BY <1>1, <1>2, <1>8 DEF DeployApp
<1>9. CASE BrDies
  BY <1>1, <1>2, <1>9 DEF BrDies, BrTypeOK
<1>10. CASE UNCHANGED brVars
  BY <1>10, <1>3 DEF brVars
<1> HIDE DEF Thing
<1>11. ASSUME NEW c \in Clone, NEW n \in BrName, NEW from \in Branch, NEW empty \in Excluding,
              CreateBranch(c, n, from, empty)
       PROVE  InOrder(b)
  BY <1>11, <1>3 DEF CreateBranch
<1>12. ASSUME NEW c \in Clone, DeleteBranch(c) PROVE InOrder(b)
  BY <1>12, <1>3 DEF DeleteBranch, Demolishes
<1>13. ASSUME NEW c \in Branch, SetUserSecret(c) PROVE InOrder(b)
  BY <1>13, <1>3 DEF SetUserSecret
<1>14. ASSUME NEW c \in Growing, NEW s \in BrService, AddService(c, s) PROVE InOrder(b)
  BY <1>14, <1>3 DEF AddService
<1>15. ASSUME NEW c \in Branch, NEW n \in BrName, RenameBranch(c, n) PROVE InOrder(b)
  BY <1>15, <1>3 DEF RenameBranch
<1>16. ASSUME NEW c \in Clone, BrTeardownStep(c) PROVE InOrder(b)
  BY <1>5, <1>6, <1>7, <1>16 DEF BrTeardownStep
<1> QED
  <2>1. CASE BrNext
    BY <2>1, <1>4, <1>8, <1>9, <1>11, <1>12, <1>13, <1>14, <1>15, <1>16 DEF BrNext
  <2> QED
    BY <2>1, <1>10

(* What a row names goes in order, and the row goes last.                  *)
THEOREM RowsGoLast == BrSpec => RowGoesLast
<1>1. BrIInv /\ [BrNext]_brVars => \A b \in here \cap Clone : InOrder(b)
  BY StepGoesInOrder
<1>2. BrSpec => [][\A b \in here \cap Clone : InOrder(b)]_brVars
  BY IInvHolds, <1>1, PTL DEF BrSpec
<1> QED
  BY <1>2 DEF RowGoesLast, InOrder
=============================================================================
