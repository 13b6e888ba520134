------------------------- MODULE TemplateRunProofs -------------------------
(***************************************************************************)
(* Proofs about TemplateRun, for every manifest and every number of        *)
(* creates with one deployment id.                                         *)
(***************************************************************************)
EXTENDS TemplateRun, WellFoundedInduction, TLAPS

LEMMA Manifests ==
  /\ Len(Manifest) \in Nat \ {0}
  /\ \A i \in 1..Len(Manifest) : Manifest[i] \in Kind
  /\ \A s \in Kind : \E i \in 1..Len(Manifest) : s = Manifest[i]
BY TplAssumption DEF Kind

LEMMA NoRunIsNone == NoRun \notin Run
BY TplAssumption DEF NoRun

LEMMA NothingMade == Spec0 \in SpecType
BY TplAssumption DEF Spec0, SpecType

\* the least free copy number exists
LEMMA LeastCopy ==
  ASSUME NEW F \in SUBSET (1..MaxCopies), F # {}
  PROVE  \E n \in F : \A m \in F : n <= m
<1>1. F \subseteq Nat
  BY TplAssumption
<1>2. PICK n \in F : \A m \in F : <<m, n>> \notin OpToRel(<, Nat)
  BY <1>1, NatLessThanWellFounded, WFMin
<1>3. \A m \in F : ~(m < n)
  BY <1>1, <1>2 DEF OpToRel
<1> QED
  BY <1>1, <1>3

-----------------------------------------------------------------------------
(* Types.                                                                  *)

LEMMA TplTypeInit == TplInit => TplTypeOK
<1> SUFFICES ASSUME TplInit PROVE TplTypeOK
  OBVIOUS
<1>1. row \in RowType
  BY NothingMade DEF TplInit, RowType
<1>2. /\ pc \in [Run -> Place] /\ at \in [Run -> 1..Len(Manifest)]
      /\ spec \in [Run -> SpecType]
  BY NothingMade, Manifests DEF TplInit, Place
<1> QED
  BY <1>1, <1>2 DEF TplInit, TplTypeOK

LEMMA RowSaved ==
  ASSUME TplTypeOK, NEW r \in Run, NEW f \in SpecType, Save(r, f)
  PROVE  row' \in RowType
BY DEF TplTypeOK, RowType, Save

LEMMA RowFinished ==
  ASSUME TplTypeOK, NEW r \in Run, NEW f \in SpecType, NEW status \in Finished, Finish(r, f, status)
  PROVE  row' \in RowType
BY DEF TplTypeOK, RowType, Finish

LEMMA RunOver ==
  ASSUME TplTypeOK, NEW r \in Run, Forgotten(r)
  PROVE  /\ pc' \in [Run -> Place]
         /\ at' \in [Run -> 1..Len(Manifest)] /\ spec' \in [Run -> SpecType] /\ gen' \in [Run -> Run \cup {NoRun}]
BY NothingMade, Manifests DEF TplTypeOK, Forgotten, Go, Sets, Place

LEMMA RunFails ==
  ASSUME TplTypeOK, NEW r \in Run, NEW f \in SpecType, Fails(r, f),
         UNCHANGED <<present, owned, secret, overlapped>>
  PROVE  TplTypeOK'
<1>1. FailedOrPartial(f) \in Finished
  BY DEF FailedOrPartial, Finished
<1> QED
  BY <1>1, RunOver, RowFinished DEF Fails, Ends, TplTypeOK

LEMMA ServiceNames ==
  ASSUME TplTypeOK, NEW r \in Run, NEW s \in Kind
  PROVE  Name(r, s) \in Service
BY DEF TplTypeOK, SpecType, Name, Service

LEMMA NextService ==
  ASSUME TplTypeOK, NEW r \in Run, NEW l \in {"write", "health"}, Advance(r, l)
  PROVE  /\ pc' \in [Run -> Place]
         /\ at' \in [Run -> 1..Len(Manifest)]
<1>1. at[r] \in 1..Len(Manifest)
  BY DEF TplTypeOK
<1>2. CASE at[r] = Len(Manifest)
  <2>1. pc' = [pc EXCEPT ![r] = l] /\ at' = [at EXCEPT ![r] = 1]
    BY <1>2 DEF Advance, Go
  <2>2. l \in Place /\ 1 \in 1..Len(Manifest)
    BY Manifests DEF Place
  <2> QED
    BY <2>1, <2>2 DEF TplTypeOK
<1>3. CASE at[r] # Len(Manifest)
  <2>1. at[r] + 1 \in 1..Len(Manifest)
    BY <1>1, <1>3, Manifests
  <2> QED
    BY <1>3, <2>1 DEF Advance, TplTypeOK
<1> QED
  BY <1>2, <1>3

LEMMA SecretsWritten ==
  ASSUME TplTypeOK, NEW r \in Run
  PROVE  \A B : Written(r, B) \in [Service -> Run \cup {NoRun}]
BY DEF TplTypeOK, Written, Value

LEMMA Booted ==
  ASSUME TplTypeOK, Boots
  PROVE  /\ row' \in RowType
         /\ pc' \in [Run -> Place]
         /\ at' \in [Run -> 1..Len(Manifest)] /\ spec' \in [Run -> SpecType] /\ gen' \in [Run -> Run \cup {NoRun}]
         /\ overlapped' = overlapped
<1>1. [row EXCEPT !.status = "failed"] \in RowType
  BY DEF TplTypeOK, RowType, Finished
<1>2. row' \in RowType
  BY <1>1 DEF TplTypeOK, Boots, AbandonStale
<1>3. pc' \in [Run -> Place]
  BY DEF TplTypeOK, Boots, Place
<1>4. at' \in [Run -> 1..Len(Manifest)]
  BY Manifests DEF Boots
<1> QED
  BY <1>2, <1>3, <1>4, NothingMade DEF Boots

LEMMA TplTypeStep == TplTypeOK /\ [TplNext]_tplVars => TplTypeOK'
<1> SUFFICES ASSUME TplTypeOK, [TplNext]_tplVars
             PROVE  TplTypeOK'
  OBVIOUS
<1>1. ASSUME NEW r \in Run, NEW leaseOver \in BOOLEAN, Asks(r, leaseOver)
      PROVE  TplTypeOK'
  <2>1. RecoverStoredVariables(row.spec) \in Run \cup {NoRun}
    <3> DEFINE held == {secret[<<s, row.spec.copy>>] : s \in row.spec.created \cap Webs} \ {NoRun}
    <3>1. row.spec \in SpecType
      BY DEF TplTypeOK, RowType
    <3>2. \A s \in row.spec.created : <<s, row.spec.copy>> \in Service
      BY <3>1 DEF SpecType, Service
    <3>3. held \subseteq Run
      BY <3>2 DEF TplTypeOK
    <3> QED
      BY <3>3 DEF RecoverStoredVariables
  <2>2. [row.spec EXCEPT !.state = [s \in Kind |-> "pending"]] \in SpecType
    BY DEF TplTypeOK, RowType, SpecType
  <2>3. CASE Forgotten(r) /\ UNCHANGED overlapped
    BY <1>1, <2>3, RunOver DEF Asks, TplTypeOK
  <2>4. CASE ~(Forgotten(r) /\ UNCHANGED overlapped)
    <3>1. overlapped' \in BOOLEAN
      BY <1>1, <2>4 DEF Asks, TplTypeOK
    <3> QED
      BY <1>1, <2>1, <2>2, <2>4, <3>1 DEF Asks, TplTypeOK, Go, Sets, Place
  <2> QED
    BY <2>3, <2>4
<1>2. ASSUME NEW r \in Run, Mints(r)
      PROVE  TplTypeOK'
  <2> DEFINE free == {n \in 1..MaxCopies : \A s \in Kind : <<s, n>> \notin present}
             first == CHOOSE n \in free : \A m \in free : n <= m
  <2>1. CASE UNCHANGED <<at, spec, gen>> /\ Go(r, "minted")
    BY <1>2, <2>1 DEF Mints, TplTypeOK, Go, Place
  <2>2. CASE spec[r].created = {} /\ free # {} 
             /\ Sets(r, [spec[r] EXCEPT !.copy = first]) /\ Go(r, "minted") /\ UNCHANGED <<at, gen>>
    <3>1. \E n \in free : \A m \in free : n <= m
      BY <2>2, LeastCopy
    <3>2. first \in 1..MaxCopies
      BY <3>1
    <3>3. [spec[r] EXCEPT !.copy = first] \in SpecType
      BY <3>2 DEF TplTypeOK, SpecType
    <3> QED
      BY <1>2, <2>2, <3>3 DEF Mints, TplTypeOK, Go, Sets, Place
  <2>3. CASE Forgotten(r)
    BY <1>2, <2>3, RunOver DEF Mints, TplTypeOK
  <2> QED
    BY <1>2, <2>1, <2>2, <2>3 DEF Mints
<1>3. ASSUME NEW r \in Run, Claims(r)
      PROVE  TplTypeOK'
  <2>1. row' \in RowType
    BY <1>3 DEF Claims, TplTypeOK, RowType
  <2> QED
    BY <1>3, <2>1 DEF Claims, TplTypeOK, Go, Place
<1>4. ASSUME NEW r \in Run, OverQuota(r)
      PROVE  TplTypeOK'
  BY <1>4, RunOver DEF OverQuota, TplTypeOK
<1>5. ASSUME NEW r \in Run, CreateService(r)
      PROVE  TplTypeOK'
  <2> DEFINE s == Manifest[at[r]]
             n == Name(r, s)
  <2>1. s \in Kind
    BY Manifests DEF TplTypeOK
  <2>2. n \in Service
    BY <2>1, ServiceNames
  <2>3. Recorded(r, s) \in SpecType
    BY <2>1 DEF TplTypeOK, SpecType, Recorded
  <2>4. present' \subseteq Service /\ owned' \subseteq present'
    BY <1>5, <2>2 DEF CreateService, TplTypeOK
  <2> QED
    BY <1>5, <2>3, <2>4, RowSaved, NextService DEF CreateService, TplTypeOK, Sets, Place
<1>6. ASSUME NEW r \in Run, NameTaken(r)
      PROVE  TplTypeOK'
  BY <1>6, RunFails DEF NameTaken, TplTypeOK
<1>7. ASSUME NEW r \in Run, WriteVariables(r)
      PROVE  TplTypeOK'
  <2>1. secret' \in [Service -> Run \cup {NoRun}]
    BY <1>7, SecretsWritten DEF WriteVariables
  <2> QED
    BY <1>7, <2>1, RowSaved DEF WriteVariables, TplTypeOK, Go, Place
<1>8. ASSUME NEW r \in Run, DatabasesReady(r)
      PROVE  TplTypeOK'
  <2> DEFINE f == [spec[r] EXCEPT !.state = [s \in Kind |-> IF s \in Databases THEN "healthy" ELSE @[s]]]
  <2>1. f \in SpecType
    <3>1. \A s \in Kind : spec[r].state[s] \in {"pending", "created", "deployed", "healthy", "failed"}
      BY DEF TplTypeOK, SpecType
    <3> QED
      BY <3>1 DEF TplTypeOK, SpecType
  <2> QED
    BY <1>8, <2>1, RowSaved DEF DatabasesReady, TplTypeOK, Sets, Go, Place
<1>9. ASSUME NEW r \in Run, DatabaseNotReady(r)
      PROVE  TplTypeOK'
  <2>1. PICK s \in Databases : Ends(r, [spec[r] EXCEPT !.state[s] = "failed"], "failed")
    BY <1>9 DEF DatabaseNotReady
  <2>2. [spec[r] EXCEPT !.state[s] = "failed"] \in SpecType
    BY DEF TplTypeOK, SpecType
  <2> QED
    BY <1>9, <2>1, <2>2, RunOver, RowFinished DEF DatabaseNotReady, Ends, TplTypeOK, Finished
<1>10. ASSUME NEW r \in Run, DeployService(r)
       PROVE  TplTypeOK'
  <2> DEFINE s == Manifest[at[r]]
             f == [spec[r] EXCEPT !.state[s] = "deployed"]
  <2>1. s \in Kind /\ Name(r, s) \in Service
    BY Manifests, ServiceNames DEF TplTypeOK
  <2>2. f \in SpecType
    BY <2>1 DEF TplTypeOK, SpecType
  <2>3. CASE UNCHANGED <<spec, row, present>>
    BY <1>10, <2>3, NextService DEF DeployService, TplTypeOK
  <2>4. CASE Sets(r, f) /\ Save(r, f) /\ present' = present \cup {Name(r, s)}
    BY <1>10, <2>1, <2>2, <2>4, RowSaved, NextService DEF DeployService, TplTypeOK, Sets, Place
  <2> QED
    BY <1>10, <2>3, <2>4 DEF DeployService
<1>11. ASSUME NEW r \in Run, DeployFailed(r)
       PROVE  TplTypeOK'
  <2>1. [spec[r] EXCEPT !.state[Manifest[at[r]]] = "failed"] \in SpecType
    BY DEF TplTypeOK, SpecType
  <2> QED
    BY <1>11, <2>1, RunFails DEF DeployFailed
<1>12. ASSUME NEW r \in Run, NEW B \in SUBSET Webs, HealthCheck(r, B)
       PROVE  TplTypeOK'
  <2> DEFINE f == [spec[r] EXCEPT !.state = [s \in Kind |-> IF s \in Databases THEN @[s]
                                             ELSE IF s \in B THEN "failed" ELSE "healthy"]]
  <2>1. f \in SpecType
    <3>1. \A s \in Kind : spec[r].state[s] \in {"pending", "created", "deployed", "healthy", "failed"}
      BY DEF TplTypeOK, SpecType
    <3> QED
      BY <3>1 DEF TplTypeOK, SpecType
  <2>2. PICK status \in Finished : Ends(r, f, status)
    BY <1>12 DEF HealthCheck, Finished
  <2> QED
    BY <1>12, <2>1, <2>2, RunOver, RowFinished DEF HealthCheck, Ends, TplTypeOK
<1>13. ASSUME NEW r \in Run, Throws(r)
       PROVE  TplTypeOK'
  BY <1>13, RunFails DEF Throws, TplTypeOK
<1>14. CASE Dies
  BY <1>14, Booted DEF Dies, TplTypeOK
<1>15. ASSUME NEW r \in Run, DiesCreating(r)
       PROVE  TplTypeOK'
  <2>1. Name(r, Manifest[at[r]]) \in Service
    BY Manifests, ServiceNames DEF TplTypeOK
  <2> QED
    BY <1>15, <2>1, Booted DEF DiesCreating, TplTypeOK
<1>16. ASSUME NEW r \in Run, DiesWriting(r)
       PROVE  TplTypeOK'
  <2>1. secret' \in [Service -> Run \cup {NoRun}]
    BY <1>16, SecretsWritten DEF DiesWriting
  <2> QED
    BY <1>16, <2>1, Booted DEF DiesWriting, TplTypeOK
<1>17. ASSUME NEW s \in Kind, SomeoneAdds(s)
       PROVE  TplTypeOK'
  <2>1. <<s, 1>> \in Service
    BY TplAssumption DEF Service
  <2> QED
    BY <1>17, <2>1 DEF SomeoneAdds, TplTypeOK
<1>18. ASSUME NEW n \in Service, ServiceGone(n)
       PROVE  TplTypeOK'
  BY <1>18 DEF ServiceGone, TplTypeOK
<1>19. CASE UNCHANGED tplVars
  BY <1>19 DEF tplVars, TplTypeOK
<1> QED
  BY <1>1, <1>2, <1>3, <1>4, <1>5, <1>6, <1>7, <1>8, <1>9, <1>10, <1>11, <1>12, <1>13, <1>14, <1>15,
     <1>16, <1>17, <1>18, <1>19 DEF TplNext, TplStep

(* Every variable of the template runs has its type.                       *)
THEOREM TplTypesHold == TplSpec => []TplTypeOK
BY TplTypeInit, TplTypeStep, PTL DEF TplSpec

-----------------------------------------------------------------------------
(* The claim on the row, and what a run has done by the place it is at.    *)

ClaimFits ==
  \A r \in Run : row.token = r => /\ pc[r] \notin {"new", "asked", "minted"}
                                  /\ Active(r) => row.status = "running"

Progress ==
  \A r \in Run :
    /\ pc[r] \in {"new", "asked", "minted"} => at[r] = 1
    /\ pc[r] = "create" =>
         \A i \in 1..Len(Manifest) : i < at[r] => Manifest[i] \in spec[r].created
    /\ pc[r] \in {"write", "database", "deploy", "health"} => spec[r].created = Kind
    /\ pc[r] \in {"deploy", "health"} =>
         \A s \in Kind \cap Databases : spec[r].state[s] = "healthy"

TplIInv == TplTypeOK /\ ClaimFits /\ Progress /\ RunningRowHasARun /\ SucceededIsWhole

(* One run at a time: the row and the secrets are the run's.               *)
OneRun == ~overlapped => \A q, r \in Run : Active(q) /\ Active(r) => q = r

RowIsOf(r) ==
  /\ row.spec.created = spec[r].created
  /\ \/ pc[r] \in {"asked", "minted"} /\ row.spec.created = {}
     \/ row.spec.copy = spec[r].copy
  /\ pc[r] \notin {"asked", "minted"} => row.token = r

RowCurrent == ~overlapped => \A r \in Run : Active(r) => RowIsOf(r)

SecretsRecorded ==
  ~overlapped => \A s \in Kind, c \in 1..MaxCopies :
    secret[<<s, c>>] # NoRun => s \in row.spec.created \cap Webs /\ c = row.spec.copy

OneValue ==
  ~overlapped =>
    /\ \A m, n \in Service : secret[m] # NoRun /\ secret[n] # NoRun => secret[m] = secret[n]
    /\ \A r \in Run, n \in Service : Active(r) /\ secret[n] # NoRun => secret[n] = Value(r)

TplAlone == OneRun /\ RowCurrent /\ SecretsRecorded /\ OneValue

LEMMA Verdicts == \A f : FailedOrPartial(f) \in {"failed", "partial"}
BY DEF FailedOrPartial

LEMMA TheOneRun ==
  ASSUME TplAlone, ~overlapped, NEW r \in Run, NEW q \in Run, Active(r), Active(q)
  PROVE  q = r /\ RowIsOf(r)
BY DEF TplAlone, OneRun, RowCurrent

LEMMA AsksKeeps ==
  ASSUME TplIInv, TplAlone, NEW r \in Run, NEW leaseOver \in BOOLEAN, Asks(r, leaseOver)
  PROVE  TplIInv' /\ TplAlone'
<1> USE Manifests, NoRunIsNone, Verdicts DEF TplIInv, TplAlone, TplTypeOK, RowType, SpecType, Active
<1>1. TplTypeOK'
  <2>1. TplNext
    BY DEF TplNext
  <2> QED
    BY <2>1, TplTypeStep
<1> DEFINE resumed == [row.spec EXCEPT !.state = [s \in Kind |-> "pending"]]
<1>a. ASSUME ~overlapped', NEW q \in Run, Active(q)'
      PROVE  /\ ~overlapped
             /\ \/ q # r /\ Active(q) /\ pc'[q] = pc[q] /\ spec'[q] = spec[q] /\ gen'[q] = gen[q] /\ pc'[r] = "over"
                \/ /\ q = r /\ pc'[r] = "asked" /\ spec'[r] = resumed
                   /\ gen'[r] = RecoverStoredVariables(row.spec) /\ \A p \in Run : ~Active(p)
  <2>1. CASE Forgotten(r) /\ UNCHANGED overlapped
    BY <1>a, <2>1 DEF Forgotten, Go, Sets
  <2>2. CASE Go(r, "asked") /\ ~(Forgotten(r) /\ UNCHANGED overlapped)
    BY <1>a, <2>2 DEF Asks, Go, Sets
  <2> QED
    BY <2>1, <2>2 DEF Asks
<1>b. UNCHANGED <<row, secret>>
  BY DEF Asks
<1>2. ClaimFits'
  BY DEF Asks, Forgotten, Go, Sets, ClaimFits
<1>3. Progress'
  BY SMTT(30) DEF Asks, Forgotten, Go, Sets, Progress
<1>4. RunningRowHasARun'
  BY DEF Asks, Forgotten, Go, Sets, RunningRowHasARun, ClaimFits, Finished, Place
<1>5. SucceededIsWhole'
  BY DEF Asks, Forgotten, Go, Sets, SucceededIsWhole, ClaimFits, Progress, Finished, Place
<1>6. OneRun'
  <2> SUFFICES ASSUME ~overlapped', NEW p \in Run, NEW q \in Run, Active(p)', Active(q)'
               PROVE  p = q
    BY DEF OneRun
  <2>1. ~overlapped /\ (p = r \/ Active(p)) /\ (q = r \/ Active(q))
    BY <1>a
  <2>2. (p = r \/ q = r) => p = q
    BY <1>a
  <2> QED
    BY <2>1, <2>2 DEF OneRun
<1>7. RowCurrent'
  <2> SUFFICES ASSUME ~overlapped', NEW q \in Run, Active(q)'
               PROVE  RowIsOf(q)'
    BY DEF RowCurrent
  <2>1. CASE q = r
    <3>1. resumed.created = row.spec.created /\ resumed.copy = row.spec.copy
      OBVIOUS
    <3>2. pc'[r] = "asked" /\ spec'[r] = resumed
      BY <1>a, <2>1
    <3> QED
      BY <2>1, <3>1, <3>2, <1>b DEF RowIsOf
  <2>2. CASE q # r
    <3>1. ~overlapped /\ Active(q) /\ pc'[q] = pc[q] /\ spec'[q] = spec[q]
      BY <1>a, <2>2
    <3> QED
      BY <3>1, <1>b DEF RowCurrent, RowIsOf
  <2> QED
    BY <2>1, <2>2
<1>8. SecretsRecorded'
  <2> SUFFICES ASSUME ~overlapped', NEW s \in Kind, NEW c \in 1..MaxCopies, secret'[<<s, c>>] # NoRun
               PROVE  s \in row'.spec.created \cap Webs /\ c = row'.spec.copy
    BY DEF SecretsRecorded
  <2> QED
    BY DEF Asks, SecretsRecorded
<1>9. OneValue'
  <2>1. ASSUME ~overlapped', NEW n \in Service, secret[n] # NoRun
        PROVE  RecoverStoredVariables(row.spec) = secret[n]
    <3> DEFINE held == {secret[<<s, row.spec.copy>>] : s \in row.spec.created \cap Webs} \ {NoRun}
    <3>1. ~overlapped
      BY <2>1 DEF Asks
    <3>2. \E s \in row.spec.created \cap Webs : n = <<s, row.spec.copy>>
      BY <2>1, <3>1 DEF SecretsRecorded, Service
    <3>3. secret[n] \in held
      BY <2>1, <3>2
    <3>4. \A v \in held : v = secret[n]
      <4>1. \A s \in row.spec.created \cap Webs : <<s, row.spec.copy>> \in Service
        BY DEF Service
      <4>2. \A m \in Service : secret[m] # NoRun => secret[m] = secret[n]
        BY <2>1, <3>1 DEF OneValue
      <4> QED
        BY <4>1, <4>2
    <3> QED
      BY <3>3, <3>4 DEF RecoverStoredVariables
  <2>2. ASSUME ~overlapped', NEW q \in Run, NEW n \in Service, Active(q)', secret[n] # NoRun
        PROVE  secret[n] = Value(q)'
    BY <2>2, <2>1, <1>a DEF OneValue, Value
  <2>3. ~overlapped' => ~overlapped
    BY DEF Asks
  <2> QED
    BY <1>b, <2>2, <2>3 DEF OneValue
<1> QED
  BY <1>1, <1>2, <1>3, <1>4, <1>5, <1>6, <1>7, <1>8, <1>9

LEMMA MintsKeeps ==
  ASSUME TplIInv, TplAlone, NEW r \in Run, Mints(r)
  PROVE  TplIInv' /\ TplAlone'
<1> USE Manifests, NoRunIsNone, Verdicts DEF TplIInv, TplAlone, TplTypeOK, RowType, SpecType, Active
<1>1. TplTypeOK'
  BY TplTypeStep DEF TplNext, TplStep
<1>2. ClaimFits'
  BY DEF Mints, Forgotten, Go, Sets, ClaimFits
<1>3. Progress'
  BY DEF Mints, Forgotten, Go, Sets, Progress
<1>4. RunningRowHasARun'
  BY DEF Mints, Forgotten, Go, Sets, RunningRowHasARun, ClaimFits, Finished, Place
<1>5. SucceededIsWhole'
  BY DEF Mints, Forgotten, Go, Sets, SucceededIsWhole, ClaimFits, Progress, Finished, Place
<1>6. OneRun'
  BY DEF Mints, Forgotten, Go, Sets, OneRun
<1>7. RowCurrent'
  <2> SUFFICES ASSUME ~overlapped', NEW q \in Run, Active(q)'
               PROVE  RowIsOf(q)'
    BY DEF RowCurrent
  <2>1. ~overlapped /\ Active(q) /\ Active(r) /\ row' = row
    BY DEF Mints, Forgotten, Go, Sets
  <2>2. q = r /\ RowIsOf(r) /\ pc[r] = "asked"
    BY <2>1, TheOneRun DEF Mints
  <2>3. pc'[r] = "minted" /\ spec'[r].created = spec[r].created
    BY <2>1, <2>2 DEF Mints, Forgotten, Go, Sets
  <2>4. spec'[r].copy = spec[r].copy \/ spec[r].created = {}
    BY <2>1 DEF Mints, Forgotten, Go, Sets
  <2> QED
    BY <2>1, <2>2, <2>3, <2>4 DEF RowIsOf
<1>8. SecretsRecorded'
  <2> SUFFICES ASSUME ~overlapped', NEW s \in Kind, NEW c \in 1..MaxCopies, secret'[<<s, c>>] # NoRun
               PROVE  s \in row'.spec.created \cap Webs /\ c = row'.spec.copy
    BY DEF SecretsRecorded
  <2> QED
    BY DEF Mints, SecretsRecorded
<1>9. OneValue'
  <2>1. secret' = secret /\ overlapped' = overlapped
    BY DEF Mints
  <2>2. \A q \in Run : Active(q)' => Active(q) /\ gen'[q] = gen[q]
    BY DEF Mints, Forgotten, Go, Sets
  <2> QED
    BY <2>1, <2>2 DEF OneValue, Value
<1> QED
  BY <1>1, <1>2, <1>3, <1>4, <1>5, <1>6, <1>7, <1>8, <1>9

LEMMA ClaimsKeeps ==
  ASSUME TplIInv, TplAlone, NEW r \in Run, Claims(r)
  PROVE  TplIInv' /\ TplAlone'
<1> USE Manifests, NoRunIsNone, Verdicts DEF TplIInv, TplAlone, TplTypeOK, RowType, SpecType, Active
<1>1. TplTypeOK'
  BY TplTypeStep DEF TplNext, TplStep
<1>2. ClaimFits'
  BY DEF Claims, Go, ClaimFits
<1>3. Progress'
  BY DEF Claims, Go, Progress
<1>4. RunningRowHasARun'
  BY DEF Claims, Go, RunningRowHasARun, ClaimFits, Finished, Place
<1>5. SucceededIsWhole'
  BY DEF Claims, Go, SucceededIsWhole, ClaimFits, Progress, Finished, Place
<1>6. OneRun'
  BY DEF Claims, Go, OneRun
<1>7. RowCurrent'
  <2> SUFFICES ASSUME ~overlapped', NEW q \in Run, Active(q)'
               PROVE  RowIsOf(q)'
    BY DEF RowCurrent
  <2>1. ~overlapped /\ Active(q) /\ Active(r)
    BY DEF Claims, Go
  <2>2. q = r /\ RowIsOf(r)
    BY <2>1, TheOneRun
  <2> QED
    BY <2>2 DEF Claims, Go, RowIsOf
<1>8. SecretsRecorded'
  <2> SUFFICES ASSUME ~overlapped', NEW s \in Kind, NEW c \in 1..MaxCopies, secret'[<<s, c>>] # NoRun
               PROVE  s \in row'.spec.created \cap Webs /\ c = row'.spec.copy
    BY DEF SecretsRecorded
  <2>1. Active(r) /\ ~overlapped /\ secret[<<s, c>>] # NoRun
    BY DEF Claims, Go
  <2>2. RowIsOf(r)
    BY <2>1, TheOneRun
  <2>3. s \in row.spec.created \cap Webs /\ c = row.spec.copy
    BY <2>1 DEF SecretsRecorded
  <2> QED
    BY <2>1, <2>2, <2>3 DEF Claims, Go, RowIsOf
<1>9. OneValue'
  BY DEF Claims, Go, OneValue, OneRun, SecretsRecorded, Value, Service, Webs
<1> QED
  BY <1>1, <1>2, <1>3, <1>4, <1>5, <1>6, <1>7, <1>8, <1>9

LEMMA OverQuotaKeeps ==
  ASSUME TplIInv, TplAlone, NEW r \in Run, OverQuota(r)
  PROVE  TplIInv' /\ TplAlone'
<1> USE Manifests, NoRunIsNone, Verdicts DEF TplIInv, TplAlone, TplTypeOK, RowType, SpecType, Active
<1>1. TplTypeOK'
  BY TplTypeStep DEF TplNext, TplStep
<1>2. ClaimFits'
  BY DEF OverQuota, Forgotten, Go, Sets, ClaimFits
<1>3. Progress'
  BY DEF OverQuota, Forgotten, Go, Sets, Progress
<1>4. RunningRowHasARun'
  BY DEF OverQuota, Forgotten, Go, Sets, RunningRowHasARun, ClaimFits, Finished, Place
<1>5. SucceededIsWhole'
  BY DEF OverQuota, Forgotten, Go, Sets, SucceededIsWhole, ClaimFits, Progress, Finished, Place
<1>6. OneRun'
  BY DEF OverQuota, Forgotten, Go, Sets, OneRun
<1>7. RowCurrent'
  BY DEF OverQuota, Forgotten, Go, Sets, RowCurrent, OneRun, ClaimFits
<1>8. SecretsRecorded'
  BY DEF OverQuota, Forgotten, Go, Sets, SecretsRecorded, OneRun, RowCurrent, Progress, Value,
     Service, Webs
<1>9. OneValue'
  BY DEF OverQuota, Forgotten, Go, Sets, OneValue, OneRun, SecretsRecorded, Value, Service, Webs
<1> QED
  BY <1>1, <1>2, <1>3, <1>4, <1>5, <1>6, <1>7, <1>8, <1>9

LEMMA CreateServiceKeeps ==
  ASSUME TplIInv, TplAlone, NEW r \in Run, CreateService(r)
  PROVE  TplIInv' /\ TplAlone'
<1> USE Manifests, NoRunIsNone, Verdicts DEF TplIInv, TplAlone, TplTypeOK, RowType, SpecType, Active
<1>1. TplTypeOK'
  BY TplTypeStep DEF TplNext, TplStep
<1>2. ClaimFits'
  BY DEF CreateService, Recorded, Sets, Save, Advance, Go, ClaimFits
<1>3. Progress'
  <2>1. \A q \in Run : q # r => pc'[q] = pc[q] /\ at'[q] = at[q] /\ spec'[q] = spec[q]
    BY DEF CreateService, Sets, Advance, Go
  <2>2. /\ pc[r] = "create" /\ spec'[r].created = spec[r].created \cup {Manifest[at[r]]}
        /\ spec[r].created \subseteq Kind /\ at[r] \in 1..Len(Manifest)
    BY DEF CreateService, Recorded, Sets
  <2>3. CASE at[r] = Len(Manifest)
    <3>1. pc'[r] = "write" /\ at'[r] = 1
      BY <2>3 DEF CreateService, Advance, Go
    <3>2. spec'[r].created = Kind
      <4>1. \A i \in 1..Len(Manifest) : Manifest[i] \in spec'[r].created
        <5> TAKE i \in 1..Len(Manifest)
        <5>1. i < at[r] => Manifest[i] \in spec[r].created
          BY <2>2 DEF Progress
        <5>2. i < at[r] \/ i = at[r]
          BY <2>3
        <5> QED
          BY <2>2, <5>1, <5>2
      <4> QED
        BY <4>1, <2>2
    <3> QED
      BY <2>1, <3>1, <3>2 DEF Progress
  <2>4. CASE at[r] # Len(Manifest)
    <3>1. pc'[r] = "create" /\ at'[r] = at[r] + 1
      BY <2>4 DEF CreateService, Advance, Go
    <3>2. \A i \in 1..Len(Manifest) : i < at[r] + 1 => Manifest[i] \in spec'[r].created
      <4> TAKE i \in 1..Len(Manifest)
      <4>1. i < at[r] => Manifest[i] \in spec[r].created
        BY <2>2 DEF Progress
      <4>2. i < at[r] + 1 => i < at[r] \/ i = at[r]
        BY <2>2
      <4> QED
        BY <2>2, <4>1, <4>2
    <3>3. \A i \in 1..Len(Manifest) : i < at'[r] => Manifest[i] \in spec'[r].created
      BY <3>1, <3>2
    <3>4. ASSUME NEW q \in Run, q # r PROVE Progress!(q)'
      BY <2>1, <3>4 DEF Progress
    <3>5. Progress!(r)'
      BY <3>1, <3>3 DEF Progress
    <3> QED
      BY <3>4, <3>5 DEF Progress
  <2> QED
    BY <2>3, <2>4
<1>4. RunningRowHasARun'
  BY DEF CreateService, Recorded, Sets, Save, Advance, Go, RunningRowHasARun, ClaimFits,
     Finished, Place
<1>5. SucceededIsWhole'
  BY DEF CreateService, Recorded, Sets, Save, Advance, Go, SucceededIsWhole, ClaimFits,
     Progress, Finished, Place
<1>6. OneRun'
  BY DEF CreateService, Recorded, Sets, Save, Advance, Go, OneRun
<1>7. RowCurrent'
  <2> SUFFICES ASSUME ~overlapped', NEW q \in Run, Active(q)'
               PROVE  RowIsOf(q)'
    BY DEF RowCurrent
  <2>1. ~overlapped /\ Active(q) /\ Active(r)
    BY DEF CreateService, Recorded, Sets, Save, Advance, Go
  <2>2. q = r /\ RowIsOf(r)
    BY <2>1, TheOneRun
  <2> QED
    BY <2>2 DEF CreateService, Recorded, Sets, Save, Advance, Go, RowIsOf
<1>8. SecretsRecorded'
  <2> SUFFICES ASSUME ~overlapped', NEW s \in Kind, NEW c \in 1..MaxCopies, secret'[<<s, c>>] # NoRun
               PROVE  s \in row'.spec.created \cap Webs /\ c = row'.spec.copy
    BY DEF SecretsRecorded
  <2>1. Active(r) /\ ~overlapped /\ secret[<<s, c>>] # NoRun
    BY DEF CreateService, Recorded, Sets, Save, Advance, Go
  <2>2. RowIsOf(r)
    BY <2>1, TheOneRun
  <2>3. s \in row.spec.created \cap Webs /\ c = row.spec.copy
    BY <2>1 DEF SecretsRecorded
  <2> QED
    BY <2>1, <2>2, <2>3 DEF CreateService, Recorded, Sets, Save, Advance, Go, RowIsOf
<1>9. OneValue'
  <2>1. secret' = secret /\ overlapped' = overlapped
    BY DEF CreateService
  <2>2. \A q \in Run : Active(q)' => Active(q) /\ gen'[q] = gen[q]
    BY DEF CreateService, Recorded, Sets, Save, Advance, Go
  <2> QED
    BY <2>1, <2>2 DEF OneValue, Value
<1> QED
  BY <1>1, <1>2, <1>3, <1>4, <1>5, <1>6, <1>7, <1>8, <1>9

LEMMA NameTakenKeeps ==
  ASSUME TplIInv, TplAlone, NEW r \in Run, NameTaken(r)
  PROVE  TplIInv' /\ TplAlone'
<1> USE Manifests, NoRunIsNone, Verdicts DEF TplIInv, TplAlone, TplTypeOK, RowType, SpecType, Active
<1>1. TplTypeOK'
  BY TplTypeStep DEF TplNext, TplStep
<1>2. ClaimFits'
  BY DEF NameTaken, Fails, Ends, Forgotten, Go, Sets, Finish, ClaimFits
<1>3. Progress'
  BY DEF NameTaken, Fails, Ends, Forgotten, Go, Sets, Finish, Progress
<1>4. RunningRowHasARun'
  BY DEF NameTaken, Fails, Ends, Forgotten, Go, Sets, Finish, RunningRowHasARun, ClaimFits,
     Finished, Place
<1>5. SucceededIsWhole'
  BY DEF NameTaken, Fails, Ends, Forgotten, Go, Sets, Finish, SucceededIsWhole, ClaimFits,
     Progress, Finished, Place
<1>6. OneRun'
  BY DEF NameTaken, Fails, Ends, Forgotten, Go, Sets, Finish, OneRun
<1>7. RowCurrent'
  <2> SUFFICES ASSUME ~overlapped', NEW q \in Run, Active(q)'
               PROVE  FALSE
    BY DEF RowCurrent
  <2>1. ~overlapped /\ Active(q) /\ q # r /\ Active(r)
    BY DEF NameTaken, Fails, Ends, Forgotten, Go, Sets, Finish
  <2> QED
    BY <2>1, TheOneRun
<1>8. SecretsRecorded'
  <2>1. secret' = secret /\ overlapped' = overlapped /\ Active(r)
    BY DEF NameTaken
  <2>2. ~overlapped => row'.spec.created = row.spec.created /\ row'.spec.copy = row.spec.copy
    BY <2>1, TheOneRun DEF NameTaken, Fails, Ends, Forgotten, Go, Sets, Finish, RowIsOf
  <2> QED
    BY <2>1, <2>2 DEF SecretsRecorded
<1>9. OneValue'
  BY DEF NameTaken, Fails, Ends, Forgotten, Go, Sets, Finish, OneValue, OneRun, SecretsRecorded,
     Value, Service, Webs
<1> QED
  BY <1>1, <1>2, <1>3, <1>4, <1>5, <1>6, <1>7, <1>8, <1>9

LEMMA WriteVariablesKeeps ==
  ASSUME TplIInv, TplAlone, NEW r \in Run, WriteVariables(r)
  PROVE  TplIInv' /\ TplAlone'
<1> USE Manifests, NoRunIsNone, Verdicts DEF TplIInv, TplAlone, TplTypeOK, RowType, SpecType, Active
<1>1. TplTypeOK'
  BY TplTypeStep DEF TplNext, TplStep
<1>2. ClaimFits'
  BY DEF WriteVariables, Written, Value, Save, Go, Name, ClaimFits
<1>3. Progress'
  BY DEF WriteVariables, Written, Value, Save, Go, Name, Progress
<1>4. RunningRowHasARun'
  BY DEF WriteVariables, Written, Value, Save, Go, Name, RunningRowHasARun, ClaimFits, Finished,
     Place
<1>5. SucceededIsWhole'
  BY DEF WriteVariables, Written, Value, Save, Go, Name, SucceededIsWhole, ClaimFits, Progress,
     Finished, Place
<1>6. OneRun'
  BY DEF WriteVariables, Written, Value, Save, Go, Name, OneRun
<1>7. RowCurrent'
  <2> SUFFICES ASSUME ~overlapped', NEW q \in Run, Active(q)'
               PROVE  RowIsOf(q)'
    BY DEF RowCurrent
  <2>1. ~overlapped /\ Active(q) /\ Active(r)
    BY DEF WriteVariables, Written, Value, Save, Go, Name
  <2>2. q = r /\ RowIsOf(r)
    BY <2>1, TheOneRun
  <2> QED
    BY <2>2 DEF WriteVariables, Written, Value, Save, Go, Name, RowIsOf
<1>8. SecretsRecorded'
  <2> SUFFICES ASSUME ~overlapped', NEW s \in Kind, NEW c \in 1..MaxCopies, secret'[<<s, c>>] # NoRun
               PROVE  s \in row'.spec.created \cap Webs /\ c = row'.spec.copy
    BY DEF SecretsRecorded
  <2>1. Active(r) /\ ~overlapped /\ spec[r].created = Kind
    BY DEF WriteVariables, Progress
  <2>2. RowIsOf(r)
    BY <2>1, TheOneRun
  <2>3. row'.spec.created = Kind /\ row'.spec.copy = spec[r].copy /\ row.spec.copy = spec[r].copy
    BY <2>1, <2>2 DEF WriteVariables, Written, Value, Save, Go, Name, RowIsOf
  <2>4. secret[<<s, c>>] # NoRun \/ \E t \in Webs : <<s, c>> = <<t, spec[r].copy>>
    BY DEF WriteVariables, Written, Value, Save, Go, Name, Service
  <2> QED
    BY <2>1, <2>2, <2>3, <2>4 DEF SecretsRecorded, Webs
<1>9. OneValue'
  <2>1. \A n \in Service : secret'[n] = secret[n] \/ secret'[n] = Value(r)
    BY DEF WriteVariables, Written
  <2>2. overlapped' = overlapped /\ Active(r)
    BY DEF WriteVariables
  <2>3. ~overlapped => \A n \in Service : secret'[n] # NoRun => secret'[n] = Value(r)
    BY <2>1, <2>2 DEF OneValue
  <2>4. ASSUME ~overlapped, NEW q \in Run, Active(q)'
        PROVE  q = r /\ Value(q)' = Value(r)
    BY <2>2, <2>4, TheOneRun DEF WriteVariables, Written, Value, Save, Go, Name
  <2> QED
    BY <2>2, <2>3, <2>4 DEF OneValue
<1> QED
  BY <1>1, <1>2, <1>3, <1>4, <1>5, <1>6, <1>7, <1>8, <1>9

LEMMA DatabasesReadyKeeps ==
  ASSUME TplIInv, TplAlone, NEW r \in Run, DatabasesReady(r)
  PROVE  TplIInv' /\ TplAlone'
<1> USE Manifests, NoRunIsNone, Verdicts DEF TplIInv, TplAlone, TplTypeOK, RowType, SpecType, Active
<1>1. TplTypeOK'
  BY TplTypeStep DEF TplNext, TplStep
<1>2. ClaimFits'
  BY DEF DatabasesReady, Sets, Save, Go, ClaimFits
<1>3. Progress'
  BY DEF DatabasesReady, Sets, Save, Go, Progress
<1>4. RunningRowHasARun'
  BY DEF DatabasesReady, Sets, Save, Go, RunningRowHasARun, ClaimFits, Finished, Place
<1>5. SucceededIsWhole'
  BY DEF DatabasesReady, Sets, Save, Go, SucceededIsWhole, ClaimFits, Progress, Finished, Place
<1>6. OneRun'
  BY DEF DatabasesReady, Sets, Save, Go, OneRun
<1>7. RowCurrent'
  <2> SUFFICES ASSUME ~overlapped', NEW q \in Run, Active(q)'
               PROVE  RowIsOf(q)'
    BY DEF RowCurrent
  <2>1. ~overlapped /\ Active(q) /\ Active(r)
    BY DEF DatabasesReady, Sets, Save, Go
  <2>2. q = r /\ RowIsOf(r)
    BY <2>1, TheOneRun
  <2> QED
    BY <2>2 DEF DatabasesReady, Sets, Save, Go, RowIsOf
<1>8. SecretsRecorded'
  <2> SUFFICES ASSUME ~overlapped', NEW s \in Kind, NEW c \in 1..MaxCopies, secret'[<<s, c>>] # NoRun
               PROVE  s \in row'.spec.created \cap Webs /\ c = row'.spec.copy
    BY DEF SecretsRecorded
  <2>1. Active(r) /\ ~overlapped /\ secret[<<s, c>>] # NoRun
    BY DEF DatabasesReady, Sets, Save, Go
  <2>2. RowIsOf(r)
    BY <2>1, TheOneRun
  <2>3. s \in row.spec.created \cap Webs /\ c = row.spec.copy
    BY <2>1 DEF SecretsRecorded
  <2> QED
    BY <2>1, <2>2, <2>3 DEF DatabasesReady, Sets, Save, Go, RowIsOf
<1>9. OneValue'
  BY DEF DatabasesReady, Sets, Save, Go, OneValue, OneRun, SecretsRecorded, Value, Service, Webs
<1> QED
  BY <1>1, <1>2, <1>3, <1>4, <1>5, <1>6, <1>7, <1>8, <1>9

LEMMA DatabaseNotReadyKeeps ==
  ASSUME TplIInv, TplAlone, NEW r \in Run, DatabaseNotReady(r)
  PROVE  TplIInv' /\ TplAlone'
<1> USE Manifests, NoRunIsNone, Verdicts DEF TplIInv, TplAlone, TplTypeOK, RowType, SpecType, Active
<1>1. TplTypeOK'
  BY TplTypeStep DEF TplNext, TplStep
<1>2. ClaimFits'
  BY DEF DatabaseNotReady, Ends, Forgotten, Go, Sets, Finish, ClaimFits
<1>3. Progress'
  BY DEF DatabaseNotReady, Ends, Forgotten, Go, Sets, Finish, Progress
<1>4. RunningRowHasARun'
  BY DEF DatabaseNotReady, Ends, Forgotten, Go, Sets, Finish, RunningRowHasARun, ClaimFits,
     Finished, Place
<1>5. SucceededIsWhole'
  BY DEF DatabaseNotReady, Ends, Forgotten, Go, Sets, Finish, SucceededIsWhole, ClaimFits,
     Progress, Finished, Place
<1>6. OneRun'
  BY DEF DatabaseNotReady, Ends, Forgotten, Go, Sets, Finish, OneRun
<1>7. RowCurrent'
  <2> SUFFICES ASSUME ~overlapped', NEW q \in Run, Active(q)'
               PROVE  FALSE
    BY DEF RowCurrent
  <2>1. ~overlapped /\ Active(q) /\ q # r /\ Active(r)
    BY DEF DatabaseNotReady, Ends, Forgotten, Go, Sets, Finish
  <2> QED
    BY <2>1, TheOneRun
<1>8. SecretsRecorded'
  <2>1. secret' = secret /\ overlapped' = overlapped /\ Active(r)
    BY DEF DatabaseNotReady
  <2>2. ~overlapped => row'.spec.created = row.spec.created /\ row'.spec.copy = row.spec.copy
    <3>1. \/ row' = row
          \/ row'.spec.created = spec[r].created /\ row'.spec.copy = spec[r].copy
      BY DEF DatabaseNotReady, Ends, Finish
    <3>2. ~overlapped => RowIsOf(r) /\ pc[r] \notin {"asked", "minted"}
      BY <2>1, TheOneRun DEF DatabaseNotReady
    <3> QED
      BY <3>1, <3>2 DEF RowIsOf
  <2> QED
    BY <2>1, <2>2 DEF SecretsRecorded
<1>9. OneValue'
  BY DEF DatabaseNotReady, Ends, Forgotten, Go, Sets, Finish, OneValue, OneRun, SecretsRecorded,
     Value, Service, Webs
<1> QED
  BY <1>1, <1>2, <1>3, <1>4, <1>5, <1>6, <1>7, <1>8, <1>9

LEMMA DeployServiceKeeps ==
  ASSUME TplIInv, TplAlone, NEW r \in Run, DeployService(r)
  PROVE  TplIInv' /\ TplAlone'
<1> USE Manifests, NoRunIsNone, Verdicts DEF TplIInv, TplAlone, TplTypeOK, RowType, SpecType, Active
<1>1. TplTypeOK'
  BY TplTypeStep DEF TplNext, TplStep
<1>d. /\ \A q \in Run : q # r => pc'[q] = pc[q] /\ at'[q] = at[q] /\ spec'[q] = spec[q]
      /\ pc[r] = "deploy" /\ pc'[r] \in {"deploy", "health"} /\ UNCHANGED <<secret, gen, overlapped>>
      /\ row'.token = row.token /\ row'.status = row.status
      /\ spec'[r].created = spec[r].created /\ spec'[r].copy = spec[r].copy
      /\ \/ row' = row
         \/ row.token = r /\ row'.spec.created = spec[r].created /\ row'.spec.copy = spec[r].copy
  <2> DEFINE f == [spec[r] EXCEPT !.state[Manifest[at[r]]] = "deployed"]
  <2>1. \/ UNCHANGED <<spec, row>>
        \/ spec' = [spec EXCEPT ![r] = f] /\ row' = IF row.token = r THEN [row EXCEPT !.spec = f] ELSE row
    BY DEF DeployService, Sets, Save
  <2>2. f.created = spec[r].created /\ f.copy = spec[r].copy
    OBVIOUS
  <2>3. /\ \A q \in Run : q # r => pc'[q] = pc[q] /\ at'[q] = at[q]
        /\ pc[r] = "deploy" /\ pc'[r] \in {"deploy", "health"} /\ UNCHANGED <<secret, gen, overlapped>>
    BY DEF DeployService, Advance, Go
  <2>4. spec'[r] \in {spec[r], f} /\ \A q \in Run : q # r => spec'[q] = spec[q]
    BY <2>1
  <2>5. row' = row \/ (row.token = r /\ row' = [row EXCEPT !.spec = f])
    <3> HIDE DEF f
    <3>1. CASE UNCHANGED <<spec, row>>
      BY <3>1
    <3>2. CASE row' = IF row.token = r THEN [row EXCEPT !.spec = f] ELSE row
      <4>1. CASE row.token = r
        BY ONLY <3>2, <4>1
      <4>2. CASE row.token # r
        BY ONLY <3>2, <4>2
      <4> QED
        BY <4>1, <4>2
    <3> QED
      BY <2>1, <3>1, <3>2
  <2> QED
    BY <2>2, <2>3, <2>4, <2>5
<1>e. \A s \in Kind \cap Databases : spec'[r].state[s] = spec[r].state[s]
  <2>1. CASE Manifest[at[r]] \in Databases
    BY <2>1 DEF DeployService
  <2>2. CASE Manifest[at[r]] \notin Databases
    <3> DEFINE f == [spec[r] EXCEPT !.state[Manifest[at[r]]] = "deployed"]
    <3>1. spec'[r] = f
      BY <2>2 DEF DeployService, Sets
    <3>2. f.state = [spec[r].state EXCEPT ![Manifest[at[r]]] = "deployed"]
      OBVIOUS
    <3> QED
      BY <2>2, <3>1, <3>2
  <2> QED
    BY <2>1, <2>2
<1>2. ClaimFits'
  BY DEF DeployService, Sets, Save, Advance, Go, ClaimFits
<1>3. Progress'
  BY <1>d, <1>e DEF Progress
<1>4. RunningRowHasARun'
  BY <1>d DEF RunningRowHasARun
<1>5. SucceededIsWhole'
  BY DEF DeployService, Sets, Save, Advance, Go, SucceededIsWhole, ClaimFits, Progress,
     Finished, Place
<1>6. OneRun'
  BY DEF DeployService, Sets, Save, Advance, Go, OneRun
<1>7. RowCurrent'
  <2> SUFFICES ASSUME ~overlapped', NEW q \in Run, Active(q)'
               PROVE  RowIsOf(q)'
    BY DEF RowCurrent
  <2>1. ~overlapped /\ Active(q) /\ Active(r)
    BY DEF DeployService, Sets, Save, Advance, Go
  <2>2. q = r /\ RowIsOf(r)
    BY <2>1, TheOneRun
  <2> QED
    BY <1>d, <2>2 DEF RowIsOf
<1>8. SecretsRecorded'
  <2> SUFFICES ASSUME ~overlapped', NEW s \in Kind, NEW c \in 1..MaxCopies, secret'[<<s, c>>] # NoRun
               PROVE  s \in row'.spec.created \cap Webs /\ c = row'.spec.copy
    BY DEF SecretsRecorded
  <2>1. Active(r) /\ ~overlapped /\ secret[<<s, c>>] # NoRun
    BY DEF DeployService, Sets, Save, Advance, Go
  <2>2. RowIsOf(r)
    BY <2>1, TheOneRun
  <2>3. s \in row.spec.created \cap Webs /\ c = row.spec.copy
    BY <2>1 DEF SecretsRecorded
  <2> QED
    BY <1>d, <2>1, <2>2, <2>3 DEF RowIsOf
<1>9. OneValue'
  <2>1. secret' = secret /\ overlapped' = overlapped
    BY DEF DeployService
  <2>2. \A q \in Run : Active(q)' => Active(q) /\ gen'[q] = gen[q]
    BY <1>d
  <2> QED
    BY <2>1, <2>2 DEF OneValue, Value
<1> QED
  BY <1>1, <1>2, <1>3, <1>4, <1>5, <1>6, <1>7, <1>8, <1>9

LEMMA DeployFailedKeeps ==
  ASSUME TplIInv, TplAlone, NEW r \in Run, DeployFailed(r)
  PROVE  TplIInv' /\ TplAlone'
<1> USE Manifests, NoRunIsNone, Verdicts DEF TplIInv, TplAlone, TplTypeOK, RowType, SpecType, Active
<1>1. TplTypeOK'
  BY TplTypeStep DEF TplNext, TplStep
<1>2. ClaimFits'
  BY DEF DeployFailed, Fails, Ends, Forgotten, Go, Sets, Finish, ClaimFits
<1>3. Progress'
  BY DEF DeployFailed, Fails, Ends, Forgotten, Go, Sets, Finish, Progress
<1>4. RunningRowHasARun'
  BY DEF DeployFailed, Fails, Ends, Forgotten, Go, Sets, Finish, RunningRowHasARun, ClaimFits,
     Finished, Place
<1>5. SucceededIsWhole'
  BY DEF DeployFailed, Fails, Ends, Forgotten, Go, Sets, Finish, SucceededIsWhole, ClaimFits,
     Progress, Finished, Place
<1>6. OneRun'
  BY DEF DeployFailed, Fails, Ends, Forgotten, Go, Sets, Finish, OneRun
<1>7. RowCurrent'
  <2> SUFFICES ASSUME ~overlapped', NEW q \in Run, Active(q)'
               PROVE  FALSE
    BY DEF RowCurrent
  <2>1. ~overlapped /\ Active(q) /\ q # r /\ Active(r)
    BY DEF DeployFailed, Fails, Ends, Forgotten, Go, Sets, Finish
  <2> QED
    BY <2>1, TheOneRun
<1>8. SecretsRecorded'
  <2>1. secret' = secret /\ overlapped' = overlapped /\ Active(r)
    BY DEF DeployFailed
  <2>2. ~overlapped => row'.spec.created = row.spec.created /\ row'.spec.copy = row.spec.copy
    <3>1. \/ row' = row
          \/ row'.spec.created = spec[r].created /\ row'.spec.copy = spec[r].copy
      BY DEF DeployFailed, Fails, Ends, Finish
    <3>2. ~overlapped => RowIsOf(r) /\ pc[r] \notin {"asked", "minted"}
      BY <2>1, TheOneRun DEF DeployFailed
    <3> QED
      BY <3>1, <3>2 DEF RowIsOf
  <2> QED
    BY <2>1, <2>2 DEF SecretsRecorded
<1>9. OneValue'
  BY DEF DeployFailed, Fails, Ends, Forgotten, Go, Sets, Finish, OneValue, OneRun,
     SecretsRecorded, Value, Service, Webs
<1> QED
  BY <1>1, <1>2, <1>3, <1>4, <1>5, <1>6, <1>7, <1>8, <1>9

LEMMA HealthCheckKeeps ==
  ASSUME TplIInv, TplAlone, NEW r \in Run, NEW B \in SUBSET Webs, HealthCheck(r, B)
  PROVE  TplIInv' /\ TplAlone'
<1> USE Manifests, NoRunIsNone, Verdicts DEF TplIInv, TplAlone, TplTypeOK, RowType, SpecType, Active
<1>1. TplTypeOK'
  BY TplTypeStep DEF TplNext, TplStep
<1>2. ClaimFits'
  BY DEF HealthCheck, Webs, Ends, Forgotten, Go, Sets, Finish, ClaimFits
<1>3. Progress'
  BY DEF HealthCheck, Webs, Ends, Forgotten, Go, Sets, Finish, Progress
<1>4. RunningRowHasARun'
  BY DEF HealthCheck, Webs, Ends, Forgotten, Go, Sets, Finish, RunningRowHasARun, ClaimFits,
     Finished, Place
<1>5. SucceededIsWhole'
  BY DEF HealthCheck, Webs, Ends, Forgotten, Go, Sets, Finish, SucceededIsWhole, ClaimFits,
     Progress, Finished, Place
<1>6. OneRun'
  BY DEF HealthCheck, Webs, Ends, Forgotten, Go, Sets, Finish, OneRun
<1>7. RowCurrent'
  <2> SUFFICES ASSUME ~overlapped', NEW q \in Run, Active(q)'
               PROVE  FALSE
    BY DEF RowCurrent
  <2>1. ~overlapped /\ Active(q) /\ q # r /\ Active(r)
    BY DEF HealthCheck, Webs, Ends, Forgotten, Go, Sets, Finish
  <2> QED
    BY <2>1, TheOneRun
<1>8. SecretsRecorded'
  <2>1. secret' = secret /\ overlapped' = overlapped /\ Active(r)
    BY DEF HealthCheck
  <2>2. ~overlapped => row'.spec.created = row.spec.created /\ row'.spec.copy = row.spec.copy
    <3>1. \/ row' = row
          \/ row'.spec.created = spec[r].created /\ row'.spec.copy = spec[r].copy
      BY DEF HealthCheck, Ends, Finish
    <3>2. ~overlapped => RowIsOf(r) /\ pc[r] \notin {"asked", "minted"}
      BY <2>1, TheOneRun DEF HealthCheck
    <3> QED
      BY <3>1, <3>2 DEF RowIsOf
  <2> QED
    BY <2>1, <2>2 DEF SecretsRecorded
<1>9. OneValue'
  BY DEF HealthCheck, Webs, Ends, Forgotten, Go, Sets, Finish, OneValue, OneRun,
     SecretsRecorded, Value, Service, Webs
<1> QED
  BY <1>1, <1>2, <1>3, <1>4, <1>5, <1>6, <1>7, <1>8, <1>9

LEMMA ThrowsKeeps ==
  ASSUME TplIInv, TplAlone, NEW r \in Run, Throws(r)
  PROVE  TplIInv' /\ TplAlone'
<1> USE Manifests, NoRunIsNone, Verdicts DEF TplIInv, TplAlone, TplTypeOK, RowType, SpecType, Active
<1>1. TplTypeOK'
  BY TplTypeStep DEF TplNext, TplStep
<1>2. ClaimFits'
  BY DEF Throws, Fails, Ends, Forgotten, Go, Sets, Finish, ClaimFits
<1>3. Progress'
  BY DEF Throws, Fails, Ends, Forgotten, Go, Sets, Finish, Progress
<1>4. RunningRowHasARun'
  BY DEF Throws, Fails, Ends, Forgotten, Go, Sets, Finish, RunningRowHasARun, ClaimFits,
     Finished, Place
<1>5. SucceededIsWhole'
  BY DEF Throws, Fails, Ends, Forgotten, Go, Sets, Finish, SucceededIsWhole, ClaimFits,
     Progress, Finished, Place
<1>6. OneRun'
  BY DEF Throws, Fails, Ends, Forgotten, Go, Sets, Finish, OneRun
<1>7. RowCurrent'
  <2> SUFFICES ASSUME ~overlapped', NEW q \in Run, Active(q)'
               PROVE  FALSE
    BY DEF RowCurrent
  <2>1. ~overlapped /\ Active(q) /\ q # r /\ Active(r)
    BY DEF Throws, Fails, Ends, Forgotten, Go, Sets, Finish
  <2> QED
    BY <2>1, TheOneRun
<1>8. SecretsRecorded'
  <2>1. secret' = secret /\ overlapped' = overlapped /\ Active(r)
    BY DEF Throws
  <2>2. ~overlapped => row'.spec.created = row.spec.created /\ row'.spec.copy = row.spec.copy
    BY <2>1, TheOneRun DEF Throws, Fails, Ends, Forgotten, Go, Sets, Finish, RowIsOf
  <2> QED
    BY <2>1, <2>2 DEF SecretsRecorded
<1>9. OneValue'
  BY DEF Throws, Fails, Ends, Forgotten, Go, Sets, Finish, OneValue, OneRun, SecretsRecorded,
     Value, Service, Webs
<1> QED
  BY <1>1, <1>2, <1>3, <1>4, <1>5, <1>6, <1>7, <1>8, <1>9

LEMMA DiesKeeps ==
  ASSUME TplIInv, TplAlone, Dies
  PROVE  TplIInv' /\ TplAlone'
<1> USE Manifests, NoRunIsNone, Verdicts DEF TplIInv, TplAlone, TplTypeOK, RowType, SpecType, Active
<1>1. TplTypeOK'
  BY TplTypeStep DEF TplNext, TplStep
<1>2. ClaimFits'
  BY DEF Dies, Boots, AbandonStale, ClaimFits
<1>3. Progress'
  BY DEF Dies, Boots, AbandonStale, Progress
<1>4. RunningRowHasARun'
  BY DEF Dies, Boots, AbandonStale, RunningRowHasARun, ClaimFits, Finished, Place
<1>5. SucceededIsWhole'
  BY DEF Dies, Boots, AbandonStale, SucceededIsWhole, ClaimFits, Progress, Finished, Place
<1>6. OneRun'
  BY DEF Dies, Boots, AbandonStale, OneRun
<1>7. RowCurrent'
  BY DEF Dies, Boots, AbandonStale, RowCurrent, OneRun, ClaimFits
<1>8. SecretsRecorded'
  BY DEF Dies, Boots, AbandonStale, SecretsRecorded, OneRun, RowCurrent, Progress, Value,
     Service, Webs
<1>9. OneValue'
  BY DEF Dies, Boots, AbandonStale, OneValue, OneRun, SecretsRecorded, Value, Service, Webs
<1> QED
  BY <1>1, <1>2, <1>3, <1>4, <1>5, <1>6, <1>7, <1>8, <1>9

LEMMA DiesCreatingKeeps ==
  ASSUME TplIInv, TplAlone, NEW r \in Run, DiesCreating(r)
  PROVE  TplIInv' /\ TplAlone'
<1> USE Manifests, NoRunIsNone, Verdicts DEF TplIInv, TplAlone, TplTypeOK, RowType, SpecType, Active
<1>1. TplTypeOK'
  BY TplTypeStep DEF TplNext, TplStep
<1>2. ClaimFits'
  BY DEF DiesCreating, Boots, AbandonStale, ClaimFits
<1>3. Progress'
  BY DEF DiesCreating, Boots, AbandonStale, Progress
<1>4. RunningRowHasARun'
  BY DEF DiesCreating, Boots, AbandonStale, RunningRowHasARun, ClaimFits, Finished, Place
<1>5. SucceededIsWhole'
  BY DEF DiesCreating, Boots, AbandonStale, SucceededIsWhole, ClaimFits, Progress, Finished, Place
<1>6. OneRun'
  BY DEF DiesCreating, Boots, AbandonStale, OneRun
<1>7. RowCurrent'
  BY DEF DiesCreating, Boots, AbandonStale, RowCurrent, OneRun, ClaimFits
<1>8. SecretsRecorded'
  BY DEF DiesCreating, Boots, AbandonStale, SecretsRecorded, OneRun, RowCurrent, Progress,
     Value, Service, Webs
<1>9. OneValue'
  BY DEF DiesCreating, Boots, AbandonStale, OneValue, OneRun, SecretsRecorded, Value, Service, Webs
<1> QED
  BY <1>1, <1>2, <1>3, <1>4, <1>5, <1>6, <1>7, <1>8, <1>9

LEMMA DiesWritingKeeps ==
  ASSUME TplIInv, TplAlone, NEW r \in Run, DiesWriting(r)
  PROVE  TplIInv' /\ TplAlone'
<1> USE Manifests, NoRunIsNone, Verdicts DEF TplIInv, TplAlone, TplTypeOK, RowType, SpecType, Active
<1>1. TplTypeOK'
  BY TplTypeStep DEF TplNext, TplStep
<1>2. ClaimFits'
  BY DEF DiesWriting, Boots, AbandonStale, Written, Value, Name, ClaimFits
<1>3. Progress'
  BY DEF DiesWriting, Boots, AbandonStale, Written, Value, Name, Progress
<1>4. RunningRowHasARun'
  BY DEF DiesWriting, Boots, AbandonStale, Written, Value, Name, RunningRowHasARun, ClaimFits,
     Finished, Place
<1>5. SucceededIsWhole'
  BY DEF DiesWriting, Boots, AbandonStale, Written, Value, Name, SucceededIsWhole, ClaimFits,
     Progress, Finished, Place
<1>6. OneRun'
  BY DEF DiesWriting, Boots, AbandonStale, Written, Value, Name, OneRun
<1>7. RowCurrent'
  BY DEF DiesWriting, Boots, AbandonStale, Written, Value, Name, RowCurrent, OneRun, ClaimFits
<1>8. SecretsRecorded'
  <2> SUFFICES ASSUME ~overlapped', NEW s \in Kind, NEW c \in 1..MaxCopies, secret'[<<s, c>>] # NoRun
               PROVE  s \in row'.spec.created \cap Webs /\ c = row'.spec.copy
    BY DEF SecretsRecorded
  <2>1. Active(r) /\ ~overlapped /\ spec[r].created = Kind
    BY DEF DiesWriting, Progress, Boots
  <2>2. RowIsOf(r)
    BY <2>1, TheOneRun
  <2>3. row'.spec.created = Kind /\ row'.spec.copy = spec[r].copy /\ row.spec.copy = spec[r].copy
    BY <2>1, <2>2 DEF DiesWriting, Boots, AbandonStale, Written, Value, Name, RowIsOf
  <2>4. secret[<<s, c>>] # NoRun \/ \E t \in Webs : <<s, c>> = <<t, spec[r].copy>>
    BY DEF DiesWriting, Boots, AbandonStale, Written, Value, Name, Service
  <2> QED
    BY <2>1, <2>2, <2>3, <2>4 DEF SecretsRecorded, Webs
<1>9. OneValue'
  <2>1. \A n \in Service : secret'[n] = secret[n] \/ secret'[n] = Value(r)
    BY DEF DiesWriting, Written
  <2>2. overlapped' = overlapped /\ Active(r)
    BY DEF DiesWriting, Boots
  <2>3. ~overlapped => \A n \in Service : secret'[n] # NoRun => secret'[n] = Value(r)
    BY <2>1, <2>2 DEF OneValue
  <2>4. ASSUME ~overlapped, NEW q \in Run, Active(q)'
        PROVE  q = r /\ Value(q)' = Value(r)
    BY <2>2, <2>4, TheOneRun DEF DiesWriting, Boots, AbandonStale, Written, Value, Name
  <2> QED
    BY <2>2, <2>3, <2>4 DEF OneValue
<1> QED
  BY <1>1, <1>2, <1>3, <1>4, <1>5, <1>6, <1>7, <1>8, <1>9

LEMMA SomeoneAddsKeeps ==
  ASSUME TplIInv, TplAlone, NEW s \in Kind, SomeoneAdds(s)
  PROVE  TplIInv' /\ TplAlone'
<1> USE Manifests, NoRunIsNone, Verdicts DEF TplIInv, TplAlone, TplTypeOK, RowType, SpecType, Active
<1>1. TplTypeOK'
  BY TplTypeStep DEF TplNext, TplStep
<1>2. ClaimFits'
  BY DEF SomeoneAdds, ClaimFits
<1>3. Progress'
  BY DEF SomeoneAdds, Progress
<1>4. RunningRowHasARun'
  BY DEF SomeoneAdds, RunningRowHasARun, ClaimFits, Finished, Place
<1>5. SucceededIsWhole'
  BY DEF SomeoneAdds, SucceededIsWhole, ClaimFits, Progress, Finished, Place
<1>6. OneRun'
  BY DEF SomeoneAdds, OneRun
<1>7. RowCurrent'
  BY DEF SomeoneAdds, RowCurrent, RowIsOf
<1>8. SecretsRecorded'
  BY DEF SomeoneAdds, SecretsRecorded, OneRun, RowCurrent, Progress, Value, Service, Webs
<1>9. OneValue'
  BY DEF SomeoneAdds, OneValue, OneRun, SecretsRecorded, Value, Service, Webs
<1> QED
  BY <1>1, <1>2, <1>3, <1>4, <1>5, <1>6, <1>7, <1>8, <1>9

LEMMA ServiceGoneKeeps ==
  ASSUME TplIInv, TplAlone, NEW n \in Service, ServiceGone(n)
  PROVE  TplIInv' /\ TplAlone'
<1> USE Manifests, NoRunIsNone, Verdicts DEF TplIInv, TplAlone, TplTypeOK, RowType, SpecType, Active
<1>1. TplTypeOK'
  BY TplTypeStep DEF TplNext, TplStep
<1>2. ClaimFits'
  BY DEF ServiceGone, ClaimFits
<1>3. Progress'
  BY DEF ServiceGone, Progress
<1>4. RunningRowHasARun'
  BY DEF ServiceGone, RunningRowHasARun, ClaimFits, Finished, Place
<1>5. SucceededIsWhole'
  BY DEF ServiceGone, SucceededIsWhole, ClaimFits, Progress, Finished, Place
<1>6. OneRun'
  BY DEF ServiceGone, OneRun
<1>7. RowCurrent'
  BY DEF ServiceGone, RowCurrent, RowIsOf
<1>8. SecretsRecorded'
  BY DEF ServiceGone, SecretsRecorded, OneRun, RowCurrent, Progress, Value, Service, Webs
<1>9. OneValue'
  BY DEF ServiceGone, OneValue, OneRun, SecretsRecorded, Value, Service, Webs
<1> QED
  BY <1>1, <1>2, <1>3, <1>4, <1>5, <1>6, <1>7, <1>8, <1>9

LEMMA TplInvInit == TplInit => TplIInv /\ TplAlone
<1> SUFFICES ASSUME TplInit PROVE TplIInv /\ TplAlone
  OBVIOUS
<1>1. TplTypeOK
  BY TplTypeInit
<1>2. ClaimFits /\ Progress /\ RunningRowHasARun /\ SucceededIsWhole
  BY NoRunIsNone DEF TplInit, ClaimFits, Progress, RunningRowHasARun, SucceededIsWhole
<1>3. OneRun /\ RowCurrent /\ OneValue
  BY DEF TplInit, OneRun, RowCurrent, OneValue, Active
<1>4. SecretsRecorded
  BY DEF TplInit, SecretsRecorded, Service
<1> QED
  BY <1>1, <1>2, <1>3, <1>4 DEF TplIInv, TplAlone

LEMMA TplInvStutters ==
  ASSUME TplIInv, TplAlone, UNCHANGED tplVars
  PROVE  TplIInv' /\ TplAlone'
<1>1. TplIInv'
  BY DEF tplVars, TplIInv, TplTypeOK, ClaimFits, Progress, RunningRowHasARun, SucceededIsWhole,
     Active
<1>2. OneRun' /\ RowCurrent'
  BY DEF tplVars, TplAlone, OneRun, RowCurrent, RowIsOf, Active
<1>3. SecretsRecorded' /\ OneValue'
  BY DEF tplVars, TplAlone, SecretsRecorded, OneValue, Active, Value
<1> QED
  BY <1>1, <1>2, <1>3 DEF TplAlone

LEMMA TplInvStep == TplIInv /\ TplAlone /\ [TplNext]_tplVars => TplIInv' /\ TplAlone'
<1> SUFFICES ASSUME TplIInv, TplAlone, [TplNext]_tplVars
             PROVE  TplIInv' /\ TplAlone'
  OBVIOUS
<1>1. ASSUME NEW r \in Run, TplStep(r)
      PROVE  TplIInv' /\ TplAlone'
  BY <1>1, MintsKeeps, ClaimsKeeps, OverQuotaKeeps, CreateServiceKeeps, NameTakenKeeps,
     WriteVariablesKeeps, DatabasesReadyKeeps, DatabaseNotReadyKeeps, DeployServiceKeeps,
     DeployFailedKeeps, HealthCheckKeeps, ThrowsKeeps DEF TplStep
<1> QED
  BY <1>1, AsksKeeps, DiesCreatingKeeps, DiesWritingKeeps, DiesKeeps, SomeoneAddsKeeps,
     ServiceGoneKeeps, TplInvStutters DEF TplNext

LEMMA TplInvHolds == TplSpec => [](TplIInv /\ TplAlone)
BY TplInvInit, TplInvStep, PTL DEF TplSpec

(* `succeeded` stands for services made and found healthy by the run whose *)
(* claim the row carries, for every manifest and however many creates      *)
(* share the id.                                                           *)
THEOREM VerdictsAreTrue == TplSpec => []SucceededIsWhole
<1>1. TplIInv => SucceededIsWhole
  BY DEF TplIInv
<1> QED
  BY <1>1, TplInvHolds, PTL

(* A row says `running` only while the run whose claim it carries is live. *)
THEOREM RunningRowsAreRun == TplSpec => []RunningRowHasARun
<1>1. TplIInv => RunningRowHasARun
  BY DEF TplIInv
<1> QED
  BY <1>1, TplInvHolds, PTL

(* The row is true of its run and of its services at every poll.          *)
THEOREM RowsAreTrue == TplSpec => []RowIsTrue
<1>1. SucceededIsWhole /\ RunningRowHasARun => RowIsTrue
  BY DEF RowIsTrue
<1> QED
  BY <1>1, VerdictsAreTrue, RunningRowsAreRun, PTL

\* what a step may do to the secrets
Keeps ==
  ~overlapped' => \A n \in present \cap present' : secret[n] # NoRun => secret'[n] = secret[n]

LEMMA StepKeepsSecrets == TplIInv /\ TplAlone /\ [TplNext]_tplVars => Keeps
<1> SUFFICES ASSUME TplIInv, TplAlone, [TplNext]_tplVars
             PROVE  Keeps
  OBVIOUS
<1>1. present \subseteq Service /\ secret \in [Service -> Run \cup {NoRun}]
  BY DEF TplIInv, TplTypeOK
<1>2. ASSUME UNCHANGED secret PROVE Keeps
  BY <1>2 DEF Keeps
<1>3. ASSUME NEW r \in Run, Active(r), UNCHANGED overlapped,
             \A n \in Service : secret'[n] = secret[n] \/ secret'[n] = Value(r)
      PROVE  Keeps
  BY <1>1, <1>3 DEF Keeps, TplAlone, OneValue
<1>4. ASSUME NEW r \in Run, WriteVariables(r)
      PROVE  Keeps
  BY <1>3, <1>4 DEF WriteVariables, Written, Active
<1>5. ASSUME NEW r \in Run, DiesWriting(r)
      PROVE  Keeps
  BY <1>3, <1>5 DEF DiesWriting, Boots, Written, Active
<1>6. ASSUME NEW n \in Service, ServiceGone(n)
      PROVE  Keeps
  BY <1>1, <1>6 DEF ServiceGone, Keeps
<1>7. ASSUME NEW r \in Run, TplStep(r)
      PROVE  Keeps
  BY <1>2, <1>4, <1>7 DEF TplStep, Mints, Claims, OverQuota, CreateService, NameTaken,
     DatabasesReady,
     DatabaseNotReady, DeployService, DeployFailed, HealthCheck, Throws
<1>8. CASE TplNext
  BY <1>2, <1>5, <1>6, <1>7, <1>8 DEF TplNext, Asks, DiesCreating, Dies, SomeoneAdds
<1>9. CASE UNCHANGED tplVars
  BY <1>2, <1>9 DEF tplVars
<1> QED
  BY <1>8, <1>9

(* A resume, alone, never rotates a generated value that a service was     *)
(* given, wherever the attempts before it stopped or died.                 *)
THEOREM ResumesKeepSecrets == TplSpec => SecretsKept
<1>1. TplIInv /\ TplAlone /\ [TplNext]_tplVars => [Keeps]_tplVars
  BY StepKeepsSecrets
<1>2. TplSpec => [][Keeps]_tplVars
  BY TplInvHolds, <1>1, PTL DEF TplSpec
<1> QED
  BY <1>2 DEF SecretsKept, Keeps
=============================================================================
