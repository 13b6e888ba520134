-------------------------- MODULE ManagedServices --------------------------
(***************************************************************************)
(* The managed databases of one project (src/engine.ts): a registration    *)
(* that the project's branches share, and on each branch that carries it a *)
(* row, a container of that name and a directory named by the data id.     *)
(* `services add` and `remove` act on one branch, `services rename` on all *)
(* of them, one docker call after the other, and takes back what it has    *)
(* done when one fails.  Compute groups are renamed by the same code.      *)
(* The operation lock is used as FifoMutex has it, without its queue: what *)
(* is said here is safety.                                                 *)
(***************************************************************************)
EXTENDS Naturals

CONSTANTS
  SvBranch, \* branches of the project
  SvName,   \* names of services
  SvOp,     \* operations that may run at once
  MaxId,    \* bound on the data ids that are minted
  MaxFaults \* bound on docker calls that fail and on deaths

ASSUME SvAssumption ==
  /\ MaxId \in Nat /\ MaxFaults \in Nat /\ "*" \notin SvName
  /\ SvBranch # {} /\ SvName # {}

VARIABLES
  reg,    \* managedServices, by name: its data id, 0 when there is none
  svRow,  \* branch.managed, by branch and name: the id it was made with
  cont,   \* docker: by branch and container name, the id it mounts
  bytes,  \* data directories of a branch
  op,     \* operations under way
  ids,    \* data ids minted
  faults,
  torn,   \* history: rows whose container a removal has taken
  stuck   \* history: rows whose container was left under another name

diskVars == <<cont, bytes>>
keptVars == <<reg, svRow>>
svVars == <<reg, svRow, cont, bytes, op, ids, faults, torn, stuck>>

AtAdd == {"mkdir", "run", "row"}
AtRemove == {"rm", "rmdir", "drop"}
AtRename == {"move", "undo"}
InBody == AtAdd \cup AtRemove \cup AtRename

NoOp == [at |-> "idle"]
Ops(L, B) == [at : L, br : B, name : SvName, to : SvName, id : 0..MaxId, had : BOOLEAN,
              todo : SUBSET SvBranch, done : SUBSET SvBranch]
Asked(what, b, n, m) == [at |-> what, br |-> b, name |-> n, to |-> m, id |-> 0, had |-> FALSE, todo |-> {}, done |-> {}]

SvTypeOK ==
  /\ reg \in [SvName -> 0..MaxId]
  /\ svRow \in [SvBranch -> [SvName -> 0..MaxId]]
  /\ cont \in [SvBranch -> [SvName -> 0..MaxId]]
  /\ bytes \in [SvBranch -> SUBSET (0..MaxId)]
  /\ op \in [SvOp -> {NoOp} \cup Ops(AtAdd \cup AtRemove \cup {"add?", "remove?"}, SvBranch)
                           \cup Ops(AtRename \cup {"rename?"}, {"all"})]
  /\ ids \in 0..MaxId /\ faults \in 0..MaxFaults
  /\ torn \subseteq SvBranch \X SvName
  /\ stuck \subseteq SvBranch \X SvName

SvInit ==
  /\ reg = [n \in SvName |-> 0]
  /\ svRow = [b \in SvBranch |-> [n \in SvName |-> 0]]
  /\ cont = [b \in SvBranch |-> [n \in SvName |-> 0]]
  /\ bytes = [b \in SvBranch |-> {}]
  /\ op = [o \in SvOp |-> NoOp]
  /\ ids = 0 /\ faults = 0 /\ torn = {} /\ stuck = {}
-----------------------------------------------------------------------------
(* The lock.  An add holds its branch and the provision chain, a removal   *)
(* its service on its branch, a rename every branch and its service on     *)
(* every one.                                                              *)

SvKeys(o) ==
  CASE op[o].at \in AtAdd \cup {"add?"} -> {<<op[o].br, "*">>}
    [] op[o].at \in AtRemove \cup {"remove?"} -> {<<op[o].br, op[o].name>>}
    [] op[o].at \in AtRename \cup {"rename?"} -> SvBranch \X {"*", op[o].name}
    [] OTHER -> {}

Within(o) == op[o].at \in InBody

LockFree(o) == \A p \in SvOp \ {o} : Within(p) => SvKeys(p) \cap SvKeys(o) = {}

ChainFree == \A p \in SvOp : op[p].at \notin AtAdd

Fault == faults < MaxFaults /\ faults' = faults + 1

SvLeaves(o) == op' = [op EXCEPT ![o] = NoOp]

Carriers(n) == {b \in SvBranch : svRow[b][n] # 0}

SvAt(o, l) == op' = [op EXCEPT ![o].at = l]
-----------------------------------------------------------------------------
(* Requests.  A removal resolves its service before the lock.              *)

AskAdd(o, b, n) ==
  /\ op[o].at = "idle"
  /\ op' = [op EXCEPT ![o] = Asked("add?", b, n, n)]
  /\ UNCHANGED <<keptVars, diskVars, ids, faults, torn, stuck>>

AskRemove(o, b, n) ==
  /\ op[o].at = "idle" /\ reg[n] # 0 /\ svRow[b][n] # 0
  /\ op' = [op EXCEPT ![o] = Asked("remove?", b, n, n)]
  /\ UNCHANGED <<keptVars, diskVars, ids, faults, torn, stuck>>

AskRename(o, n, m) ==
  /\ op[o].at = "idle" /\ reg[n] # 0 /\ m # n
  /\ op' = [op EXCEPT ![o] = Asked("rename?", "all", n, m)]
  /\ UNCHANGED <<keptVars, diskVars, ids, faults, torn, stuck>>
-----------------------------------------------------------------------------
(* addManagedService: the registration that there is, or a new one; the    *)
(* directory, `docker run`, and the row with, if new, its registration.    *)

AddBegins(o) ==
  LET b == op[o].br
      n == op[o].name
  IN
  /\ op[o].at = "add?" /\ LockFree(o) /\ ChainFree
  /\ IF reg[n] = 0
     THEN /\ ids < MaxId /\ ids' = ids + 1
          /\ op' = [op EXCEPT ![o].at = "mkdir", ![o].id = ids + 1]
     ELSE /\ UNCHANGED ids
          /\ IF svRow[b][n] # 0 THEN SvLeaves(o)
             ELSE op' = [op EXCEPT ![o].at = "mkdir", ![o].id = reg[n], ![o].had = TRUE]
  /\ UNCHANGED <<keptVars, diskVars, faults, torn, stuck>>

EnsureManagedDirs(o) ==
  /\ op[o].at = "mkdir" /\ SvAt(o, "run")
  /\ bytes' = [bytes EXCEPT ![op[o].br] = @ \cup {op[o].id}]
  /\ UNCHANGED <<keptVars, cont, ids, faults, torn, stuck>>

ManagedProvision(o) ==
  /\ op[o].at = "run" /\ cont[op[o].br][op[o].name] = 0
  /\ SvAt(o, "row")
  /\ cont' = [cont EXCEPT ![op[o].br][op[o].name] = op[o].id]
  /\ UNCHANGED <<keptVars, bytes, ids, faults, torn, stuck>>

(* `docker run` fails, on a name that is taken or for no such reason, when *)
(* a container may be left.  What was made is not taken back.              *)
AddFails(o, left) ==
  LET b == op[o].br
      n == op[o].name
  IN
  /\ op[o].at = "run"
  /\ IF cont[b][n] # 0
     THEN ~left /\ UNCHANGED <<faults, cont>>
     ELSE Fault /\ cont' = [cont EXCEPT ![b][n] = IF left THEN op[o].id ELSE 0]
  /\ SvLeaves(o)
  /\ UNCHANGED <<keptVars, bytes, ids, torn, stuck>>

AddCommits(o) ==
  LET b == op[o].br
      n == op[o].name
  IN
  /\ op[o].at = "row"
  /\ reg' = IF op[o].had THEN reg ELSE [reg EXCEPT ![n] = op[o].id]
  /\ svRow' = [svRow EXCEPT ![b][n] = op[o].id]
  /\ torn' = torn \ {<<b, n>>} /\ stuck' = stuck \ {<<b, n>>}
  /\ SvLeaves(o)
  /\ UNCHANGED <<diskVars, ids, faults>>
-----------------------------------------------------------------------------
(* removeManagedService: the container is proved gone, then the directory  *)
(* goes, then the row, and with the last row the registration.             *)

RemoveBegins(o) ==
  LET n == op[o].name IN
  /\ op[o].at = "remove?" /\ LockFree(o)
  /\ IF reg[n] # 0 /\ svRow[op[o].br][n] # 0
     THEN op' = [op EXCEPT ![o].at = "rm", ![o].id = reg[n]]
     ELSE SvLeaves(o)
  /\ UNCHANGED <<keptVars, diskVars, ids, faults, torn, stuck>>

ManagedDestroy(o) ==
  /\ op[o].at = "rm" /\ SvAt(o, "rmdir")
  /\ cont' = [cont EXCEPT ![op[o].br][op[o].name] = 0]
  /\ torn' = torn \cup {<<op[o].br, op[o].name>>}
  /\ UNCHANGED <<keptVars, bytes, ids, faults, stuck>>

RemoveDirectory(o) ==
  /\ op[o].at = "rmdir" /\ SvAt(o, "drop")
  /\ bytes' = [bytes EXCEPT ![op[o].br] = @ \ {op[o].id}]
  /\ UNCHANGED <<keptVars, cont, ids, faults, torn, stuck>>

(* The removal fails, or docker cannot say whether it did.                 *)
RemovalFails(o, landed) ==
  LET b == op[o].br
      n == op[o].name
  IN
  /\ op[o].at \in {"rm", "rmdir"} /\ Fault /\ SvLeaves(o)
  /\ IF landed
     THEN op[o].at = "rm" /\ cont' = [cont EXCEPT ![b][n] = 0] /\ torn' = torn \cup {<<b, n>>}
     ELSE UNCHANGED <<cont, torn>>
  /\ UNCHANGED <<keptVars, bytes, ids, stuck>>

RetireRegistration(n, b) ==
  reg' = IF Carriers(n) \subseteq {b} THEN [reg EXCEPT ![n] = 0] ELSE reg

RemoveCommits(o) ==
  LET b == op[o].br
      n == op[o].name
  IN
  /\ op[o].at = "drop" /\ SvLeaves(o)
  /\ svRow' = [svRow EXCEPT ![b][n] = 0]
  /\ RetireRegistration(n, b)
  /\ torn' = torn \ {<<b, n>>}
  /\ UNCHANGED <<diskVars, ids, faults, stuck>>
-----------------------------------------------------------------------------
(* renameManagedService: rename the containers that still have the old     *)
(* name, one after the other, then all of the records at once.             *)

RenameBegins(o) ==
  LET n == op[o].name IN
  /\ op[o].at = "rename?" /\ LockFree(o)
  /\ IF reg[n] # 0 /\ reg[op[o].to] = 0
     THEN op' = [op EXCEPT ![o].at = "move", ![o].todo = Carriers(n)]
     ELSE SvLeaves(o)
  /\ UNCHANGED <<keptVars, diskVars, ids, faults, torn, stuck>>

Moved(b, n, m) == [cont EXCEPT ![b] = [@ EXCEPT ![n] = 0, ![m] = cont[b][n]]]

RenameNeeded(b, n) == cont[b][n] # 0

RenameContainer(o, b) ==
  LET n == op[o].name
      m == op[o].to
  IN
  /\ op[o].at = "move" /\ b \in op[o].todo
  /\ IF RenameNeeded(b, n)
     THEN /\ cont[b][m] = 0 /\ cont' = Moved(b, n, m)
          /\ op' = [op EXCEPT ![o].todo = @ \ {b}, ![o].done = @ \cup {b}]
     ELSE op' = [op EXCEPT ![o].todo = @ \ {b}] /\ UNCHANGED cont
  /\ UNCHANGED <<keptVars, bytes, ids, faults, torn, stuck>>

(* A probe does not answer or docker refuses; or it fails and has done it. *)
RenameFails(o, b, landed) ==
  LET n == op[o].name
      m == op[o].to
  IN
  /\ op[o].at = "move" /\ b \in op[o].todo /\ SvAt(o, "undo")
  /\ IF landed
     THEN /\ RenameNeeded(b, n) /\ cont[b][m] = 0 /\ Fault
          /\ cont' = Moved(b, n, m) /\ stuck' = stuck \cup {<<b, n>>}
     ELSE /\ IF RenameNeeded(b, n) /\ cont[b][m] # 0 THEN UNCHANGED faults ELSE Fault
          /\ UNCHANGED <<cont, stuck>>
  /\ UNCHANGED <<keptVars, bytes, ids, torn>>

\* variant: what was renamed is not renamed back
UndoForgotten(o, b) ==
  /\ op[o].at = "undo" /\ b \in op[o].done
  /\ op' = [op EXCEPT ![o].done = @ \ {b}]
  /\ UNCHANGED <<keptVars, diskVars, ids, faults, torn, stuck>>

UndoRename(o, b) ==
  /\ op[o].at = "undo" /\ b \in op[o].done
  /\ op' = [op EXCEPT ![o].done = @ \ {b}]
  /\ cont' = Moved(b, op[o].to, op[o].name)
  /\ UNCHANGED <<keptVars, bytes, ids, faults, torn, stuck>>

UndoFails(o, b) ==
  /\ op[o].at = "undo" /\ b \in op[o].done /\ Fault
  /\ op' = [op EXCEPT ![o].done = @ \ {b}]
  /\ stuck' = stuck \cup {<<b, op[o].name>>}
  /\ UNCHANGED <<keptVars, diskVars, ids, torn>>

RenameFailure(o) ==
  /\ op[o].at = "undo" /\ op[o].done = {}
  /\ SvLeaves(o)
  /\ UNCHANGED <<keptVars, diskVars, ids, faults, torn, stuck>>

(* What is on record of the rows goes with them; a row that finds its      *)
(* container under the new name is mended.                                 *)
Renamed(R, n, m) == {r \in R : r[2] # n} \cup {<<r[1], m>> : r \in {q \in R : q[2] = n}}

\* variant: the first branch is enough
FirstRenamed(o) == op[o].todo = {} \/ op[o].done # {}

AllRenamed(o) == op[o].todo = {}

RenameCommits(o) ==
  LET n == op[o].name
      m == op[o].to
  IN
  /\ op[o].at = "move" /\ AllRenamed(o)
  /\ reg' = [reg EXCEPT ![m] = reg[n], ![n] = 0]
  /\ svRow' = [b \in SvBranch |-> IF svRow[b][n] = 0 THEN svRow[b]
                                  ELSE [svRow[b] EXCEPT ![m] = svRow[b][n], ![n] = 0]]
  /\ torn' = Renamed(torn, n, m)
  /\ stuck' = Renamed(stuck, n, m) \ {r \in Carriers(n) \X {m} : cont[r[1]][m] = svRow[r[1]][n]}
  /\ SvLeaves(o)
  /\ UNCHANGED <<diskVars, ids, faults>>
-----------------------------------------------------------------------------
(* The daemon dies between two steps of an operation.                      *)
SvDies ==
  /\ Fault
  /\ \E o \in SvOp : Within(o)
  /\ stuck' = stuck \cup UNION {op[o].done \X {op[o].name} : o \in {p \in SvOp : Within(p)}}
  /\ op' = [o \in SvOp |-> NoOp]
  /\ UNCHANGED <<keptVars, diskVars, ids, torn>>

SvNext ==
  \/ \E o \in SvOp :
       \/ \E b \in SvBranch, n \in SvName : AskAdd(o, b, n) \/ AskRemove(o, b, n)
       \/ \E n, m \in SvName : AskRename(o, n, m)
       \/ AddBegins(o) \/ EnsureManagedDirs(o) \/ ManagedProvision(o) \/ AddCommits(o)
       \/ \E left \in BOOLEAN : AddFails(o, left)
       \/ RemoveBegins(o) \/ ManagedDestroy(o) \/ RemoveDirectory(o) \/ RemoveCommits(o)
       \/ \E landed \in BOOLEAN : RemovalFails(o, landed)
       \/ RenameBegins(o) \/ RenameFailure(o) \/ RenameCommits(o)
       \/ \E b \in SvBranch :
            \/ RenameContainer(o, b) \/ UndoRename(o, b) \/ UndoFails(o, b)
            \/ \E landed \in BOOLEAN : RenameFails(o, b, landed)
  \/ SvDies

SvSpec == SvInit /\ [][SvNext]_svVars
-----------------------------------------------------------------------------
(* Properties.                                                             *)

\* the row's container is on its way to another name
Moving(b, n) ==
  \E o \in SvOp : op[o].at \in AtRename /\ op[o].name = n /\ b \in op[o].done

(* A row finds its own container under its own name, and its bytes with    *)
(* it, whatever renames, removals, failed calls and deaths came before,    *)
(* but for rows that a removal has begun to demolish, and rows that an     *)
(* answer or a death left named: those are the ones that a retry mends.    *)
RowsFindTheirContainers ==
  \A b \in SvBranch, n \in SvName :
    svRow[b][n] # 0 /\ <<b, n>> \notin torn \cup stuck /\ ~Moving(b, n)
      => cont[b][n] = svRow[b][n] /\ svRow[b][n] \in bytes[b]

(* A rename whose records move has moved everything: on no branch is a row *)
(* or a container of the service left at the old name, and the containers  *)
(* stand under the new one, also when an earlier attempt stopped half way. *)
RenameIsWhole ==
  [][\A n, m \in SvName :
       n # m /\ reg[n] # 0 /\ reg'[m] = reg[n] /\ reg'[n] = 0
         => \A b \in SvBranch :
              /\ svRow'[b][n] = 0
              /\ svRow[b][n] # 0
                   => cont[b][n] = 0 /\ (<<b, n>> \in torn \cup stuck \/ cont[b][m] = svRow[b][n])]_svVars
=============================================================================
