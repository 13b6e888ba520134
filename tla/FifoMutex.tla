------------------------------ MODULE FifoMutex ------------------------------
(***************************************************************************)
(* What the scheduler's operation lock promises: a set of named keys, each *)
(* held by at most one operation, granted in the order in which operations *)
(* asked for them.  An operation names every key it wants at once and is   *)
(* let in when nobody who asked before it still has an interest in any of  *)
(* those keys.  OpLock shows that the promise chains of the scheduler      *)
(* implement this, and Scheduler is composed with it.                      *)
(***************************************************************************)
CONSTANTS Key,    \* service keys, branch keys and project keys
          Op      \* acquisitions that can be outstanding at once

VARIABLES need,     \* the keys an operation asked for and has not given back
          inside,   \* the operations whose body may run
          older     \* <<a, b>>: both outstanding, and a asked before b

lockVars == <<need, inside, older>>

LockTypeOK ==
  /\ need \in [Op -> SUBSET Key]
  /\ inside \in SUBSET Op
  /\ older \in SUBSET (Op \X Op)

Outstanding == {o \in Op : need[o] # {}}
Contend(a, b) == need[a] \cap need[b] # {}
Taken(k) == \E o \in Op : k \in need[o]

LockInit ==
  /\ need = [o \in Op |-> {}]
  /\ inside = {}
  /\ older = {}

(* Ask for the keys ks; the place in line is reserved by the call itself. *)
Arrive(o, ks) ==
  /\ need[o] = {}
  /\ ks # {}
  /\ need' = [need EXCEPT ![o] = ks]
  /\ older' = older \cup (Outstanding \X {o})
  /\ UNCHANGED inside

MayEnter(o) ==
  /\ need[o] # {}
  /\ \A a \in Op : <<a, o>> \in older => ~Contend(a, o)

Enter(o) ==
  /\ o \notin inside
  /\ MayEnter(o)
  /\ inside' = inside \cup {o}
  /\ UNCHANGED <<need, older>>

(* Ask and enter in one step; only possible when nobody has asked before. *)
Seize(o, ks) ==
  /\ \A k \in ks : ~Taken(k)
  /\ need[o] = {}
  /\ ks # {}
  /\ need' = [need EXCEPT ![o] = ks]
  /\ older' = older \cup (Outstanding \X {o})
  /\ inside' = inside \cup {o}

Leave(o) ==
  /\ o \in inside
  /\ need' = [need EXCEPT ![o] = {}]
  /\ inside' = inside \ {o}
  /\ older' = {p \in older : o \notin {p[1], p[2]}}

LockNext ==
  \E o \in Op :
    \/ \E ks \in SUBSET Key : Arrive(o, ks) \/ Seize(o, ks)
    \/ Enter(o)
    \/ Leave(o)

LockSpec == LockInit /\ [][LockNext]_lockVars

(* No key is ever inside two operations at once. *)
Exclusive ==
  \A a, b \in inside : a # b => ~Contend(a, b)
=============================================================================
