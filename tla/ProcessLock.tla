---------------------------- MODULE ProcessLock ----------------------------
(***************************************************************************)
(* The data directory's lock (src/state.ts, acquireLock and releaseLock):  *)
(* a file created exclusively and touched by its holder's heartbeat.  A    *)
(* start that finds it judges by its age: a stale one is removed, a fresh  *)
(* one is waited for until the start's deadline.  The starts, stops and    *)
(* kills of daemons, and of the command that resets the admin, on one      *)
(* directory; a process may be paused at any step.                         *)
(*                                                                         *)
(* Time is counted in steps of the heartbeat's period or finer.  A process *)
(* that is not paused is never late: time does not pass what it has to do. *)
(***************************************************************************)
EXTENDS Naturals

CONSTANTS Proc,
          StaleAfter,     \* a lock older than this is dead (60 s)
          Timeout,   \* a start gives up after this (60 s); the reset command at once
          Beat,      \* the heartbeat (20 s)
          RetryWait, \* between two tries (2 s)
          MaxTime    \* bound on the clock

ASSUME LockAssumption ==
  /\ {StaleAfter, Timeout, Beat, RetryWait} \subseteq Nat \ {0} /\ MaxTime \in Nat
  /\ Timeout >= StaleAfter \* the defaults are equal
  /\ "nobody" \notin Proc

VARIABLES
  lockNow,
  lockFile, \* who created it, when it was last touched; or none
  proc,     \* each process
  misjudged \* history: someone has removed another file than the one it had looked at

lockVars == <<lockNow, lockFile, proc, misjudged>>

NoHolder == "nobody"
NoFile == [by |-> NoHolder, mtime |-> 0]
Off == [pc |-> "off", start |-> 0, oneShot |-> FALSE, seen |-> NoFile, takeovers |-> 0, due |-> 0,
        awake |-> TRUE, slept |-> FALSE]

LockFileType == [by : Proc \cup {NoHolder}, mtime : 0..MaxTime]
LockPc == {"off", "open", "stat", "judge", "unlink", "wait", "refused", "runs", "reads", "unlinks"}

LockTypeOK ==
  /\ lockNow \in 0..MaxTime
  /\ lockFile \in LockFileType
  /\ proc \in [Proc -> [pc : LockPc, start : 0..MaxTime, oneShot : BOOLEAN, seen : LockFileType, takeovers : Nat,
                        due : Nat, awake : BOOLEAN, slept : BOOLEAN]]
  /\ misjudged \in BOOLEAN

LockInit == lockNow = 0 /\ lockFile = NoFile /\ proc = [p \in Proc |-> Off] /\ misjudged = FALSE
-----------------------------------------------------------------------------
Doing(p, pc) == proc[p].pc = pc /\ proc[p].awake

Age(file) == lockNow - file.mtime

Holds(p) == proc[p].pc \in {"runs", "reads", "unlinks"} \* it takes the directory to be its own

(* A daemon, or the reset command, which tries once.                       *)
Starts(p, oneShot) ==
  /\ proc[p].pc \in {"off", "refused"}
  /\ proc' = [proc EXCEPT ![p] = [Off EXCEPT !.pc = "open", !.start = lockNow, !.oneShot = oneShot]]
  /\ UNCHANGED <<lockNow, lockFile, misjudged>>

(* The exclusive create; its maker's heart beats from now on.              *)
OpenExclusive(p) ==
  /\ Doing(p, "open")
  /\ IF lockFile = NoFile
     THEN /\ lockFile' = [by |-> p, mtime |-> lockNow]
          /\ proc' = [proc EXCEPT ![p] = [Off EXCEPT !.pc = "runs", !.due = lockNow + Beat]]
     ELSE /\ proc' = [proc EXCEPT ![p].pc = "stat"] /\ UNCHANGED lockFile
  /\ UNCHANGED <<lockNow, misjudged>>

(* The file may have gone since: then the next try is made at once.        *)
StatKey(p) ==
  /\ Doing(p, "stat")
  /\ proc' = [proc EXCEPT ![p].pc = IF lockFile = NoFile THEN "open" ELSE "judge", ![p].seen = lockFile]
  /\ UNCHANGED <<lockNow, lockFile, misjudged>>

Least(a, b) == IF a <= b THEN a ELSE b

\* variant: the deadline comes a moment before the lock that was fresh at the start is stale
EarlyDeadline(p) == proc[p].start + (IF proc[p].oneShot THEN 0 ELSE Timeout - 1)

Deadline(p) == proc[p].start + (IF proc[p].oneShot THEN 0 ELSE Timeout)

RefusedOrWaits(r, deadline) ==
  IF lockNow >= deadline THEN [r EXCEPT !.pc = "refused"]
                         ELSE [r EXCEPT !.pc = "wait", !.seen = NoFile, !.due = lockNow + Least(RetryWait, deadline - lockNow)]

Judges(p) ==
  /\ Doing(p, "judge")
  /\ proc' = [proc EXCEPT ![p] = IF Age(proc[p].seen) > StaleAfter THEN [@ EXCEPT !.pc = "unlink"]
                                                             ELSE RefusedOrWaits(@, Deadline(p))]
  /\ UNCHANGED <<lockNow, lockFile, misjudged>>

(* The first takeover tries again at once, a later one as if it was fresh. *)
TakesOver(p) ==
  /\ Doing(p, "unlink")
  /\ lockFile' = NoFile
  /\ misjudged' = (misjudged \/ lockFile \notin {NoFile, proc[p].seen})
  /\ LET r == [proc[p] EXCEPT !.takeovers = @ + 1] IN
       proc' = [proc EXCEPT ![p] = IF r.takeovers <= 1 THEN [r EXCEPT !.pc = "open", !.seen = NoFile]
                                           ELSE RefusedOrWaits(r, Deadline(p))]
  /\ UNCHANGED lockNow

TriesAgain(p) ==
  /\ Doing(p, "wait") /\ lockNow >= proc[p].due
  /\ proc' = [proc EXCEPT ![p].pc = "open", ![p].due = 0]
  /\ UNCHANGED <<lockNow, lockFile, misjudged>>
-----------------------------------------------------------------------------
LastBeat(p) == proc[p].due - Beat

Overslept(p) == proc[p].slept \/ lockNow > LastBeat(p) + StaleAfter

\* variant: nothing touches the file once it is held
BeatsForNothing(p) ==
  /\ Doing(p, "runs") /\ lockNow >= proc[p].due
  /\ proc' = [proc EXCEPT ![p].due = lockNow + Beat, ![p].slept = Overslept(p)]
  /\ UNCHANGED <<lockNow, lockFile, misjudged>>

(* The heartbeat touches whatever file has the name.                       *)
HeartBeat(p) ==
  /\ Doing(p, "runs") /\ lockNow >= proc[p].due
  /\ lockFile' = IF lockFile = NoFile THEN NoFile ELSE [lockFile EXCEPT !.mtime = lockNow]
  /\ proc' = [proc EXCEPT ![p].due = lockNow + Beat, ![p].slept = Overslept(p)]
  /\ UNCHANGED <<lockNow, misjudged>>

(* A clean exit stops the heartbeat, reads whose lock it is and removes it *)
(* if it was its own.                                                      *)
ReleaseLock(p) ==
  /\ Doing(p, "runs")
  /\ proc' = [proc EXCEPT ![p].pc = "reads"]
  /\ UNCHANGED <<lockNow, lockFile, misjudged>>

ReadHolder(p) ==
  /\ Doing(p, "reads")
  /\ proc' = [proc EXCEPT ![p] = IF lockFile.by = p THEN [@ EXCEPT !.pc = "unlinks"] ELSE Off]
  /\ UNCHANGED <<lockNow, lockFile, misjudged>>

UnlinksOwn(p) ==
  /\ Doing(p, "unlinks")
  /\ lockFile' = NoFile
  /\ misjudged' = (misjudged \/ lockFile.by \notin {NoHolder, p})
  /\ proc' = [proc EXCEPT ![p] = Off]
  /\ UNCHANGED lockNow
-----------------------------------------------------------------------------
Killed(p) ==
  /\ proc[p].pc \notin {"off", "refused"}
  /\ proc' = [proc EXCEPT ![p] = Off]
  /\ UNCHANGED <<lockNow, lockFile, misjudged>>

Paused(p) ==
  /\ proc[p].pc \notin {"off", "refused"} /\ proc[p].awake
  /\ proc' = [proc EXCEPT ![p].awake = FALSE]
  /\ UNCHANGED <<lockNow, lockFile, misjudged>>

Resumed(p) ==
  /\ ~proc[p].awake
  /\ proc' = [proc EXCEPT ![p].awake = TRUE]
  /\ UNCHANGED <<lockNow, lockFile, misjudged>>

Waits(p) == proc[p].pc \in {"off", "refused"} \/ (proc[p].pc \in {"wait", "runs"} /\ lockNow < proc[p].due)

TimePasses ==
  /\ lockNow < MaxTime /\ \A p \in Proc : proc[p].awake => Waits(p)
  /\ lockNow' = lockNow + 1
  /\ UNCHANGED <<lockFile, proc, misjudged>>

LockNext ==
  \/ TimePasses
  \/ \E p \in Proc :
       \/ \E oneShot \in BOOLEAN : Starts(p, oneShot)
       \/ OpenExclusive(p) \/ StatKey(p) \/ Judges(p) \/ TakesOver(p) \/ TriesAgain(p)
       \/ HeartBeat(p) \/ ReleaseLock(p) \/ ReadHolder(p) \/ UnlinksOwn(p)
       \/ Killed(p) \/ Paused(p) \/ Resumed(p)

LockSpec == LockInit /\ [][LockNext]_lockVars
-----------------------------------------------------------------------------
(* Of two processes that both take the directory to be theirs, one has     *)
(* been paused until its lock was stale; unless a lock was removed that    *)
(* was not the one judged, which the two steps of a takeover allow.        *)
OneDaemon ==
  \A p, q \in Proc : p # q /\ Holds(p) /\ Holds(q) => misjudged \/ Overslept(p) \/ Overslept(q)

(* A daemon's start is never refused for the lock of one that was dead     *)
(* when it began: the lock that refuses it was made or touched since.      *)
StartsAfterKill ==
  \A p \in Proc : proc[p].pc = "refused" /\ ~proc[p].oneShot => proc[p].seen.mtime >= proc[p].start
=============================================================================
