------------------------------- MODULE Access -------------------------------
(***************************************************************************)
(* Who is let in (src/identity.ts, src/auth.ts) and what is let through    *)
(* (src/govern.ts): the admin, its sessions, the API tokens, the device    *)
(* codes of `insta login --device`, and the approvals of gated calls.      *)
(* Every handler is one synchronous step; what is late is the renewal of a *)
(* session and the removal of an expired one, which are queued and written *)
(* in a batch (src/state.ts, touchLater), unless the daemon dies first.    *)
(* Device codes live in memory.  The admin is reset while the daemon is    *)
(* down.                                                                   *)
(***************************************************************************)
EXTENDS Naturals, FiniteSets

CONSTANTS Session, Token, Code, Approval,
          Ttls,     \* a session's life, in days, with and without rememberMe
          Renewal,  \* the age at which it is renewed
          CodeTtl,
          MaxDay    \* bound on the clock

ASSUME AccessAssumption == Ttls \subseteq Nat /\ {Renewal, CodeTtl, MaxDay} \subseteq Nat

VARIABLES
  day,
  daemonUp,
  admin,    \* does the one admin exist
  session,  \* the rows
  touch,    \* what is queued for each session's row
  signedOut,    \* history: sessions that signed out, were reset or were refused as expired
  token,    \* the rows
  code,     \* the device codes in memory
  granted,  \* history: codes that the admin has approved
  minted,   \* history: tokens minted for a code
  approval, \* the rows
  passed    \* history: calls let through by an approval

accVars == <<day, daemonUp, admin, session, touch, signedOut, token, code, granted, minted, approval, passed>>

Day == Nat
NoSession == [is |-> FALSE, updated |-> 0, expires |-> 0]
NoTouch == [slides |-> FALSE, updated |-> 0, expires |-> 0, drops |-> FALSE]
NoCode == [status |-> "none", expires |-> 0]

AccTypeOK ==
  /\ day \in 0..MaxDay
  /\ daemonUp \in BOOLEAN /\ admin \in BOOLEAN
  /\ session \in [Session -> [is : BOOLEAN, updated : Day, expires : Day]]
  /\ touch \in [Session -> [slides : BOOLEAN, updated : Day, expires : Day, drops : BOOLEAN]]
  /\ signedOut \subseteq Session
  /\ token \in [Token -> {"none", "live", "revoked"}]
  /\ code \in [Code -> [status : {"none", "pending", "approved", "denied"}, expires : Day]]
  /\ granted \subseteq Code
  /\ minted \in [Code -> Nat]
  /\ approval \in [Approval -> {"none", "pending", "granted", "denied", "consumed"}]
  /\ passed \in Nat

AccInit ==
  /\ day = 0 /\ daemonUp = TRUE /\ admin = FALSE
  /\ session = [s \in Session |-> NoSession] /\ touch = [s \in Session |-> NoTouch] /\ signedOut = {}
  /\ token = [t \in Token |-> "none"]
  /\ code = [c \in Code |-> NoCode] /\ granted = {} /\ minted = [c \in Code |-> 0]
  /\ approval = [a \in Approval |-> "none"] /\ passed = 0
-----------------------------------------------------------------------------
NoRest == UNCHANGED <<token, code, granted, minted, approval, passed>>
SameSessions == UNCHANGED <<session, touch, signedOut>>

DayPasses ==
  /\ day < MaxDay /\ day' = day + 1
  /\ SameSessions /\ NoRest /\ UNCHANGED <<daemonUp, admin>>

(* Expired rows go with every session minted.                              *)
Minted(s, ttl) == [r \in Session |->
  IF r = s THEN [is |-> TRUE, updated |-> day, expires |-> day + ttl]
  ELSE IF session[r].expires <= day THEN NoSession ELSE session[r]]

MintSession(s, ttl) ==
  /\ daemonUp /\ ~session[s].is /\ s \notin signedOut /\ touch[s] = NoTouch
  /\ session' = Minted(s, ttl)
  /\ UNCHANGED <<touch, signedOut>> /\ NoRest /\ UNCHANGED <<day, daemonUp>>

SignUp(s, ttl) == ~admin /\ admin' = TRUE /\ MintSession(s, ttl)

SignIn(s, ttl) == admin /\ UNCHANGED admin /\ MintSession(s, ttl)
-----------------------------------------------------------------------------
(* The guard.                                                              *)

SessionLives(s) == admin /\ session[s].is /\ session[s].expires > day

LetIn == daemonUp /\ admin /\ (\/ \E s \in Session : SessionLives(s)
                               \/ \E t \in Token : token[t] = "live")

(* A session that is old enough is renewed for as long as it had; one that *)
(* has expired is refused, and removed: both later.                        *)
FindSession(s) ==
  /\ daemonUp /\ admin /\ session[s].is
  /\ LET row == session[s] IN
       IF row.expires <= day
       THEN touch' = [touch EXCEPT ![s].drops = TRUE] /\ signedOut' = signedOut \cup {s}
       ELSE /\ day - row.updated >= Renewal
            /\ touch' = [touch EXCEPT ![s] = [slides |-> TRUE, updated |-> day, expires |-> day + (row.expires - row.updated),
                                              drops |-> @.drops]]
            /\ UNCHANGED signedOut
  /\ UNCHANGED <<day, daemonUp, admin, session>> /\ NoRest

\* variant: the batch writes the rows that it has captured
FlushedRows == [s \in Session |->
  IF touch[s].drops THEN NoSession
  ELSE IF touch[s].slides THEN [is |-> TRUE, updated |-> touch[s].updated, expires |-> touch[s].expires]
  ELSE session[s]]

(* The batch looks the rows up by id: what has gone stays gone.            *)
Flushed == [s \in Session |->
  IF ~session[s].is \/ touch[s].drops THEN NoSession
  ELSE IF touch[s].slides THEN [is |-> TRUE, updated |-> touch[s].updated, expires |-> touch[s].expires]
  ELSE session[s]]

FlushTouchLater ==
  /\ daemonUp /\ touch # [s \in Session |-> NoTouch]
  /\ session' = Flushed /\ touch' = [s \in Session |-> NoTouch]
  /\ UNCHANGED <<day, daemonUp, admin, signedOut>> /\ NoRest

RevokeSession(s) ==
  /\ daemonUp /\ session[s].is
  /\ session' = [session EXCEPT ![s] = NoSession] /\ signedOut' = signedOut \cup {s}
  /\ UNCHANGED <<day, daemonUp, admin, touch>> /\ NoRest
-----------------------------------------------------------------------------
(* Tokens.  One that expires is from then on like one that is revoked.     *)

MintToken(t) == token[t] = "none" /\ token' = [token EXCEPT ![t] = "live"]

CreateToken(t) ==
  /\ LetIn /\ MintToken(t)
  /\ UNCHANGED <<day, daemonUp, admin, code, granted, minted, approval, passed>> /\ SameSessions

RevokeToken(t) ==
  /\ token[t] = "live" /\ token' = [token EXCEPT ![t] = "revoked"]
  /\ UNCHANGED <<day, daemonUp, admin, code, granted, minted, approval, passed>> /\ SameSessions

(* A device asks for a code, which the admin approves or denies before it  *)
(* expires; the poll that finds it settled consumes it, and mints the key. *)
NotCodes == UNCHANGED <<day, daemonUp, admin, minted, token, approval, passed>> /\ SameSessions

StartCode(c) ==
  /\ daemonUp /\ code[c].status = "none" /\ c \notin granted
  /\ code' = [d \in Code |-> IF d = c THEN [status |-> "pending", expires |-> day + CodeTtl]
                             ELSE IF code[d].expires <= day THEN NoCode ELSE code[d]]
  /\ UNCHANGED granted /\ NotCodes

CodePending(c) == code[c].status = "pending" /\ code[c].expires > day

ApproveCode(c) ==
  /\ LetIn /\ CodePending(c)
  /\ code' = [code EXCEPT ![c].status = "approved"] /\ granted' = granted \cup {c}
  /\ NotCodes

DenyCode(c) ==
  /\ LetIn /\ CodePending(c)
  /\ code' = [code EXCEPT ![c].status = "denied"] /\ UNCHANGED granted
  /\ NotCodes

PollSettled(c) ==
  /\ daemonUp /\ (code[c].status = "denied" \/ (code[c].status # "none" /\ code[c].expires <= day))
  /\ code' = [code EXCEPT ![c] = NoCode] /\ UNCHANGED granted
  /\ NotCodes

PollApproved(c, t) ==
  /\ daemonUp /\ code[c].status = "approved" /\ code[c].expires > day /\ MintToken(t)
  /\ code' = [code EXCEPT ![c] = NoCode] /\ minted' = [minted EXCEPT ![c] = @ + 1]
  /\ UNCHANGED <<day, daemonUp, admin, granted, approval, passed>> /\ SameSessions
-----------------------------------------------------------------------------
(* One gated action whose policy asks for approval: a granted approval is  *)
(* consumed by the call that it lets through, else a pending one is made.  *)
NotApprovals == UNCHANGED <<day, daemonUp, admin, token, code, granted, minted>> /\ SameSessions

GatePasses(a) ==
  /\ LetIn /\ approval[a] = "granted"
  /\ approval' = [approval EXCEPT ![a] = "consumed"] /\ passed' = passed + 1
  /\ NotApprovals

GateAsks(a) ==
  /\ LetIn /\ \A b \in Approval : approval[b] # "granted"
  /\ approval[a] = "none" /\ approval' = [approval EXCEPT ![a] = "pending"]
  /\ UNCHANGED passed /\ NotApprovals

Decide(a, verdict) ==
  /\ LetIn /\ approval[a] = "pending" /\ approval' = [approval EXCEPT ![a] = verdict]
  /\ UNCHANGED passed /\ NotApprovals
-----------------------------------------------------------------------------
Down == daemonUp /\ daemonUp' = FALSE /\ touch' = [s \in Session |-> NoTouch] /\ code' = [c \in Code |-> NoCode]

AccessDies == Down /\ UNCHANGED <<day, admin, session, signedOut, token, granted, minted, approval, passed>>

(* releaseLock writes the batch.                                           *)
AccessExits == Down /\ session' = Flushed /\ UNCHANGED <<day, admin, signedOut, token, granted, minted, approval, passed>>

AccessRestarts ==
  /\ ~daemonUp /\ daemonUp' = TRUE
  /\ SameSessions /\ NoRest /\ UNCHANGED <<day, admin>>

(* The tokens stay, and work again once there is an admin.                 *)
ResetAdmin ==
  /\ ~daemonUp /\ admin /\ admin' = FALSE
  /\ session' = [s \in Session |-> NoSession] /\ signedOut' = signedOut \cup {s \in Session : session[s].is}
  /\ UNCHANGED <<day, daemonUp, touch>> /\ NoRest

AccNext ==
  \/ DayPasses \/ FlushTouchLater \/ AccessDies \/ AccessExits \/ AccessRestarts \/ ResetAdmin
  \/ \E s \in Session, ttl \in Ttls : SignUp(s, ttl) \/ SignIn(s, ttl)
  \/ \E s \in Session : FindSession(s) \/ RevokeSession(s)
  \/ \E t \in Token : CreateToken(t) \/ RevokeToken(t)
  \/ \E c \in Code : StartCode(c) \/ ApproveCode(c) \/ DenyCode(c) \/ PollSettled(c)
  \/ \E c \in Code, t \in Token : PollApproved(c, t)
  \/ \E a \in Approval : GatePasses(a) \/ GateAsks(a) \/ Decide(a, "granted") \/ Decide(a, "denied")

AccSpec == AccInit /\ [][AccNext]_accVars
-----------------------------------------------------------------------------
(* A session that has signed out, was reset or has been refused as expired *)
(* is never live again, whatever renewals of it were queued; a device code *)
(* yields at most one key, and only if the admin approved it; and no more  *)
(* gated calls pass than approvals were granted.                           *)
AccessIsGranted ==
  /\ \A s \in signedOut : ~SessionLives(s)
  /\ \A c \in Code : minted[c] <= IF c \in granted THEN 1 ELSE 0
  /\ passed <= Cardinality({a \in Approval : approval[a] = "consumed"})
=============================================================================
