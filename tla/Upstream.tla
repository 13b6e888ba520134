------------------------------ MODULE Upstream ------------------------------
(***************************************************************************)
(* The addresses that the lanes dial (src/upstream.ts), one container's: a *)
(* cache per port that lookups fill, each some time after docker was       *)
(* asked, and that recorded outcomes, failed dials, wakes and the sweep    *)
(* empty; and the requests that resolve, wake and dial                     *)
(* (src/router/wake.ts).                                                   *)
(*                                                                         *)
(* The container's runs are counted: each may have another address.        *)
(***************************************************************************)
EXTENDS Naturals

CONSTANTS Caller, \* those under way at a time
          Served,    \* those the container serves
          MaxEpoch \* bound on its runs

ASSUME UpstreamAssumption == MaxEpoch \in Nat

VARIABLES
  box,    \* the container: does it run, its run, its id
  cache,  \* per port: the run it is the address of, its id
  asking, \* the requests
  forgot  \* history: the run of the last outcome recorded

upVars == <<box, cache, asking, forgot>>

Epoch == 0..MaxEpoch
NoAddr == [cached |-> FALSE, run |-> 0, id |-> 0, crossed |-> FALSE]
NoCall(p) == [pc |-> "none", port |-> p, woke |-> FALSE, up |-> FALSE, run |-> 0, id |-> 0, floor |-> 0,
                 crossed |-> FALSE]

UpTypeOK ==
  /\ box \in [up : BOOLEAN, run : Epoch, id : Epoch]
  /\ cache \in [Served -> [cached : BOOLEAN, run : Epoch, id : Epoch, crossed : BOOLEAN]]
  /\ asking \in [Caller -> [pc : {"none", "asked", "seen", "wake", "dials"}, port : Served, woke : BOOLEAN,
                             up : BOOLEAN, run : Epoch, id : Epoch, floor : Epoch, crossed : BOOLEAN]]
  /\ forgot \in Epoch

UpInit ==
  /\ box \in {[up |-> u, run |-> 0, id |-> 0] : u \in BOOLEAN}
  /\ cache = [p \in Served |-> NoAddr]
  /\ \E p \in Served : asking = [q \in Caller |-> NoCall(p)]
  /\ forgot = 0
-----------------------------------------------------------------------------
(* The container starts, by an operation or itself; is replaced; or stops. *)

Runs(replaced) ==
  /\ box.run < MaxEpoch /\ (replaced \/ ~box.up)
  /\ box' = [up |-> TRUE, run |-> box.run + 1, id |-> IF replaced THEN box.run + 1 ELSE box.id]
  /\ UNCHANGED <<cache, asking, forgot>>

Stops ==
  /\ box.up /\ box' = [box EXCEPT !.up = FALSE]
  /\ UNCHANGED <<cache, asking, forgot>>

(* Every port is forgotten; a lookup under way does not notice.            *)
Forget ==
  /\ cache' = [p \in Served |-> NoAddr]
  /\ asking' = [q \in Caller |-> [asking[q] EXCEPT !.crossed = @ \/ asking[q].pc \in {"asked", "seen"}]]

(* onUp, onAsleep, onStopped, onPaused.                                    *)
OutcomeRecorded(run) ==
  /\ run \in forgot..box.run /\ forgot' = run
  /\ Forget
  /\ UNCHANGED box

Expires(p) ==
  /\ cache[p].cached
  /\ cache' = [cache EXCEPT ![p] = NoAddr]
  /\ UNCHANGED <<box, asking, forgot>>

(* The sweep saw the container under an id that it has or has had.         *)
ForgetIfChanged(id) ==
  /\ id \in 0..box.id
  /\ cache' = [p \in Served |-> IF cache[p].id = id THEN cache[p] ELSE NoAddr]
  /\ UNCHANGED <<box, asking, forgot>>
-----------------------------------------------------------------------------
(* A request: a cached address of a running service is dialled as it is.   *)

Resolve(q, p) ==
  /\ asking[q].pc = "none"
  /\ \E running \in BOOLEAN : asking' = [asking EXCEPT ![q] =
       IF ~cache[p].cached THEN [NoCall(p) EXCEPT !.pc = "asked"]
       ELSE IF running THEN [NoCall(p) EXCEPT !.pc = "dials", !.up = TRUE, !.run = cache[p].run]
       ELSE [NoCall(p) EXCEPT !.pc = "wake"]]
  /\ UNCHANGED <<box, cache, forgot>>

DockerInspects(q) ==
  /\ asking[q].pc = "asked"
  /\ asking' = [asking EXCEPT ![q].pc = "seen", ![q].up = box.up, ![q].run = box.run, ![q].id = box.id]
  /\ UNCHANGED <<box, cache, forgot>>

(* What docker could not say is no address.                                *)
InspectFails(q) ==
  /\ asking[q].pc = "asked"
  /\ asking' = [asking EXCEPT ![q].pc = "seen", ![q].up = FALSE]
  /\ UNCHANGED <<box, cache, forgot>>

(* After the answer, the service is woken unless it has been, or it is     *)
(* taken to be running; a woken one without an address fails the request.  *)
LookupAnswers(q, running) ==
  LET r == asking[q] IN
  /\ r.pc = "seen"
  /\ cache' = [cache EXCEPT ![r.port] =
       IF r.up THEN [cached |-> TRUE, run |-> r.run, id |-> r.id, crossed |-> r.crossed] ELSE NoAddr]
  /\ asking' = [asking EXCEPT ![q] =
       IF r.up /\ (r.woke \/ running) THEN [r EXCEPT !.pc = "dials", !.crossed = FALSE]
       ELSE IF r.woke THEN NoCall(r.port)
       ELSE [NoCall(r.port) EXCEPT !.pc = "wake"]]
  /\ UNCHANGED <<box, forgot>>

(* The wake is over: forget, and resolve anew.                             *)
ForgetAndResolve(q) ==
  /\ asking[q].pc = "wake"
  /\ cache' = [p \in Served |-> NoAddr]
  /\ asking' = [r \in Caller |->
       IF r = q THEN [NoCall(asking[q].port) EXCEPT !.pc = "asked", !.woke = TRUE, !.floor = forgot]
       ELSE [asking[r] EXCEPT !.crossed = @ \/ asking[r].pc \in {"asked", "seen"}]]
  /\ UNCHANGED <<box, forgot>>

WakeFails(q) ==
  /\ asking[q].pc = "wake"
  /\ asking' = [asking EXCEPT ![q] = NoCall(@.port)]
  /\ UNCHANGED <<box, cache, forgot>>

Dialled(q) ==
  /\ asking[q].pc = "dials"
  /\ asking' = [asking EXCEPT ![q] = NoCall(@.port)]
  /\ UNCHANGED <<box, cache, forgot>>

(* A probe that runs out, or a dial that is refused after a wake, ends the *)
(* request; a cached address that refuses goes through the wake, once.     *)
DialRefused(q) ==
  /\ asking[q].pc = "dials"
  /\ cache' = [p \in Served |-> NoAddr]
  /\ asking' = [r \in Caller |->
       IF r = q THEN [NoCall(asking[q].port) EXCEPT !.pc = IF asking[q].woke THEN "none" ELSE "wake"]
       ELSE [asking[r] EXCEPT !.crossed = @ \/ asking[r].pc \in {"asked", "seen"}]]
  /\ UNCHANGED <<box, forgot>>
-----------------------------------------------------------------------------
UpNext ==
  \/ \E b \in BOOLEAN : Runs(b)
  \/ Stops
  \/ \E n \in Epoch : OutcomeRecorded(n) \/ ForgetIfChanged(n)
  \/ \E p \in Served : Expires(p)
  \/ \E q \in Caller :
       \/ \E p \in Served : Resolve(q, p)
       \/ DockerInspects(q) \/ InspectFails(q) \/ ForgetAndResolve(q) \/ WakeFails(q) \/ Dialled(q) \/ DialRefused(q)
       \/ \E b \in BOOLEAN : LookupAnswers(q, b)

UpSpec == UpInit /\ [][UpNext]_upVars
-----------------------------------------------------------------------------
(* An address from before a recorded outcome stays in the cache only if    *)
(* its lookup was under way when the outcome was recorded; and a request   *)
(* that has woken its service never dials an address from before.          *)
DialsRespectOutcomes ==
  /\ \A p \in Served : cache[p].cached /\ ~cache[p].crossed => cache[p].run >= forgot
  /\ \A q \in Caller : asking[q].pc = "dials" /\ asking[q].woke => asking[q].run >= asking[q].floor
=============================================================================
