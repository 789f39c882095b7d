------------------------------- MODULE Prober -------------------------------
(***************************************************************************)
(* The health prober (pkg/prober): a worker goroutine per probed address,  *)
(* one unbuffered channel on which they all report, one goroutine that     *)
(* handles the reports, and a manager that adds and removes workers under  *)
(* a lock.  Stopping a worker is a rendezvous: the manager sends on stopCh *)
(* and the worker receives only while it waits in its select, not while it *)
(* probes or while its report waits for the handling goroutine.  The lock  *)
(* is held meanwhile.                                                      *)
(*                                                                         *)
(* A target is an address of a load balancer: the uid is UIDOf[target].    *)
(* Periods and timeouts are left out: a tick comes eventually and a probe  *)
(* ends eventually.  The controller calls the manager for one uid at a     *)
(* time from one goroutine, which the uid stands for.                      *)
(***************************************************************************)
EXTENDS Naturals, FiniteSets

CONSTANTS UIDs, Targets, UIDOf,
          Options,      \* HealthOptions: [success, failure: thresholds]
          NoWorker, NoOption,
          MaxFlips      \* bound: how often a probed server goes up or down

ASSUME ProberAssumption ==
    /\ UIDOf \in [Targets -> UIDs]
    /\ Options \subseteq [success : Nat \ {0}, failure : Nat \ {0}]
    /\ NoOption \notin Options
    /\ MaxFlips \in Nat

VARIABLES workers,    \* Manager.workers: the worker of a target, or NoWorker
          call,       \* per uid: the workers its current call still has to stop
          handling,   \* the report being handled, {} or {[target, healthy]}
          up,         \* does the server at the target accept connections?
          streak,     \* history: the worker's results in a row since its last report
          flips       \* what is left of MaxFlips

proberVars == <<workers, call, handling, up, streak, flips>>

Thresholds == {o.success : o \in Options} \cup {o.failure : o \in Options}

\* Worker: a select loop, and doProbe.  logFailure and logSuccess are left out.
Worker == [opt : Options, pc : {"select", "probe", "send"},
           successCounter : Nat, failureCounter : Nat, condition : BOOLEAN]

Report == [target : Targets, healthy : BOOLEAN]

\* The call being made: AddWorker with add, or one of the two removals.
NoCall == [left |-> {}, add |-> NoOption]

TypeOK ==
    /\ DOMAIN workers = Targets
    /\ \A t \in Targets : workers[t] # NoWorker => workers[t] \in Worker
    /\ call \in [UIDs -> [left : SUBSET Targets, add : Options \cup {NoOption}]]
    /\ handling \subseteq Report /\ Cardinality(handling) <= 1
    /\ up \in [Targets -> BOOLEAN]
    /\ streak \in [Targets -> [ok : BOOLEAN, n : Nat]]
    /\ flips \in 0 .. MaxFlips

NoProbe == [ok |-> TRUE, n |-> 0]

ProberInit ==
    /\ workers = [t \in Targets |-> NoWorker]
    /\ call = [u \in UIDs |-> NoCall]
    /\ handling = {}
    /\ up \in [Targets -> BOOLEAN]
    /\ streak = [t \in Targets |-> NoProbe]
    /\ flips = MaxFlips

-----------------------------------------------------------------------------
(* The worker *)

\* newWorker.  The initial condition is never sent.
New(opt) ==
    [opt |-> opt, pc |-> "select", successCounter |-> 0, failureCounter |-> 0,
     condition |-> TRUE]

Running(t) == workers[t] # NoWorker

\* run: the ticker fires.
Tick(t) ==
    /\ Running(t) /\ workers[t].pc = "select"
    /\ workers' = [workers EXCEPT ![t].pc = "probe"]
    /\ UNCHANGED <<call, handling, up, streak, flips>>

\* Two mutants: results in a row are not required; a success is only reported
\* when it is news.
ProbedTotal(w, ok) ==
    LET s == IF ok THEN w.successCounter + 1 ELSE w.successCounter
        f == IF ok THEN w.failureCounter ELSE w.failureCounter + 1
        report == IF ok THEN s >= w.opt.success ELSE f >= w.opt.failure
    IN  [w EXCEPT !.successCounter = s, !.failureCounter = f,
                  !.pc = IF report THEN "send" ELSE "select",
                  !.condition = IF report THEN ok ELSE @]

ProbedNews(w, ok) ==
    LET s == IF ok THEN w.successCounter + 1 ELSE 0
        f == IF ok THEN 0 ELSE w.failureCounter + 1
        report == IF ok THEN s = w.opt.success /\ w.failureCounter > 0
                  ELSE f >= w.opt.failure
    IN  [w EXCEPT !.successCounter = IF ok THEN w.opt.success ELSE 0,
                  !.failureCounter = f,
                  !.pc = IF report THEN "send" ELSE "select",
                  !.condition = IF report THEN ok ELSE @]

\* doProbe up to the report: a result resets the other counter, and one that
\* reaches its threshold is reported, whether it is news or not.
Probed(w, ok) ==
    LET s == IF ok THEN w.successCounter + 1 ELSE 0
        f == IF ok THEN 0 ELSE w.failureCounter + 1
        report == IF ok THEN s >= w.opt.success ELSE f >= w.opt.failure
    IN  [w EXCEPT !.successCounter = s, !.failureCounter = f,
                  !.pc = IF report THEN "send" ELSE "select",
                  !.condition = IF report THEN ok ELSE @]

Longer(st, ok) ==
    IF st.ok = ok /\ \E x \in Thresholds : st.n < x
    THEN [st EXCEPT !.n = @ + 1]
    ELSE [ok |-> ok, n |-> IF st.ok = ok THEN st.n ELSE 1]

Probe(t) ==
    /\ Running(t) /\ workers[t].pc = "probe"
    /\ workers' = [workers EXCEPT ![t] = Probed(@, up[t])]
    /\ streak' = [streak EXCEPT ![t] = Longer(@, up[t])]
    /\ UNCHANGED <<call, handling, up, flips>>

\* Two mutants: the report does not wait for the handling goroutine; the worker
\* probes again without passing through its select.
SendUnsynchronised(t) ==
    /\ Running(t) /\ workers[t].pc = "send"
    /\ handling' = handling \cup {[target |-> t, healthy |-> workers[t].condition]}
    /\ workers' = [workers EXCEPT ![t].pc = "select", ![t].successCounter = 0,
                                  ![t].failureCounter = 0, ![t].condition = TRUE]
    /\ streak' = [streak EXCEPT ![t] = NoProbe]
    /\ UNCHANGED <<call, up, flips>>

SendAndProbe(t) ==
    /\ Running(t) /\ workers[t].pc = "send"
    /\ handling = {}
    /\ handling' = {[target |-> t, healthy |-> workers[t].condition]}
    /\ workers' = [workers EXCEPT ![t].pc = "probe", ![t].successCounter = 0,
                                  ![t].failureCounter = 0, ![t].condition = TRUE]
    /\ streak' = [streak EXCEPT ![t] = NoProbe]
    /\ UNCHANGED <<call, up, flips>>

\* The send on conditionChan meets the handling goroutine; then the counter
\* that reached its threshold is reset (the other one is 0 already).  The
\* condition is set before it is sent and not read otherwise: TRUE in between.
\* The probes of the next report are new ones.
Send(t) ==
    /\ Running(t) /\ workers[t].pc = "send"
    /\ handling = {}
    /\ handling' = {[target |-> t, healthy |-> workers[t].condition]}
    /\ workers' = [workers EXCEPT ![t].pc = "select", ![t].successCounter = 0,
                                  ![t].failureCounter = 0, ![t].condition = TRUE]
    /\ streak' = [streak EXCEPT ![t] = NoProbe]
    /\ UNCHANGED <<call, up, flips>>

-----------------------------------------------------------------------------
(* The manager *)

\* workerLock: a call that waits for a worker to stop holds it.
Locked == \E u \in UIDs : call[u].left # {}

\* AddWorker: a duplicate is stopped first.
AddWorker(t, opt) ==
    /\ ~Locked
    /\ \/ /\ ~Running(t)
          /\ workers' = [workers EXCEPT ![t] = New(opt)]
          /\ streak' = [streak EXCEPT ![t] = NoProbe]
          /\ UNCHANGED call
       \/ /\ Running(t)
          /\ call' = [call EXCEPT ![UIDOf[t]] = [left |-> {t}, add |-> opt]]
          /\ UNCHANGED <<workers, streak>>
    /\ UNCHANGED <<handling, up, flips>>

\* RemoveWorker of one target of u, or RemoveWorkersByUid of all of them.
Remove(u, ts) ==
    /\ ~Locked
    /\ call' = [call EXCEPT ![u] = [left |-> {t \in ts : Running(t)}, add |-> NoOption]]
    /\ UNCHANGED <<workers, handling, up, streak, flips>>

RemoveWorker(t) == Remove(UIDOf[t], {t})

RemoveWorkersByUid(u) == Remove(u, {t \in Targets : UIDOf[t] = u})

\* stop: the worker receives on stopCh in its select and returns; its place in
\* the map is emptied, or taken by the worker that replaces it.
Stop(u) ==
    \E t \in call[u].left :
        /\ workers[t].pc = "select"
        /\ workers' = [workers EXCEPT ![t] = IF call[u].add = NoOption THEN NoWorker
                                             ELSE New(call[u].add)]
        /\ streak' = [streak EXCEPT ![t] = NoProbe]
        /\ call' = [call EXCEPT ![u] = IF @.left = {t} THEN NoCall
                                       ELSE [left |-> @.left \ {t}, add |-> @.add]]
        /\ UNCHANGED <<handling, up, flips>>

-----------------------------------------------------------------------------
(* The prober by itself: any caller, and a handler that takes its time *)

\* The handler the manager was created with returns.
Handle ==
    /\ handling # {}
    /\ handling' = {}
    /\ UNCHANGED <<workers, call, up, streak, flips>>

Flip(t) ==
    /\ flips > 0
    /\ flips' = flips - 1
    /\ up' = [up EXCEPT ![t] = ~@]
    /\ UNCHANGED <<workers, call, handling, streak>>

Step(t) == Tick(t) \/ Probe(t) \/ Send(t)

Calls ==
    \/ \E t \in Targets : RemoveWorker(t) \/ \E opt \in Options : AddWorker(t, opt)
    \/ \E u \in UIDs : RemoveWorkersByUid(u)

Next ==
    \/ \E t \in Targets : Step(t) \/ Flip(t)
    \/ \E u \in UIDs : Stop(u)
    \/ Calls
    \/ Handle

\* Tickers fire and probes end; the senders on a channel queue first in first
\* out; a select with both channels ready takes either, so that a worker that
\* is asked to stop in every round does; the handler returns.
ProberFairness ==
    /\ \A t \in Targets : WF_proberVars(Tick(t) \/ Probe(t)) /\ SF_proberVars(Send(t))
    /\ \A u \in UIDs : SF_proberVars(Stop(u))

Spec == ProberInit /\ [][Next]_proberVars /\ ProberFairness /\ WF_proberVars(Handle)

-----------------------------------------------------------------------------

\* A worker reports only what as many probes in a row as its threshold says
\* have found since its last report, all of them its own: no result of a
\* flapping server, none of a worker it replaced, and none that was reported
\* before counts towards a report.
ReportsAreEarned ==
    \A t \in Targets :
        (Running(t) /\ workers[t].pc = "send") =>
            /\ streak[t].ok = workers[t].condition
            /\ streak[t].n >= IF workers[t].condition THEN workers[t].opt.success
                              ELSE workers[t].opt.failure

\* A call that adds or removes workers returns and lets go of the lock, although
\* it waits for workers that wait for the handler of reports.
CallsReturn == Locked ~> ~Locked

\* "Notify anyway, the receiver may fail when processing": a worker that is not
\* replaced keeps reporting the state of a server that stays as it is.
KeepsReporting ==
    \A t \in Targets, b \in BOOLEAN :
        <>[](Running(t) /\ up[t] = b /\ t \notin call[UIDOf[t]].left)
            => []<>([target |-> t, healthy |-> b] \in handling)
=============================================================================
