-------------------------- MODULE ServiceLBProofs ---------------------------
(***************************************************************************)
(* The first part is the prober by itself, for any number of load          *)
(* balancers, addresses and thresholds: its state is well typed, and every *)
(* report is earned.  The inductive invariant adds to the types what the   *)
(* counters of a worker stand for (Counted).  Its lemmas are about the     *)
(* steps one by one, so that the second part can use them for its own.     *)
(*                                                                         *)
(* The second part is the served load balancer, for any number of virtual  *)
(* machines, specs and thresholds, any lag of the caches and any number of *)
(* edits.  A pass calls the prober: SvcInv is ProberInv with the types of  *)
(* the objects, and every step is one of the prober's or leaves it alone   *)
(* (ServiceUsesProber).                                                    *)
(*                                                                         *)
(* GoneInv is why no worker outlives the load balancer: a copy that is not *)
(* live is of an object that is not, OnChange works on live copies only,   *)
(* and a pass that is about to remove the finalizer waits for every worker *)
(* there is.                                                               *)
(*                                                                         *)
(* SliceInv is why only reports mark an endpoint down: whoever writes the  *)
(* EndpointSlice has a copy of what it is now, so a pass, which marks      *)
(* nothing down in its copy, marks nothing down.                           *)
(***************************************************************************)
EXTENDS ServiceLB, FiniteSetTheorems, TLAPS

-----------------------------------------------------------------------------
(* The prober *)

\* At most one report is being handled.
OneReport == handling = {} \/ \E r \in Report : handling = {r}

\* The counters of a worker are streaks, kept below their thresholds; the one
\* that is about to be reported has reached its own.
Counts(w, st) ==
    /\ w.successCounter > 0 => st.ok = TRUE /\ st.n >= w.successCounter
    /\ w.failureCounter > 0 => st.ok = FALSE /\ st.n >= w.failureCounter
    /\ w.pc # "send" => /\ w.successCounter < w.opt.success
                        /\ w.failureCounter < w.opt.failure
    /\ w.pc = "send" => IF w.condition THEN w.successCounter >= w.opt.success
                                       ELSE w.failureCounter >= w.opt.failure

Counted == \A t \in Targets : Running(t) => Counts(workers[t], streak[t])

ProberInv == TypeOK /\ OneReport /\ Counted

-----------------------------------------------------------------------------
(* The operators *)

\* The thresholds of an option are positive and among the thresholds.
LEMMA OptionFields ==
    ASSUME NEW o \in Options
    PROVE  /\ o.success \in Nat \ {0} /\ o.failure \in Nat \ {0}
           /\ o.success \in Thresholds /\ o.failure \in Thresholds
  BY ProberAssumption DEF Thresholds

\* A new worker has counted nothing.
LEMMA NewWorker ==
    ASSUME NEW o \in Options
    PROVE  New(o) \in Worker /\ Counts(New(o), NoProbe)
  BY OptionFields DEF New, Worker, Counts, NoProbe

\* What a probe leaves of a worker, by its result.
LEMMA ProbedUp ==
    ASSUME NEW w \in Worker
    PROVE  /\ Probed(w, TRUE).opt = w.opt
           /\ Probed(w, TRUE).successCounter = w.successCounter + 1
           /\ Probed(w, TRUE).failureCounter = 0
  BY DEF Probed, Worker

\* A probe that fails lengthens the one count and resets the other.
LEMMA ProbedDown ==
    ASSUME NEW w \in Worker
    PROVE  /\ Probed(w, FALSE).opt = w.opt
           /\ Probed(w, FALSE).successCounter = 0
           /\ Probed(w, FALSE).failureCounter = w.failureCounter + 1
  BY DEF Probed, Worker

\* A probe that succeeds is reported when the count reaches its threshold,
LEMMA ProbedUpReport ==
    ASSUME NEW w \in Worker
    PROVE  /\ w.successCounter + 1 >= w.opt.success
                 => Probed(w, TRUE).pc = "send" /\ Probed(w, TRUE).condition
           /\ ~(w.successCounter + 1 >= w.opt.success) => Probed(w, TRUE).pc = "select"
  BY DEF Probed, Worker

\* and so is one that fails.
LEMMA ProbedDownReport ==
    ASSUME NEW w \in Worker
    PROVE  /\ w.failureCounter + 1 >= w.opt.failure
                 => Probed(w, FALSE).pc = "send" /\ ~Probed(w, FALSE).condition
           /\ ~(w.failureCounter + 1 >= w.opt.failure) => Probed(w, FALSE).pc = "select"
  BY DEF Probed, Worker

\* Whatever a probe returns, the worker stays a worker.
LEMMA ProbedType ==
    ASSUME NEW w \in Worker, NEW ok \in BOOLEAN
    PROVE  Probed(w, ok) \in Worker
<1> DEFINE after(s, f, pc, c) ==
             [w EXCEPT !.successCounter = s, !.failureCounter = f, !.pc = pc,
                       !.condition = c]
<1>1. ASSUME NEW s \in Nat, NEW f \in Nat, NEW pc \in {"select", "send"},
             NEW c \in BOOLEAN
      PROVE  after(s, f, pc, c) \in Worker
  BY DEF Worker
<1>2. /\ w.successCounter + 1 \in Nat /\ w.failureCounter + 1 \in Nat
      /\ w.condition \in BOOLEAN
  BY DEF Worker
<1>3. Probed(w, TRUE) = IF w.successCounter + 1 >= w.opt.success
                        THEN after(w.successCounter + 1, 0, "send", TRUE)
                        ELSE after(w.successCounter + 1, 0, "select", w.condition)
  BY DEF Probed
<1>4. Probed(w, FALSE) = IF w.failureCounter + 1 >= w.opt.failure
                         THEN after(0, w.failureCounter + 1, "send", FALSE)
                         ELSE after(0, w.failureCounter + 1, "select", w.condition)
  BY DEF Probed
<1> HIDE DEF after
<1>5. Probed(w, TRUE) \in Worker BY <1>1, <1>2, <1>3
<1>6. Probed(w, FALSE) \in Worker BY <1>1, <1>2, <1>4
<1> QED BY <1>5, <1>6, Zenon

\* A streak that goes on never falls behind a counter that goes on.
LEMMA LongerType ==
    ASSUME NEW st \in [ok : BOOLEAN, n : Nat], NEW ok \in BOOLEAN
    PROVE  Longer(st, ok) \in [ok : BOOLEAN, n : Nat] /\ Longer(st, ok).ok = ok
  BY DEF Longer

\* The streak grows with the count it stands for.
LEMMA LongerKeepsUp ==
    ASSUME NEW st \in [ok : BOOLEAN, n : Nat], NEW ok \in BOOLEAN,
           NEW x \in Thresholds, x \in Nat, NEW k \in Nat, k < x,
           k > 0 => st.ok = ok /\ st.n >= k
    PROVE  Longer(st, ok).n >= k + 1
  BY DEF Longer

\* A probe counts.
LEMMA ProbedCounts ==
    ASSUME NEW w \in Worker, NEW ok \in BOOLEAN, w.pc # "send",
           NEW st \in [ok : BOOLEAN, n : Nat], Counts(w, st)
    PROVE  Counts(Probed(w, ok), Longer(st, ok))
<1>1. /\ w.opt \in Options /\ w.successCounter \in Nat /\ w.failureCounter \in Nat
  BY DEF Worker
<1>2. /\ w.opt.success \in Nat \ {0} /\ w.opt.failure \in Nat \ {0}
      /\ w.opt.success \in Thresholds /\ w.opt.failure \in Thresholds
  BY <1>1, OptionFields
<1>3. Counts(Probed(w, TRUE), Longer(st, TRUE))
  <2>1. Longer(st, TRUE).ok = TRUE /\ Longer(st, TRUE).n \in Nat BY LongerType
  <2>2. Longer(st, TRUE).n >= w.successCounter + 1
    BY <1>1, <1>2, LongerKeepsUp DEF Counts
  <2> DEFINE p == Probed(w, TRUE)
             q == Longer(st, TRUE)
  <2>3. /\ p.opt = w.opt /\ q.ok = TRUE /\ q.n \in Nat
        /\ p.successCounter = w.successCounter + 1 /\ p.failureCounter = 0
        /\ q.n >= w.successCounter + 1
    BY <2>1, <2>2, ProbedUp
  <2>4. /\ w.successCounter + 1 >= w.opt.success => p.pc = "send" /\ p.condition
        /\ ~(w.successCounter + 1 >= w.opt.success) => p.pc = "select"
    BY ProbedUpReport
  <2> HIDE DEF p, q
  <2>5. Counts(p, q) BY <1>1, <1>2, <2>3, <2>4 DEF Counts
  <2> QED BY <2>5 DEF p, q
<1>4. Counts(Probed(w, FALSE), Longer(st, FALSE))
  <2>1. Longer(st, FALSE).ok = FALSE /\ Longer(st, FALSE).n \in Nat BY LongerType
  <2>2. Longer(st, FALSE).n >= w.failureCounter + 1
    BY <1>1, <1>2, LongerKeepsUp DEF Counts
  <2> DEFINE p == Probed(w, FALSE)
             q == Longer(st, FALSE)
  <2>3. /\ p.opt = w.opt /\ q.ok = FALSE /\ q.n \in Nat
        /\ p.successCounter = 0 /\ p.failureCounter = w.failureCounter + 1
        /\ q.n >= w.failureCounter + 1
    BY <2>1, <2>2, ProbedDown
  <2>4. /\ w.failureCounter + 1 >= w.opt.failure => p.pc = "send" /\ ~p.condition
        /\ ~(w.failureCounter + 1 >= w.opt.failure) => p.pc = "select"
    BY ProbedDownReport
  <2> HIDE DEF p, q
  <2>5. Counts(p, q) BY <1>1, <1>2, <2>3, <2>4 DEF Counts
  <2> QED BY <2>5 DEF p, q
<1> QED BY <1>3, <1>4, Zenon

-----------------------------------------------------------------------------
(* The steps *)

\* What a step that gives a target another worker, or none, has to show of it.
Sound(w, st) == w # NoWorker => w \in Worker /\ Counts(w, st)

SoundWorkers ==
    /\ DOMAIN workers = Targets /\ streak \in [Targets -> [ok : BOOLEAN, n : Nat]]
    /\ \A t \in Targets : Sound(workers[t], streak[t])

\* The rest of the state.
Rest ==
    /\ call \in [UIDs -> [left : SUBSET Targets, add : Options \cup {NoOption}]]
    /\ OneReport
    /\ up \in [Targets -> BOOLEAN]
    /\ flips \in 0 .. MaxFlips

\* The invariant has two parts: the workers one by one, and the rest.
LEMMA SoundPart == ProberInv => SoundWorkers /\ Rest
  BY DEF ProberInv, TypeOK, Counted, SoundWorkers, Sound, Rest, Running

\* One report is at most one.
LEMMA OneReportIsFew ==
    ASSUME OneReport
    PROVE  handling \subseteq Report /\ Cardinality(handling) <= 1
<1>1. CASE handling = {}
  BY <1>1, FS_EmptySet
<1>2. ASSUME NEW r \in Report, handling = {r}
      PROVE  handling \subseteq Report /\ Cardinality(handling) <= 1
  BY <1>2, FS_Singleton
<1> QED BY <1>1, <1>2 DEF OneReport

\* The parts together are the invariant,
LEMMA TogetherInv == SoundWorkers /\ Rest => ProberInv
  BY OneReportIsFew DEF ProberInv, TypeOK, Counted, SoundWorkers, Sound, Rest, Running

\* so either may stand for the other.
LEMMA ProberInvParts == ProberInv <=> SoundWorkers /\ Rest
  BY SoundPart, TogetherInv

\* A sound worker, or none, at one target.
LEMMA PutSound ==
    ASSUME SoundWorkers, NEW t \in Targets, NEW w, NEW st \in [ok : BOOLEAN, n : Nat],
           Sound(w, st), workers' = [workers EXCEPT ![t] = w],
           streak' = [streak EXCEPT ![t] = st]
    PROVE  SoundWorkers'
  BY DEF SoundWorkers

\* Workers that are left alone stay sound.
LEMMA KeepSound ==
    ASSUME SoundWorkers, UNCHANGED <<workers, streak>>
    PROVE  SoundWorkers'
  BY DEF SoundWorkers

\* The manager starts without workers.
LEMMA InitSound == ProberInit => ProberInv
<1> SUFFICES ASSUME ProberInit PROVE SoundWorkers /\ Rest
  BY TogetherInv
<1>1. SoundWorkers
  BY DEF ProberInit, SoundWorkers, Sound, NoProbe
<1>2. call \in [UIDs -> [left : SUBSET Targets, add : Options \cup {NoOption}]]
  BY DEF ProberInit, NoCall
<1> QED BY <1>1, <1>2, ProberAssumption DEF ProberInit, Rest, OneReport

\* A tick only starts a probe.
LEMMA TickSound ==
    ASSUME SoundWorkers, Rest, NEW t \in Targets, Tick(t)
    PROVE  SoundWorkers' /\ Rest'
<1> DEFINE w == workers[t]
           p == [w EXCEPT !.pc = "probe"]
<1>1. w \in Worker /\ Counts(w, streak[t]) /\ w.pc = "select"
  BY DEF Tick, Running, SoundWorkers, Sound
<1>2. p \in Worker /\ Counts(p, streak[t])
  BY <1>1 DEF Worker, Counts
<1>3. workers' = [workers EXCEPT ![t] = p] BY DEF Tick
<1>4. streak' = [streak EXCEPT ![t] = streak[t]] /\ streak[t] \in [ok : BOOLEAN, n : Nat]
  BY DEF Tick, SoundWorkers
<1> HIDE DEF p, w
<1>5. SoundWorkers' BY <1>2, <1>3, <1>4, PutSound DEF Sound
<1> QED BY <1>5 DEF Tick, Rest, OneReport

\* The result of a probe extends the streak, or starts another one.
LEMMA ProbeSound ==
    ASSUME SoundWorkers, Rest, NEW t \in Targets, Probe(t)
    PROVE  SoundWorkers' /\ Rest'
<1> DEFINE w == workers[t]
           st == streak[t]
<1>1. w \in Worker /\ Counts(w, st) /\ w.pc = "probe"
  BY DEF Probe, Running, SoundWorkers, Sound
<1>2. st \in [ok : BOOLEAN, n : Nat] /\ up[t] \in BOOLEAN
  BY DEF SoundWorkers, Rest
<1>3. Probed(w, up[t]) \in Worker BY <1>1, <1>2, ProbedType
<1>4. w.pc # "send" BY <1>1
<1>5. Counts(Probed(w, up[t]), Longer(st, up[t]))
  BY <1>1, <1>2, <1>4, ProbedCounts
<1>6. Longer(st, up[t]) \in [ok : BOOLEAN, n : Nat] BY <1>2, LongerType
<1>7. /\ workers' = [workers EXCEPT ![t] = Probed(w, up[t])]
      /\ streak' = [streak EXCEPT ![t] = Longer(st, up[t])]
  BY DEF Probe
<1> HIDE DEF w, st
<1>8. SoundWorkers' BY <1>3, <1>5, <1>6, <1>7, PutSound DEF Sound
<1> QED BY <1>8 DEF Probe, Rest, OneReport

\* A worker that has reported counts anew.
LEMMA SendSound ==
    ASSUME SoundWorkers, Rest, NEW t \in Targets, Send(t)
    PROVE  SoundWorkers' /\ Rest'
<1> DEFINE w == workers[t]
           p == [w EXCEPT !.pc = "select", !.successCounter = 0, !.failureCounter = 0,
                          !.condition = TRUE]
<1>1. w \in Worker
  BY DEF Send, Running, SoundWorkers, Sound
<1>2. p \in Worker /\ p.opt = w.opt /\ p.pc = "select"
      /\ p.successCounter = 0 /\ p.failureCounter = 0
  BY <1>1 DEF Worker
<1>3. workers' = [workers EXCEPT ![t] = p] BY <1>1 DEF Send, SoundWorkers, Worker
<1>4. streak' = [streak EXCEPT ![t] = NoProbe] /\ NoProbe \in [ok : BOOLEAN, n : Nat]
  BY DEF Send, NoProbe
<1>5. w.condition \in BOOLEAN /\ w.opt \in Options BY <1>1 DEF Worker
<1> HIDE DEF p
<1>6. Counts(p, NoProbe)
  BY <1>2, <1>5, OptionFields DEF Counts
<1>7. SoundWorkers' BY <1>2, <1>3, <1>4, <1>6, PutSound DEF Sound
<1>8. [target |-> t, healthy |-> w.condition] \in Report BY <1>5 DEF Report
<1> QED BY <1>7, <1>8 DEF Send, Rest, OneReport

\* A worker that is added has counted nothing.
LEMMA AddWorkerSound ==
    ASSUME SoundWorkers, Rest, NEW t \in Targets, NEW o \in Options, AddWorker(t, o)
    PROVE  SoundWorkers' /\ Rest'
<1>1. NoProbe \in [ok : BOOLEAN, n : Nat] BY DEF NoProbe
<1>2. CASE ~Running(t)
  <2>1. SoundWorkers' BY <1>1, <1>2, NewWorker, PutSound DEF AddWorker, Sound
  <2> QED BY <1>2, <2>1 DEF AddWorker, Rest, OneReport
<1>3. CASE Running(t)
  <2>1. SoundWorkers' BY <1>3, KeepSound DEF AddWorker
  <2>2. UIDOf[t] \in UIDs BY ProberAssumption
  <2> QED BY <1>3, <2>1, <2>2 DEF AddWorker, Rest, OneReport
<1> QED BY <1>2, <1>3

\* A call that removes workers only begins to wait.
LEMMA RemoveSound ==
    ASSUME SoundWorkers, Rest, NEW u \in UIDs, NEW ts \in SUBSET Targets, Remove(u, ts)
    PROVE  SoundWorkers' /\ Rest'
  BY KeepSound DEF Remove, Rest, OneReport

\* A worker that stops is gone, or replaced by one that has counted nothing.
LEMMA StopSound ==
    ASSUME SoundWorkers, Rest, NEW u \in UIDs, Stop(u)
    PROVE  SoundWorkers' /\ Rest'
<1> PICK t \in call[u].left :
           /\ workers' = [workers EXCEPT ![t] = IF call[u].add = NoOption THEN NoWorker
                                                ELSE New(call[u].add)]
           /\ streak' = [streak EXCEPT ![t] = NoProbe]
           /\ call' = [call EXCEPT ![u] = IF @.left = {t} THEN NoCall
                                          ELSE [left |-> @.left \ {t}, add |-> @.add]]
           /\ UNCHANGED <<handling, up, flips>>
  BY DEF Stop
<1>1. /\ t \in Targets /\ call[u].add \in Options \cup {NoOption}
      /\ call[u] \in [left : SUBSET Targets, add : Options \cup {NoOption}]
  BY DEF Rest
<1>2. NoProbe \in [ok : BOOLEAN, n : Nat] BY DEF NoProbe
<1> DEFINE w == IF call[u].add = NoOption THEN NoWorker ELSE New(call[u].add)
<1>3. Sound(w, NoProbe) BY <1>1, NewWorker DEF Sound
<1>4. workers' = [workers EXCEPT ![t] = w] OBVIOUS
<1> HIDE DEF w
<1>5. SoundWorkers' BY <1>1, <1>2, <1>3, <1>4, PutSound
<1> DEFINE c == IF call[u].left = {t} THEN NoCall
                ELSE [left |-> call[u].left \ {t}, add |-> call[u].add]
<1>6. c \in [left : SUBSET Targets, add : Options \cup {NoOption}] BY <1>1 DEF NoCall
<1>7. call' = [call EXCEPT ![u] = c] OBVIOUS
<1> HIDE DEF c
<1> QED BY <1>5, <1>6, <1>7 DEF Rest, OneReport

\* A report that was handled makes room for the next.
LEMMA HandleSound ==
    ASSUME SoundWorkers, Rest, Handle
    PROVE  SoundWorkers' /\ Rest'
  BY KeepSound DEF Handle, Rest, OneReport

\* Servers that go up or down change no count.
LEMMA FlipSound ==
    ASSUME SoundWorkers, Rest, NEW t \in Targets, Flip(t)
    PROVE  SoundWorkers' /\ Rest'
<1>1. up' \in [Targets -> BOOLEAN] BY DEF Flip, Rest
<1>2. flips' \in 0 .. MaxFlips BY ProberAssumption DEF Flip, Rest
<1> QED BY <1>1, <1>2, KeepSound DEF Flip, Rest, OneReport

-----------------------------------------------------------------------------
(* The invariant *)

\* Every step of the prober keeps the counters in step with the results.
LEMMA PartsSound ==
    ASSUME SoundWorkers, Rest, [Next]_proberVars
    PROVE  SoundWorkers' /\ Rest'
<1>1. ASSUME NEW t \in Targets, Step(t) PROVE SoundWorkers' /\ Rest'
  BY <1>1, TickSound, ProbeSound, SendSound DEF Step
<1>2. ASSUME NEW t \in Targets, Flip(t) PROVE SoundWorkers' /\ Rest'
  BY <1>2, FlipSound
<1>3. ASSUME NEW u \in UIDs, Stop(u) PROVE SoundWorkers' /\ Rest'
  BY <1>3, StopSound
<1>4. ASSUME NEW t \in Targets, RemoveWorker(t) PROVE SoundWorkers' /\ Rest'
  BY <1>4, RemoveSound, ProberAssumption DEF RemoveWorker
<1>5. ASSUME NEW t \in Targets, NEW o \in Options, AddWorker(t, o)
      PROVE  SoundWorkers' /\ Rest'
  BY <1>5, AddWorkerSound
<1>6. ASSUME NEW u \in UIDs, RemoveWorkersByUid(u) PROVE SoundWorkers' /\ Rest'
  BY <1>6, RemoveSound DEF RemoveWorkersByUid
<1>7. CASE Handle BY <1>7, HandleSound
<1>8. CASE UNCHANGED proberVars
  BY <1>8, KeepSound DEF proberVars, Rest, OneReport
<1> QED BY <1>1, <1>2, <1>3, <1>4, <1>5, <1>6, <1>7, <1>8 DEF Next, Calls

\* Every step of the prober keeps the invariant.
LEMMA NextSound == ProberInv /\ [Next]_proberVars => ProberInv'
<1>1. SoundWorkers /\ Rest /\ [Next]_proberVars => SoundWorkers' /\ Rest'
  BY PartsSound
<1> QED BY <1>1, ProberInvParts, PTL

\* A worker that is about to report has counted as many results as it says.
LEMMA CountedIsEarned == ProberInv => ReportsAreEarned
<1> SUFFICES ASSUME ProberInv, NEW t \in Targets, Running(t), workers[t].pc = "send"
             PROVE  /\ streak[t].ok = workers[t].condition
                    /\ streak[t].n >= IF workers[t].condition THEN workers[t].opt.success
                                      ELSE workers[t].opt.failure
  BY DEF ReportsAreEarned
<1> DEFINE w == workers[t]
           st == streak[t]
<1>1. w \in Worker /\ st \in [ok : BOOLEAN, n : Nat] /\ Counts(w, st)
  BY DEF ProberInv, TypeOK, Counted, Running
<1>2. w.opt.success \in Nat \ {0} /\ w.opt.failure \in Nat \ {0}
  BY <1>1, OptionFields DEF Worker
<1> HIDE DEF w, st
<1>3. CASE w.condition = TRUE
  BY <1>1, <1>2, <1>3 DEF Counts, Worker, w, st
<1>4. CASE w.condition = FALSE
  BY <1>1, <1>2, <1>4 DEF Counts, Worker, w, st
<1>5. w.condition \in BOOLEAN BY <1>1 DEF Worker
<1> QED BY <1>3, <1>4, <1>5, Zenon DEF w, st

\* The inductive invariant holds.
LEMMA ProberInvariant == Spec => []ProberInv
  BY InitSound, NextSound, PTL DEF Spec

\* The state of the prober is well typed, and one report at most is handled at
\* a time, whatever calls are made to the manager.
THEOREM ProberTypeCorrect == Spec => []TypeOK
<1>1. ProberInv => TypeOK BY DEF ProberInv
<1> QED BY <1>1, ProberInvariant, PTL

\* Every report is earned: as many results in a row as the threshold says, all
\* since the last report of the worker that makes it.
THEOREM EveryReportIsEarned == Spec => []ReportsAreEarned
  BY CountedIsEarned, ProberInvariant, PTL

-----------------------------------------------------------------------------
(* Types *)

\* The state outside of the prober.
ObjectsOK ==
    /\ vmi \in [Targets -> {"noIP", "ip", "gone"}]
    /\ lb \in LoadBalancer /\ lbCache \in LoadBalancer /\ lbSynced \in BOOLEAN
    /\ svc \in Service /\ svcCache \in Service /\ svcSynced \in BOOLEAN
    /\ slice \in Slice /\ sliceCache \in Slice /\ sliceSynced \in BOOLEAN
    /\ queued \in BOOLEAN
    /\ pass \in Pass
    /\ handler \in Handler
    /\ edits \in 0 .. MaxEdits

SvcInv == ProberInv /\ ObjectsOK

\* There is a spec: the load balancer has one.
LEMMA SomeSpecType ==
    ASSUME NEW s \in Specs
    PROVE  SomeSpec \in Specs /\ SomePorts \in Ports
  BY DEF SomeSpec, SomePorts, Ports

\* What a spec consists of.
LEMMA SpecFields ==
    ASSUME NEW s \in Specs
    PROVE  /\ s.ports \in Ports /\ s.pool \in Pools \cup {AskDHCP} /\ s.pool \in Addresses
           /\ s.hc # NoOption => GenerateOneProber(s.hc) \in Options
  BY ServiceLBAssumption DEF Ports, Addresses

\* An EndpointSlice that is not there is one.
LEMMA NoSliceType ==
    ASSUME NEW p \in Ports
    PROVE  NoSlice(p) \in Slice
  BY DEF NoSlice, Slice

\* A status to begin with is one.
LEMMA NewStatusType == NewStatus \in Status
  BY DEF NewStatus, Status, Reasons, Addresses

\* A pass and a handler with nothing to do are well typed.
LEMMA IdleTypes ==
    ASSUME NEW s \in Specs
    PROVE  IdlePass \in Pass /\ IdleHandler \in Handler
<1>1. SomeSpec \in Specs /\ NoSlice(SomePorts) \in Slice
  BY SomeSpecType, NoSliceType
<1>2. [state |-> "gone", spec |-> SomeSpec, status |-> NewStatus] \in LoadBalancer
  BY <1>1, NewStatusType DEF LoadBalancer
<1>3. IdlePass \in Pass
  BY <1>1, <1>2, NewStatusType DEF IdlePass, Pass
<1>4. IdleHandler \in Handler
  BY <1>1 DEF IdleHandler, Handler
<1> QED BY <1>3, <1>4

\* handleError writes a reason it knows.
LEMMA NotReadyType ==
    ASSUME NEW st \in Status, NEW r \in Reasons
    PROVE  NotReady(st, r) \in Status
  BY DEF NotReady, Status

\* constructService makes a Service.
LEMMA ConstructServiceType ==
    ASSUME NEW cur \in Service, NEW obj \in LoadBalancer
    PROVE  ConstructService(cur, obj) \in Service
<1>1. obj.spec.ports \in Ports /\ obj.status.allocated \in Addresses /\ AskDHCP \in Addresses
  BY SpecFields DEF LoadBalancer, Status, Addresses
<1> QED BY <1>1 DEF ConstructService, Service

\* constructEndpointSliceFromBackendServers makes an EndpointSlice.
LEMMA ConstructType ==
    ASSUME NEW cur \in Slice, NEW ports \in Ports, NEW servers \in SUBSET Targets
    PROVE  Construct(cur, ports, servers) \in Slice
  BY DEF Construct, Slice

\* What ends a pass leaves a pass that writes the status, or none.
LEMMA FinishType ==
    ASSUME ObjectsOK, NEW st \in Status, NEW again \in BOOLEAN, Finish(st, again)
    PROVE  pass' \in Pass /\ queued' \in BOOLEAN
<1>1. IdlePass \in Pass BY IdleTypes DEF ObjectsOK, LoadBalancer
<1>2. pass.obj \in LoadBalancer /\ pass.fresh \in BOOLEAN BY DEF ObjectsOK, Pass
<1>3. [IdlePass EXCEPT !.pc = "write", !.obj = pass.obj, !.fresh = pass.fresh, !.status = st]
        \in Pass
  BY <1>1, <1>2 DEF Pass
<1> QED BY <1>1, <1>3 DEF Finish, ObjectsOK

\* A pass that fails has a status to write.
LEMMA FailType ==
    ASSUME ObjectsOK, NEW st \in Status, Fail(st)
    PROVE  pass' \in Pass /\ queued' \in BOOLEAN
  BY FinishType, NotReadyType DEF Fail, Reasons

\* Steps of the pass.
LEMMA PassFields ==
    ASSUME ObjectsOK
    PROVE  /\ pass.obj \in LoadBalancer /\ pass.fresh \in BOOLEAN
           /\ pass.slice \in Slice /\ pass.sliceFresh \in BOOLEAN
           /\ pass.servers \in SUBSET Targets /\ pass.matched \in BOOLEAN
           /\ pass.status \in Status /\ pass.obj.spec \in Specs /\ pass.obj.status \in Status
  BY DEF ObjectsOK, Pass, LoadBalancer

\* Types are kept by the pass, step by step: it takes the object,
LEMMA TakeType ==
    ASSUME ObjectsOK, Take
    PROVE  ObjectsOK'
<1>1. IdlePass \in Pass BY IdleTypes DEF ObjectsOK, LoadBalancer
<1>2. lbCache \in LoadBalancer /\ lbCache.status \in Status /\ lbSynced \in BOOLEAN
  BY DEF ObjectsOK, LoadBalancer
<1>3. EnsureAllocatedAddress(lbCache) \in Addresses
  BY <1>2, SpecFields DEF EnsureAllocatedAddress, LoadBalancer, Addresses
<1> DEFINE taken(pc) == [IdlePass EXCEPT !.pc = pc, !.obj = lbCache, !.fresh = lbSynced,
                                         !.status = lbCache.status]
<1>4. taken("service") \in Pass /\ taken("delete") \in Pass
  BY <1>1, <1>2 DEF Pass
<1>5. [taken("service") EXCEPT !.status.allocated = EnsureAllocatedAddress(lbCache)] \in Pass
  BY <1>3, <1>4 DEF Pass, Status
<1>6. pass' \in Pass /\ queued' \in BOOLEAN
  BY <1>4, <1>5 DEF Take, ObjectsOK
<1> QED BY <1>6 DEF Take, ObjectsOK, lbVars, svcVars, sliceVars

\* ensures the Service,
LEMMA EnsureServiceType ==
    ASSUME ObjectsOK, EnsureService
    PROVE  ObjectsOK'
<1>1. ConstructService(svcCache, pass.obj) \in Service
  BY PassFields, ConstructServiceType DEF ObjectsOK
<1>2. [pass EXCEPT !.pc = "serviceIP"] \in Pass
  BY DEF ObjectsOK, Pass
<1>3. pass' \in Pass /\ queued' \in BOOLEAN
  BY <1>2, PassFields, FailType DEF EnsureService, Continue, ObjectsOK
<1>4. svc' \in Service /\ svcSynced' \in BOOLEAN
  BY <1>1 DEF EnsureService, ObjectsOK
<1> QED BY <1>3, <1>4 DEF EnsureService, ObjectsOK, lbVars, sliceVars

\* its address,
LEMMA EnsureServiceIPType ==
    ASSUME ObjectsOK, EnsureServiceIP
    PROVE  ObjectsOK'
<1> DEFINE st == [pass.status EXCEPT !.address = svcCache.ip]
<1>1. st \in Status
  BY PassFields DEF ObjectsOK, Status, Service
<1>2. [pass EXCEPT !.pc = "slice", !.status = st] \in Pass
  BY <1>1 DEF ObjectsOK, Pass
<1>3. NotReady(st, "wait") \in Status BY <1>1, NotReadyType DEF Reasons
<1>4. \/ Fail(st) \/ Finish(NotReady(st, "wait"), TRUE)
      \/ Continue([pass EXCEPT !.pc = "slice", !.status = st])
  BY DEF EnsureServiceIP
<1> HIDE DEF st
<1>5. pass' \in Pass /\ queued' \in BOOLEAN
  BY <1>1, <1>2, <1>3, <1>4, FailType, FinishType DEF Continue, ObjectsOK
<1> QED BY <1>5 DEF EnsureServiceIP, ObjectsOK, lbVars, svcVars, sliceVars

\* The EndpointSlice and the handler, after the pass has written or not.
LEMMA PassWritesType ==
    ASSUME ObjectsOK, NEW new \in Slice,
           PassWrites(new) \/ UNCHANGED <<sliceVars, handler>>
    PROVE  /\ slice' \in Slice /\ sliceCache' \in Slice /\ sliceSynced' \in BOOLEAN
           /\ handler' \in Handler
  BY DEF ObjectsOK, PassWrites, sliceVars, Handler

\* and the EndpointSlice,
LEMMA EnsureSliceType ==
    ASSUME ObjectsOK, EnsureSlice
    PROVE  ObjectsOK'
<1> DEFINE servers == {t \in Targets : vmi[t] = "ip"}
           new == Construct(sliceCache, pass.obj.spec.ports, servers)
           next(fresh) ==
            [pass EXCEPT !.pc = "probes", !.slice = new, !.sliceFresh = fresh,
                         !.servers = servers,
                         !.matched = \E t \in Targets : vmi[t] # "gone"]
<1>1. servers \in SUBSET Targets /\ new \in Slice
  BY PassFields, SpecFields, ConstructType DEF ObjectsOK
<1> HIDE DEF servers, new
<1>2. next(sliceSynced) \in Pass /\ next(TRUE) \in Pass
  BY <1>1 DEF ObjectsOK, Pass
<1>3. Fail(pass.status) => pass' \in Pass /\ queued' \in BOOLEAN
  BY PassFields, FailType
<1>4. pass' \in Pass /\ queued' \in BOOLEAN
  BY <1>2, <1>3 DEF EnsureSlice, Continue, ObjectsOK, new, servers
<1>5. PassWrites(new) \/ UNCHANGED <<sliceVars, handler>>
  BY DEF EnsureSlice, new, servers
<1> QED BY <1>1, <1>4, <1>5, PassWritesType DEF EnsureSlice, ObjectsOK, lbVars, svcVars

\* removes the probers if there is no health check,
LEMMA RemoveProbersType ==
    ASSUME ObjectsOK, RemoveProbers
    PROVE  ObjectsOK'
<1>1. pass' \in Pass BY DEF RemoveProbers, Continue, ObjectsOK, Pass
<1> QED BY <1>1 DEF RemoveProbers, Continue, ObjectsOK, lbVars, svcVars, sliceVars

\* marks all endpoints Ready then,
LEMMA UpdateAllConditionsType ==
    ASSUME ObjectsOK, UpdateAllConditions
    PROVE  ObjectsOK'
<1> DEFINE new == [pass.slice EXCEPT
                     !.ready = [t \in Targets |-> IF @[t] = "none" THEN "none" ELSE "ready"]]
<1>1. new \in Slice BY PassFields DEF Slice
<1>2. PassWrites(new) \/ UNCHANGED <<sliceVars, handler>>
  BY DEF UpdateAllConditions
<1>3. /\ [pass EXCEPT !.pc = "dummy"] \in Pass
      /\ [pass EXCEPT !.pc = "dummy", !.sliceFresh = FALSE] \in Pass
  BY DEF ObjectsOK, Pass
<1>4. Fail(pass.status) => pass' \in Pass /\ queued' \in BOOLEAN
  BY PassFields, FailType
<1>5. pass' \in Pass /\ queued' \in BOOLEAN
  BY <1>3, <1>4 DEF UpdateAllConditions, Continue, ObjectsOK
<1> HIDE DEF new
<1> QED BY <1>1, <1>2, <1>5, PassWritesType DEF UpdateAllConditions, ObjectsOK, lbVars, svcVars

\* or brings the probers up to date,
LEMMA UpdateProbersType ==
    ASSUME ObjectsOK, UpdateProbers
    PROVE  ObjectsOK'
<1>1. [pass EXCEPT !.pc = "dummy"] \in Pass BY DEF ObjectsOK, Pass
<1>2. pass' \in Pass /\ queued' \in BOOLEAN
  BY <1>1 DEF UpdateProbers, Continue, ObjectsOK
<1> QED BY <1>2 DEF UpdateProbers, ObjectsOK, lbVars, svcVars, sliceVars

\* adds or removes the dummy endpoint,
LEMMA EnsureDummyEndpointType ==
    ASSUME ObjectsOK, EnsureDummyEndpoint
    PROVE  ObjectsOK'
<1> DEFINE active == ReadyOnes(pass.slice) # {}
           new == [pass.slice EXCEPT !.dummy = IF active THEN FALSE ELSE TRUE]
           next == [pass EXCEPT !.pc = "verdict", !.status.servers = pass.servers,
                                !.slice = NoSlice(SomePorts), !.sliceFresh = FALSE]
<1>1. new \in Slice
  <2>1. (IF active THEN FALSE ELSE TRUE) \in BOOLEAN OBVIOUS
  <2> HIDE DEF active
  <2> QED BY <2>1, PassFields DEF Slice
<1>2. PassWrites(new) \/ UNCHANGED <<sliceVars, handler>>
  BY DEF EnsureDummyEndpoint
<1>3. next \in Pass
  <2>1. NoSlice(SomePorts) \in Slice
    BY PassFields, SomeSpecType, NoSliceType
  <2>2. [pass.status EXCEPT !.servers = pass.servers] \in Status
    BY PassFields DEF Status
  <2> QED BY <2>1, <2>2 DEF ObjectsOK, Pass
<1>4. Fail(pass.status) => pass' \in Pass /\ queued' \in BOOLEAN
  BY PassFields, FailType
<1>5. Continue(next) \/ Fail(pass.status)
  BY DEF EnsureDummyEndpoint
<1> HIDE DEF new, next
<1>6. pass' \in Pass /\ queued' \in BOOLEAN
  BY <1>3, <1>4, <1>5 DEF Continue, ObjectsOK
<1> QED BY <1>1, <1>2, <1>6, PassWritesType DEF EnsureDummyEndpoint, ObjectsOK, lbVars, svcVars

\* comes to a verdict,
LEMMA VerdictType ==
    ASSUME ObjectsOK, Verdict
    PROVE  ObjectsOK'
<1> DEFINE st == pass.status
           ready == [st EXCEPT !.cond = "True", !.reason = ""]
<1>1. /\ st \in Status /\ ready \in Status
      /\ \A r \in Reasons : NotReady(st, r) \in Status
  BY PassFields, NotReadyType DEF Status, Reasons
<1>2. \/ \E r \in Reasons : Finish(NotReady(st, r), FALSE)
      \/ Fail(st) \/ Finish(ready, FALSE)
  BY DEF Verdict, Reasons
<1> HIDE DEF st, ready
<1>3. pass' \in Pass /\ queued' \in BOOLEAN
  BY <1>1, <1>2, FinishType, FailType
<1> QED BY <1>3 DEF Verdict, ObjectsOK, lbVars, svcVars, sliceVars

\* and writes it;
LEMMA WriteStatusType ==
    ASSUME ObjectsOK, WriteStatus
    PROVE  ObjectsOK'
<1>1. IdlePass \in Pass BY PassFields, IdleTypes
<1>2. [pass.obj EXCEPT !.status = pass.status] \in LoadBalancer
  BY PassFields DEF LoadBalancer
<1> QED BY <1>1, <1>2 DEF WriteStatus, ObjectsOK, svcVars, sliceVars

\* or it removes the probers of an object that is being deleted,
LEMMA DeleteLoadBalancerType ==
    ASSUME ObjectsOK, DeleteLoadBalancer
    PROVE  ObjectsOK'
<1>1. pass' \in Pass BY DEF DeleteLoadBalancer, Continue, ObjectsOK, Pass
<1> QED BY <1>1 DEF DeleteLoadBalancer, Continue, ObjectsOK, lbVars, svcVars, sliceVars

\* and its finalizer.
LEMMA RemoveFinalizerType ==
    ASSUME ObjectsOK, RemoveFinalizer
    PROVE  ObjectsOK'
<1>1. IdlePass \in Pass BY PassFields, IdleTypes
<1>2. [lb EXCEPT !.state = "gone"] \in LoadBalancer
  BY DEF ObjectsOK, LoadBalancer
<1> QED BY <1>1, <1>2 DEF RemoveFinalizer, ObjectsOK, svcVars, sliceVars

\* No step of a pass writes what is not of its type.
LEMMA PassStepType ==
    ASSUME ObjectsOK, PassStep
    PROVE  ObjectsOK'
  BY TakeType, EnsureServiceType, EnsureServiceIPType, EnsureSliceType, RemoveProbersType,
     UpdateAllConditionsType, UpdateProbersType, EnsureDummyEndpointType, VerdictType,
     WriteStatusType, DeleteLoadBalancerType, RemoveFinalizerType DEF PassStep

\* The handler of reports.
LEMMA UpdateHealthConditionType ==
    ASSUME ObjectsOK, ProberInv, UpdateHealthCondition
    PROVE  ObjectsOK'
<1>1. CASE NotifyHealth
  <2>1. [busy |-> TRUE, slice |-> sliceCache, fresh |-> sliceSynced] \in Handler
    BY DEF ObjectsOK, Handler
  <2> QED BY <1>1, <2>1 DEF NotifyHealth, ObjectsOK, lbVars, svcVars, sliceVars
<1>2. CASE UpdateCondition
  <2> PICK r \in handling :
         /\ \/ /\ slice' = [handler.slice EXCEPT !.ready[r.target] = Condition(r.healthy)]
               /\ sliceSynced' = FALSE
               /\ pass' = [pass EXCEPT !.sliceFresh = FALSE]
            \/ UNCHANGED <<slice, sliceSynced, pass>>
         /\ handler' = IdleHandler
    BY <1>2 DEF UpdateCondition
  <2>1. r \in Report BY DEF ProberInv, TypeOK
  <2>2. r.target \in Targets /\ Condition(r.healthy) \in {"none", "ready", "notReady"}
    BY <2>1 DEF Report, Condition
  <2>3. handler.slice \in Slice BY DEF ObjectsOK, Handler
  <2>4. [handler.slice EXCEPT !.ready[r.target] = Condition(r.healthy)] \in Slice
    BY <2>2, <2>3 DEF Slice
  <2>5. [pass EXCEPT !.sliceFresh = FALSE] \in Pass BY DEF ObjectsOK, Pass
  <2>6. IdleHandler \in Handler BY PassFields, IdleTypes
  <2>7. /\ slice' \in Slice /\ sliceSynced' \in BOOLEAN /\ pass' \in Pass
        /\ handler' \in Handler
    BY <2>4, <2>5, <2>6 DEF ObjectsOK
  <2> QED BY <1>2, <2>7 DEF UpdateCondition, ObjectsOK, lbVars, svcVars
<1> QED BY <1>1, <1>2 DEF UpdateHealthCondition

\* Informers, kube-vip, the garbage collector, users and virtual machines.
LEMMA SyncType ==
    ASSUME ObjectsOK, SyncLB \/ SyncService \/ SyncSlice
    PROVE  ObjectsOK'
<1>1. CASE SyncLB
  BY <1>1 DEF SyncLB, ObjectsOK, svcVars, sliceVars
<1>2. CASE SyncService
  BY <1>2 DEF SyncService, ObjectsOK, lbVars, sliceVars
<1>3. CASE SyncSlice
  BY <1>3 DEF SyncSlice, ObjectsOK, lbVars, svcVars
<1> QED BY <1>1, <1>2, <1>3

\* Nor does kube-vip,
LEMMA KubeVipType ==
    ASSUME ObjectsOK, KubeVip
    PROVE  ObjectsOK'
<1>1. [svc EXCEPT !.ip = svc.want] \in Service BY DEF ObjectsOK, Service
<1> QED BY <1>1 DEF KubeVip, ObjectsOK, lbVars, sliceVars

\* the garbage collector,
LEMMA CollectGarbageType ==
    ASSUME ObjectsOK, CollectGarbage
    PROVE  ObjectsOK'
<1>1. NoSlice(slice.ports) \in Slice BY NoSliceType DEF ObjectsOK, Slice
<1>2. NoService(svc.ports) \in Service BY DEF ObjectsOK, Service, NoService, Addresses
<1>3. [handler EXCEPT !.fresh = FALSE] \in Handler BY DEF ObjectsOK, Handler
<1> QED BY <1>1, <1>2, <1>3 DEF CollectGarbage, ObjectsOK, lbVars

\* a write by a user,
LEMMA EditType ==
    ASSUME ObjectsOK, NEW new \in LoadBalancer, Edit(new)
    PROVE  ObjectsOK'
<1>1. [pass EXCEPT !.fresh = FALSE] \in Pass BY DEF ObjectsOK, Pass
<1>2. edits' \in 0 .. MaxEdits BY ServiceLBAssumption DEF Edit, ObjectsOK
<1> QED BY <1>1, <1>2 DEF Edit, ObjectsOK, svcVars, sliceVars

\* an edit or a deletion,
LEMMA EditLBType ==
    ASSUME ObjectsOK, EditLB \/ DeleteLB
    PROVE  ObjectsOK'
<1>1. /\ \A s \in Specs : [lb EXCEPT !.spec = s] \in LoadBalancer
      /\ [lb EXCEPT !.state = "deleting"] \in LoadBalancer
  BY DEF ObjectsOK, LoadBalancer
<1> QED BY <1>1, EditType DEF EditLB, DeleteLB

\* an instance that gets an address or goes,
LEMMA ChangeVMIType ==
    ASSUME ObjectsOK, NEW t \in Targets, ChangeVMI(t)
    PROVE  ObjectsOK'
<1>1. vmi' \in [Targets -> {"noIP", "ip", "gone"}] BY DEF ChangeVMI, ObjectsOK
<1>2. edits' \in 0 .. MaxEdits BY ServiceLBAssumption DEF ChangeVMI, ObjectsOK
<1>3. queued' \in BOOLEAN BY DEF ChangeVMI
<1> QED BY <1>1, <1>2, <1>3 DEF ChangeVMI, ObjectsOK, lbVars, svcVars, sliceVars

\* or a server that goes up or down.
LEMMA FlipTargetType ==
    ASSUME ObjectsOK, NEW t \in Targets, FlipTarget(t)
    PROVE  ObjectsOK'
<1>1. edits' \in 0 .. MaxEdits BY ServiceLBAssumption DEF FlipTarget, ObjectsOK
<1> QED BY <1>1 DEF FlipTarget, ObjectsOK, lbVars, svcVars, sliceVars

\* Every step keeps the types of the objects.
LEMMA SvcNextType ==
    ASSUME ObjectsOK, ProberInv, [SvcNext]_svcLBVars
    PROVE  ObjectsOK'
<1>1. CASE ProberSteps \/ UNCHANGED svcLBVars
  BY <1>1 DEF ProberSteps, svcLBVars, otherVars, ObjectsOK
<1> QED BY <1>1, PassStepType, UpdateHealthConditionType, SyncType, KubeVipType,
           CollectGarbageType, EditLBType, ChangeVMIType, FlipTargetType DEF SvcNext

-----------------------------------------------------------------------------
(* What the load balancer does to the prober is what any caller may do *)

\* A pass uses the prober by its calls only.
LEMMA PassStepIsProberStep ==
    ASSUME ObjectsOK, PassStep
    PROVE  [Next]_proberVars
<1>1. Uid \in UIDs BY ServiceLBAssumption
<1>2. CASE RemoveProbers
  BY <1>1, <1>2 DEF RemoveProbers, Next, Calls
<1>3. CASE DeleteLoadBalancer
  BY <1>1, <1>3 DEF DeleteLoadBalancer, Next, Calls
<1>4. CASE UpdateProbers
  <2>1. GenerateOneProber(pass.obj.spec.hc) \in Options
    BY <1>4, PassFields, SpecFields DEF UpdateProbers
  <2>2. \/ \E t \in Targets : RemoveWorker(t)
        \/ \E t \in Targets : AddWorker(t, GenerateOneProber(pass.obj.spec.hc))
        \/ UNCHANGED proberVars
    BY <1>4 DEF UpdateProbers, Endpoints
  <2> QED BY <2>1, <2>2 DEF Next, Calls
<1>5. CASE Take BY <1>5 DEF Take
<1>6. CASE EnsureService BY <1>6 DEF EnsureService
<1>7. CASE EnsureServiceIP BY <1>7 DEF EnsureServiceIP
<1>8. CASE EnsureSlice BY <1>8 DEF EnsureSlice
<1>9. CASE UpdateAllConditions BY <1>9 DEF UpdateAllConditions
<1>10. CASE EnsureDummyEndpoint BY <1>10 DEF EnsureDummyEndpoint
<1>11. CASE Verdict BY <1>11 DEF Verdict
<1>12. CASE WriteStatus BY <1>12 DEF WriteStatus
<1>13. CASE RemoveFinalizer BY <1>13 DEF RemoveFinalizer
<1> QED BY <1>2, <1>3, <1>4, <1>5, <1>6, <1>7, <1>8, <1>9, <1>10, <1>11, <1>12, <1>13
        DEF PassStep

\* Everyone else does, too.
LEMMA SvcNextIsProberStep ==
    ASSUME ObjectsOK, [SvcNext]_svcLBVars
    PROVE  [Next]_proberVars
<1>1. Uid \in UIDs BY ServiceLBAssumption
<1>2. CASE UpdateHealthCondition
  <2>1. CASE NotifyHealth BY <2>1 DEF NotifyHealth, Next
  <2>2. CASE UpdateCondition BY <2>2 DEF UpdateCondition, Next
  <2> QED BY <1>2, <2>1, <2>2 DEF UpdateHealthCondition
<1>3. CASE ProberSteps BY <1>1, <1>3 DEF ProberSteps, Next
<1>4. CASE SyncLB \/ SyncService \/ SyncSlice \/ KubeVip \/ CollectGarbage
  BY <1>4 DEF SyncLB, SyncService, SyncSlice, KubeVip, CollectGarbage
<1>5. CASE EditLB \/ DeleteLB BY <1>5 DEF EditLB, DeleteLB, Edit
<1>6. ASSUME NEW t \in Targets, ChangeVMI(t) PROVE UNCHANGED proberVars
  BY <1>6 DEF ChangeVMI
<1>7. ASSUME NEW t \in Targets, FlipTarget(t) PROVE Next
  BY <1>7 DEF FlipTarget, Next
<1>8. CASE UNCHANGED svcLBVars BY <1>8 DEF svcLBVars
<1> QED BY <1>2, <1>3, <1>4, <1>5, <1>6, <1>7, <1>8, PassStepIsProberStep DEF SvcNext

\* The types, and the prober's own invariant, which its steps keep.
LEMMA SvcInitInv == SvcInit => SvcInv
<1> SUFFICES ASSUME SvcInit PROVE SvcInv OBVIOUS
<1>1. ProberInv BY InitSound DEF SvcInit
<1> PICK s \in Specs :
      LET address == IF s.pool = AskDHCP THEN AskDHCP ELSE NoAddress
      IN  /\ lb = [state |-> "live", spec |-> s,
                   status |-> [NewStatus EXCEPT !.reason = "error", !.allocated = address,
                                                !.address = address]]
          /\ svc = [exists |-> s.pool = AskDHCP, ports |-> s.ports,
                    want |-> address, ip |-> address]
  BY DEF SvcInit
<1> DEFINE address == IF s.pool = AskDHCP THEN AskDHCP ELSE NoAddress
           st == [NewStatus EXCEPT !.reason = "error", !.allocated = address,
                                   !.address = address]
<1>2. address \in Addresses BY DEF Addresses
<1> HIDE DEF address
<1>3. st \in Status BY <1>2, NewStatusType DEF Status, Reasons
<1>4. lb = [state |-> "live", spec |-> s, status |-> st] BY DEF address
<1>5. svc = [exists |-> s.pool = AskDHCP, ports |-> s.ports, want |-> address, ip |-> address]
  BY DEF address
<1> HIDE DEF st
<1>6. lb \in LoadBalancer /\ lb.spec = s BY <1>3, <1>4 DEF LoadBalancer
<1>7. svc \in Service BY <1>2, <1>5, SpecFields DEF Service
<1>8. NoSlice(lb.spec.ports) \in Slice BY <1>6, SpecFields, NoSliceType
<1>9. vmi \in [Targets -> {"noIP", "ip", "gone"}] BY DEF SvcInit
<1>10. edits \in 0 .. MaxEdits BY ServiceLBAssumption DEF SvcInit
<1> QED BY <1>1, <1>6, <1>7, <1>8, <1>9, <1>10, IdleTypes DEF SvcInit, SvcInv, ObjectsOK

\* Every step keeps the prober sound and the objects typed.
LEMMA SvcNextInv == SvcInv /\ [SvcNext]_svcLBVars => SvcInv'
<1> SUFFICES ASSUME SvcInv, [SvcNext]_svcLBVars PROVE SvcInv'
  OBVIOUS
<1>1. ObjectsOK' BY SvcNextType DEF SvcInv
<1>2. [Next]_proberVars BY SvcNextIsProberStep DEF SvcInv
<1>3. ProberInv' BY <1>2, NextSound DEF SvcInv
<1> QED BY <1>1, <1>3 DEF SvcInv

\* Both hold of a served load balancer.
LEMMA SvcInvariant == SvcSpec => []SvcInv
  BY SvcInitInv, SvcNextInv, PTL DEF SvcSpec

\* The state of a served load balancer is well typed: no condition, phase or
\* address is written that the code does not know.
THEOREM ServiceTypeCorrect == SvcSpec => []ServiceTypeOK
<1>1. SvcInv => ServiceTypeOK BY DEF SvcInv, ObjectsOK, ProberInv, ServiceTypeOK
<1> QED BY <1>1, SvcInvariant, PTL

\* Served load balancers use the prober as its own specification allows: every
\* step is a step of the prober or leaves it alone.
THEOREM ServiceUsesProber == SvcSpec => ProberInit /\ [][Next]_proberVars
<1>1. SvcInit => ProberInit BY DEF SvcInit
<1>2. SvcInv /\ [SvcNext]_svcLBVars => [Next]_proberVars
  BY SvcNextIsProberStep DEF SvcInv
<1> QED BY <1>1, <1>2, SvcInvariant, PTL DEF SvcSpec

\* Every report that reaches the controller's handler is earned: a pass that
\* removes a worker and starts another one carries no result over.
THEOREM ServiceReportsAreEarned == SvcSpec => []ReportsAreEarned
<1>1. SvcInv => ReportsAreEarned BY CountedIsEarned DEF SvcInv
<1> QED BY <1>1, SvcInvariant, PTL

-----------------------------------------------------------------------------
(* A load balancer that is gone has no worker *)

\* A pass of OnChange: it may start workers.
Working == pass.pc \notin {"idle", "delete", "deleted"}

\* The cache and the pass hold the current version when they say so, and an
\* older one otherwise: a load balancer does not come back to life.
Versions ==
    /\ lbSynced => lbCache = lb
    /\ pass.fresh => pass.obj = lb
    /\ lbCache.state # "live" => lb.state # "live"

\* OnChange works on a live copy and OnRemove on one that is not; only OnRemove
\* lets a load balancer go.
Phases ==
    /\ Working => pass.obj.state = "live"
    /\ pass.pc \in {"delete", "deleted"} => lbCache.state # "live"
    /\ lb.state = "gone" => lbCache.state # "live" /\ ~Working

\* Nobody replaces a worker, and after OnRemove has called
\* RemoveWorkersByUid every worker is being stopped.
Stopping ==
    /\ call[Uid].add = NoOption
    /\ pass.pc = "deleted" => \A t \in Targets : Running(t) => t \in call[Uid].left

GoneInv == Versions /\ Phases /\ Stopping /\ GoneHasNoWorkers

\* What the steps of OnChange after the first have in common.
WorkStep ==
    /\ Working /\ UNCHANGED <<lb, lbCache, lbSynced>>
    /\ \/ pass'.pc = "idle" /\ pass'.fresh = FALSE
       \/ /\ pass'.pc \notin {"idle", "delete", "deleted"}
          /\ pass'.obj = pass.obj /\ pass'.fresh = pass.fresh

\* A pass ends, or goes on to the write of the status with its copy of the
\* object.
LEMMA FinishFields ==
    ASSUME ObjectsOK, NEW st, NEW again, Finish(st, again)
    PROVE  \/ pass'.pc = "idle" /\ pass'.fresh = FALSE /\ pass'.sliceFresh = FALSE
           \/ /\ pass'.pc = "write" /\ pass'.obj = pass.obj /\ pass'.fresh = pass.fresh
              /\ pass'.sliceFresh = FALSE
<1>1. CASE pass' = IdlePass BY <1>1 DEF IdlePass
<1>2. CASE pass' = [IdlePass EXCEPT !.pc = "write", !.obj = pass.obj,
                                    !.fresh = pass.fresh, !.status = st]
  BY <1>2 DEF IdlePass
<1> QED BY <1>1, <1>2 DEF Finish

\* The same of one that fails.
LEMMA FailFields ==
    ASSUME ObjectsOK, NEW st, Fail(st)
    PROVE  \/ pass'.pc = "idle" /\ pass'.fresh = FALSE /\ pass'.sliceFresh = FALSE
           \/ /\ pass'.pc = "write" /\ pass'.obj = pass.obj /\ pass'.fresh = pass.fresh
              /\ pass'.sliceFresh = FALSE
  BY FinishFields DEF Fail

\* The steps of OnChange keep the object they work on.
LEMMA WorkSteps ==
    ASSUME ObjectsOK,
           \/ EnsureService \/ EnsureServiceIP \/ EnsureSlice \/ RemoveProbers
           \/ UpdateAllConditions \/ UpdateProbers \/ EnsureDummyEndpoint \/ Verdict
    PROVE  WorkStep
<1> USE DEF At, Working, WorkStep, lbVars, Continue
<1>0. pass \in Pass BY DEF ObjectsOK
<1>1. CASE EnsureService
  BY <1>0, <1>1, FailFields DEF EnsureService, Pass
<1>2. CASE EnsureServiceIP
  BY <1>0, <1>2, FailFields, FinishFields DEF EnsureServiceIP, Pass
<1>3. CASE EnsureSlice
  BY <1>0, <1>3, FailFields DEF EnsureSlice, Pass
<1>4. CASE RemoveProbers
  BY <1>0, <1>4 DEF RemoveProbers, Pass
<1>5. CASE UpdateAllConditions
  BY <1>0, <1>5, FailFields DEF UpdateAllConditions, Pass
<1>6. CASE UpdateProbers
  BY <1>0, <1>6 DEF UpdateProbers, Pass
<1>7. CASE EnsureDummyEndpoint
  BY <1>0, <1>7, FailFields DEF EnsureDummyEndpoint, Pass
<1>8. CASE Verdict
  BY <1>0, <1>8, FailFields, FinishFields DEF Verdict, Pass
<1> QED BY <1>1, <1>2, <1>3, <1>4, <1>5, <1>6, <1>7, <1>8

\* Such a step is one of a load balancer that is still there.
LEMMA WorkStepGone ==
    ASSUME GoneInv, WorkStep, call'[Uid].add = NoOption
    PROVE  GoneInv'
  BY DEF GoneInv, WorkStep, Working, Versions, Phases, Stopping, GoneHasNoWorkers

\* The calls a pass makes replace no worker.
LEMMA WorkCalls ==
    ASSUME ObjectsOK, ProberInv, GoneInv,
           \/ EnsureService \/ EnsureServiceIP \/ EnsureSlice \/ RemoveProbers
           \/ UpdateAllConditions \/ UpdateProbers \/ EnsureDummyEndpoint \/ Verdict
    PROVE  call'[Uid].add = NoOption
<1>0. /\ call \in [UIDs -> [left : SUBSET Targets, add : Options \cup {NoOption}]]
      /\ Uid \in UIDs /\ \A t \in Targets : UIDOf[t] = Uid
      /\ call[Uid].add = NoOption
  BY ServiceLBAssumption, ProberAssumption DEF ProberInv, TypeOK, GoneInv, Stopping
<1>1. UNCHANGED proberVars => call'[Uid].add = NoOption
  BY <1>0 DEF proberVars
<1>2. ASSUME NEW ts, Remove(Uid, ts) PROVE call'[Uid].add = NoOption
  BY <1>0, <1>2 DEF Remove
<1>3. CASE RemoveProbers
  BY <1>2, <1>3 DEF RemoveProbers, RemoveWorkersByUid
<1>4. CASE UpdateProbers
  <2>1. ASSUME NEW t \in Targets, RemoveWorker(t) PROVE call'[Uid].add = NoOption
    BY <1>0, <1>2, <2>1 DEF RemoveWorker
  <2>2. ASSUME NEW t, NEW o, ~Running(t), AddWorker(t, o) PROVE call'[Uid].add = NoOption
    BY <1>0, <2>2 DEF AddWorker
  <2> QED BY <1>1, <1>4, <2>1, <2>2 DEF UpdateProbers
<1> QED BY <1>1, <1>3, <1>4 DEF EnsureService, EnsureServiceIP, EnsureSlice,
           UpdateAllConditions, EnsureDummyEndpoint, Verdict

\* A pass takes what the cache has: OnChange if that is live, OnRemove if not.
LEMMA TakeGone ==
    ASSUME ObjectsOK, GoneInv, Take
    PROVE  GoneInv'
<1>1. /\ UNCHANGED <<lb, lbCache, lbSynced, workers, call>>
      /\ \/ /\ lbCache.state = "live" /\ pass'.pc = "service"
            /\ pass'.obj = lbCache /\ pass'.fresh = lbSynced
         \/ /\ lbCache.state = "deleting" /\ pass'.pc = "delete"
            /\ pass'.obj = lbCache /\ pass'.fresh = lbSynced
         \/ UNCHANGED pass
  BY DEF Take, IdlePass, lbVars, proberVars
<1> QED BY <1>1 DEF GoneInv, Working, Versions, Phases, Stopping, GoneHasNoWorkers, Running

\* The write of the status is refused unless the copy is current.
LEMMA WriteStatusGone ==
    ASSUME ObjectsOK, GoneInv, WriteStatus
    PROVE  GoneInv'
<1>1. pass'.pc = "idle" /\ pass'.fresh = FALSE BY DEF WriteStatus, IdlePass
<1>2. lb'.state = lb.state /\ (lbSynced' => lbSynced /\ lb' = lb)
  BY DEF WriteStatus, GoneInv, Versions, ObjectsOK, LoadBalancer
<1>3. UNCHANGED <<workers, call, lbCache>> BY DEF WriteStatus, proberVars
<1> QED BY <1>1, <1>2, <1>3
        DEF GoneInv, Working, Versions, Phases, Stopping, GoneHasNoWorkers, Running

\* RemoveWorkersByUid leaves no worker that is not being stopped.
LEMMA DeleteLoadBalancerGone ==
    ASSUME ObjectsOK, ProberInv, GoneInv, DeleteLoadBalancer
    PROVE  GoneInv'
<1>1. /\ pass.pc = "delete" /\ pass'.pc = "deleted"
      /\ pass'.fresh = pass.fresh /\ pass'.obj = pass.obj
  BY DEF DeleteLoadBalancer, At, Continue, ObjectsOK, Pass
<1>2. UNCHANGED <<workers, lb, lbCache, lbSynced>>
  BY DEF DeleteLoadBalancer, lbVars, RemoveWorkersByUid, Remove
<1>3. /\ call'[Uid].add = NoOption
      /\ \A t \in Targets : Running(t) => t \in call'[Uid].left
  BY ServiceLBAssumption, ProberAssumption
  DEF DeleteLoadBalancer, RemoveWorkersByUid, Remove, ProberInv, TypeOK
<1> QED BY <1>1, <1>2, <1>3
        DEF GoneInv, Working, Versions, Phases, Stopping, GoneHasNoWorkers, Running

\* The load balancer goes when the call has returned, and all workers with it.
LEMMA RemoveFinalizerGone ==
    ASSUME ObjectsOK, GoneInv, RemoveFinalizer
    PROVE  GoneInv'
<1>1. /\ pass.pc = "deleted" /\ pass'.pc = "idle" /\ pass'.fresh = FALSE
      /\ UNCHANGED <<workers, call, lbCache>>
  BY DEF RemoveFinalizer, At, IdlePass, proberVars
<1>2. \A t \in Targets : ~Running(t)
  BY <1>1, ServiceLBAssumption DEF RemoveFinalizer, Locked, GoneInv, Stopping
<1>3. \/ lb'.state = "gone" /\ lbSynced' = FALSE
      \/ UNCHANGED <<lb, lbSynced>>
  BY DEF RemoveFinalizer, ObjectsOK, LoadBalancer
<1> QED BY <1>1, <1>2, <1>3
        DEF GoneInv, Working, Versions, Phases, Stopping, GoneHasNoWorkers, Running

\* The other steps: the load balancer and the pass stay as they are, but for
\* what an edit makes of them.
LEMMA EditGone ==
    ASSUME ObjectsOK, GoneInv, EditLB \/ DeleteLB
    PROVE  GoneInv'
<1>1. /\ pass'.pc = pass.pc /\ pass'.obj = pass.obj /\ pass'.fresh = FALSE
      /\ lbSynced' = FALSE /\ UNCHANGED <<workers, call, lbCache>>
  BY DEF EditLB, DeleteLB, Edit, ObjectsOK, Pass, proberVars
<1>2. lb.state = "live" /\ lb'.state \in {"live", "deleting"}
      /\ (lb'.state # "live" \/ EditLB)
  BY DEF EditLB, DeleteLB, Edit, ObjectsOK, LoadBalancer
<1>3. lbCache.state = "live" BY <1>2 DEF GoneInv, Versions
<1> QED BY <1>1, <1>2, <1>3
        DEF GoneInv, Working, Versions, Phases, Stopping, GoneHasNoWorkers, Running

\* The cache moves on to the current version.
LEMMA SyncLBGone ==
    ASSUME GoneInv, SyncLB
    PROVE  GoneInv'
  BY DEF SyncLB, proberVars, GoneInv, Working, Versions, Phases, Stopping,
         GoneHasNoWorkers, Running

\* A worker goes on, or is stopped for good.
LEMMA ProberStepsGone ==
    ASSUME ObjectsOK, ProberInv, GoneInv, ProberSteps
    PROVE  GoneInv'
<1>0. /\ DOMAIN workers = Targets /\ Uid \in UIDs
      /\ call \in [UIDs -> [left : SUBSET Targets, add : Options \cup {NoOption}]]
  BY ServiceLBAssumption DEF ProberInv, TypeOK
<1>1. ASSUME NEW t \in Targets, Step(t)
      PROVE  /\ UNCHANGED call
             /\ \A x \in Targets : Running(x)' => Running(x)
  <2>1. UNCHANGED call /\ Running(t) /\ DOMAIN workers' = DOMAIN workers
        /\ \A x \in Targets \ {t} : workers'[x] = workers[x]
    BY <1>0, <1>1 DEF Step, Tick, Probe, Send
  <2> QED BY <2>1 DEF Running
<1>2. ASSUME Stop(Uid)
      PROVE  /\ call'[Uid].add = NoOption
             /\ \A x \in Targets : Running(x)' => Running(x)
             /\ \A x \in Targets : Running(x)' /\ x \in call[Uid].left => x \in call'[Uid].left
  <2> PICK t \in call[Uid].left :
         /\ workers' = [workers EXCEPT ![t] = NoWorker]
         /\ call' = [call EXCEPT ![Uid] = IF @.left = {t} THEN NoCall
                                          ELSE [left |-> @.left \ {t}, add |-> @.add]]
    BY <1>2 DEF Stop, GoneInv, Stopping
  <2>1. call[Uid].add = NoOption BY DEF GoneInv, Stopping
  <2>2. call'[Uid].add = NoOption /\ call'[Uid].left = call[Uid].left \ {t}
    BY <1>0, <2>1 DEF NoCall
  <2> QED BY <1>0, <2>2 DEF Running
<1>3. UNCHANGED <<lb, lbCache, lbSynced, pass>>
  BY DEF ProberSteps, otherVars
<1>4. /\ call'[Uid].add = NoOption
      /\ \A x \in Targets : Running(x)' => Running(x)
      /\ \A x \in Targets : Running(x)' /\ x \in call[Uid].left => x \in call'[Uid].left
  BY <1>1, <1>2 DEF ProberSteps, GoneInv, Stopping
<1> QED BY <1>3, <1>4 DEF GoneInv, Working, Versions, Phases, Stopping, GoneHasNoWorkers

\* What touches neither workers nor the load balancer keeps the invariant.
LEMMA OtherGone ==
    ASSUME ObjectsOK, GoneInv, UNCHANGED <<workers, call, lb, lbCache, lbSynced>>,
           pass'.pc = pass.pc /\ pass'.obj = pass.obj /\ pass'.fresh = pass.fresh
    PROVE  GoneInv'
  BY DEF GoneInv, Working, Versions, Phases, Stopping, GoneHasNoWorkers, Running

\* Every step keeps it.
LEMMA SvcNextGone ==
    ASSUME ObjectsOK, ProberInv, GoneInv, [SvcNext]_svcLBVars
    PROVE  GoneInv'
<1>1. CASE PassStep
  BY <1>1, WorkSteps, WorkCalls, WorkStepGone, TakeGone, WriteStatusGone,
     DeleteLoadBalancerGone, RemoveFinalizerGone DEF PassStep
<1>2. CASE UpdateHealthCondition
  BY <1>2, OtherGone DEF UpdateHealthCondition, NotifyHealth, UpdateCondition, Handle,
     lbVars, proberVars, ObjectsOK, Pass
<1>3. CASE SyncService \/ SyncSlice \/ KubeVip \/ CollectGarbage
  BY <1>3, OtherGone DEF SyncService, SyncSlice, KubeVip, CollectGarbage, lbVars, proberVars
<1>4. ASSUME NEW t \in Targets, ChangeVMI(t) \/ FlipTarget(t) PROVE GoneInv'
  BY <1>4, OtherGone DEF ChangeVMI, FlipTarget, Flip, lbVars, proberVars
<1>5. CASE UNCHANGED svcLBVars
  BY <1>5, OtherGone DEF svcLBVars, otherVars, proberVars
<1> QED BY <1>1, <1>2, <1>3, <1>4, <1>5, ProberStepsGone, SyncLBGone, EditGone DEF SvcNext

\* There is a load balancer, and no worker, to begin with.
LEMMA SvcInitGone == SvcInit => GoneInv
  BY ServiceLBAssumption DEF SvcInit, ProberInit, NoCall, IdlePass, GoneInv, Working, Versions,
     Phases, Stopping, GoneHasNoWorkers

\* GoneInv holds of a served load balancer.
LEMMA GoneInvariant == SvcSpec => []GoneInv
<1>1. SvcInv /\ GoneInv /\ [SvcNext]_svcLBVars => GoneInv'
  BY SvcNextGone DEF SvcInv
<1> QED BY <1>1, SvcInvariant, SvcInitGone, PTL DEF SvcSpec

\* The finalizer keeps a load balancer until its workers are stopped, and no
\* pass that began before, and no report on its way, starts one again.
THEOREM NoWorkersAfterRemoval == SvcSpec => []GoneHasNoWorkers
<1>1. GoneInv => GoneHasNoWorkers BY DEF GoneInv
<1> QED BY <1>1, GoneInvariant, PTL

-----------------------------------------------------------------------------
(* Only reports mark endpoints down *)

\* The copies of the EndpointSlice are current when they say so: the cache, the
\* handler's and the one a pass keeps from its own write.
Copies ==
    /\ sliceSynced => sliceCache = slice
    /\ handler.fresh => handler.slice = slice
    /\ pass.sliceFresh => Working /\ pass.slice = slice

\* No EndpointSlice, no endpoints.
Absent(s) == ~s.exists => \A t \in Targets : s.ready[t] = "none"

SliceInv ==
    /\ Copies
    /\ Absent(slice) /\ Absent(sliceCache)
    /\ handler.fresh => handler.slice.exists

MarksDown(t) == slice.ready[t] = "ready" /\ slice'.ready[t] = "notReady"

\* What a step owes.
SliceStep ==
    /\ SliceInv'
    /\ \A t \in Targets : MarksDown(t) => [target |-> t, healthy |-> FALSE] \in handling

\* A step that does not touch the EndpointSlice.
LEMMA SliceUntouched ==
    ASSUME ObjectsOK, SliceInv, UNCHANGED <<sliceVars, handler>>,
           \/ pass'.sliceFresh = FALSE
           \/ /\ pass'.sliceFresh = pass.sliceFresh /\ pass'.slice = pass.slice
              /\ Working => Working'
    PROVE  SliceStep
  BY DEF SliceStep, SliceInv, Copies, Absent, MarksDown, sliceVars, ObjectsOK, Slice

\* A write by the pass, which marks nothing down.
LEMMA PassWritesSlice ==
    ASSUME ObjectsOK, SliceInv, NEW new \in Slice, PassWrites(new), Absent(new),
           \A t \in Targets : slice.ready[t] = "ready" => new.ready[t] # "notReady",
           pass'.sliceFresh => Working' /\ pass'.slice = new
    PROVE  SliceStep
  BY DEF PassWrites, SliceStep, SliceInv, Copies, Absent, MarksDown, ObjectsOK, Handler

\* The EndpointSlice that a pass constructs keeps the conditions of the cached
\* one.
LEMMA EnsureSliceSlice ==
    ASSUME ObjectsOK, SliceInv, EnsureSlice
    PROVE  SliceStep
<1> DEFINE servers == {t \in Targets : vmi[t] = "ip"}
           new == Construct(sliceCache, pass.obj.spec.ports, servers)
           next(fresh) ==
            [pass EXCEPT !.pc = "probes", !.slice = new, !.sliceFresh = fresh,
                         !.servers = servers,
                         !.matched = \E t \in Targets : vmi[t] # "gone"]
           accepted == IF sliceCache.exists THEN sliceSynced ELSE ~slice.exists
<1>0. pass \in Pass /\ slice \in Slice /\ sliceCache \in Slice BY DEF ObjectsOK
<1>1. new \in Slice /\ new.exists
  BY PassFields, SpecFields, ConstructType DEF ObjectsOK, Construct
<1>2. \A t \in Targets : new.ready[t] = "notReady"
                           => sliceCache.ready[t] \in {"none", "notReady"}
  BY DEF Construct
<1>3. \/ new = sliceCache /\ pass' = next(sliceSynced) /\ UNCHANGED <<sliceVars, handler>>
      \/ accepted /\ PassWrites(new) /\ pass' = next(TRUE)
      \/ Fail(pass.status) /\ UNCHANGED <<sliceVars, handler>>
  BY DEF EnsureSlice, Continue
<1> HIDE DEF new
<1>4. ASSUME NEW f, pass' = next(f)
      PROVE  pass'.pc = "probes" /\ pass'.slice = new
  BY <1>0, <1>4 DEF Pass
<1>5. CASE new = sliceCache /\ pass' = next(sliceSynced) /\ UNCHANGED <<sliceVars, handler>>
  <2>1. pass'.sliceFresh = sliceSynced BY <1>0, <1>5 DEF Pass
  <2>2. pass'.pc = "probes" /\ pass'.slice = new BY <1>4, <1>5
  <2> QED BY <1>0, <1>5, <2>1, <2>2 DEF SliceStep, SliceInv, Copies, Absent, Working, MarksDown,
             sliceVars
<1>6. CASE accepted /\ PassWrites(new) /\ pass' = next(TRUE)
  <2>1. pass'.pc = "probes" /\ pass'.slice = new BY <1>4, <1>6
  <2>2. \A t \in Targets : slice.ready[t] = "ready" => new.ready[t] # "notReady"
    BY <1>0, <1>2, <1>6 DEF SliceInv, Copies, Absent
  <2> QED BY <1>1, <1>6, <2>1, <2>2, PassWritesSlice DEF Absent, Working
<1>7. CASE Fail(pass.status) /\ UNCHANGED <<sliceVars, handler>>
  BY <1>7, FailFields, SliceUntouched
<1> HIDE DEF next, accepted
<1> QED BY <1>3, <1>5, <1>6, <1>7

\* updateAllConditions marks up only.
LEMMA UpdateAllConditionsSlice ==
    ASSUME ObjectsOK, SliceInv, UpdateAllConditions
    PROVE  SliceStep
<1> DEFINE new == [pass.slice EXCEPT
                     !.ready = [t \in Targets |-> IF @[t] = "none" THEN "none" ELSE "ready"]]
<1>0. pass \in Pass /\ pass.slice \in Slice BY PassFields DEF ObjectsOK
<1>1. /\ new \in Slice /\ new.exists = pass.slice.exists
      /\ \A t \in Targets : new.ready[t] # "notReady"
      /\ \A t \in Targets : pass.slice.ready[t] = "none" => new.ready[t] = "none"
  BY <1>0 DEF Slice
<1>2. \/ pass' = [pass EXCEPT !.pc = "dummy"] /\ UNCHANGED <<sliceVars, handler>>
      \/ /\ pass.sliceFresh /\ PassWrites(new)
         /\ pass' = [pass EXCEPT !.pc = "dummy", !.sliceFresh = FALSE]
      \/ Fail(pass.status) /\ UNCHANGED <<sliceVars, handler>>
  BY DEF UpdateAllConditions, Continue
<1> HIDE DEF new
<1>3. CASE pass' = [pass EXCEPT !.pc = "dummy"] /\ UNCHANGED <<sliceVars, handler>>
  <2>1. /\ pass'.sliceFresh = pass.sliceFresh /\ pass'.slice = pass.slice
        /\ pass'.pc = "dummy"
    BY <1>0, <1>3 DEF Pass
  <2> QED BY <1>3, <2>1, SliceUntouched DEF Working
<1>4. CASE /\ pass.sliceFresh /\ PassWrites(new)
           /\ pass' = [pass EXCEPT !.pc = "dummy", !.sliceFresh = FALSE]
  <2>1. ~pass'.sliceFresh BY <1>0, <1>4 DEF Pass
  <2>2. Absent(new) BY <1>1, <1>4 DEF SliceInv, Copies, Absent
  <2> QED BY <1>1, <1>4, <2>1, <2>2, PassWritesSlice
<1>5. CASE Fail(pass.status) /\ UNCHANGED <<sliceVars, handler>>
  BY <1>5, FailFields, SliceUntouched
<1> QED BY <1>2, <1>3, <1>4, <1>5

\* The dummy endpoint is written with the conditions the copy has.
LEMMA EnsureDummyEndpointSlice ==
    ASSUME ObjectsOK, SliceInv, EnsureDummyEndpoint
    PROVE  SliceStep
<1> DEFINE active == ReadyOnes(pass.slice) # {}
           new == [pass.slice EXCEPT !.dummy = IF active THEN FALSE ELSE TRUE]
           next == [pass EXCEPT !.pc = "verdict", !.status.servers = pass.servers,
                                !.slice = NoSlice(SomePorts), !.sliceFresh = FALSE]
<1>0. pass \in Pass /\ pass.slice \in Slice BY PassFields DEF ObjectsOK
<1>1. new \in Slice
  <2>1. (IF active THEN FALSE ELSE TRUE) \in BOOLEAN OBVIOUS
  <2> HIDE DEF active
  <2> QED BY <1>0, <2>1 DEF Slice
<1>2. new.exists = pass.slice.exists /\ new.ready = pass.slice.ready
  BY <1>0 DEF Slice
<1>3. \/ pass' = next /\ UNCHANGED <<sliceVars, handler>>
      \/ pass.sliceFresh /\ PassWrites(new) /\ pass' = next
      \/ Fail(pass.status) /\ UNCHANGED <<sliceVars, handler>>
  BY DEF EnsureDummyEndpoint, Continue
<1>4. next.sliceFresh = FALSE BY <1>0 DEF Pass
<1> HIDE DEF new, next
<1>5. CASE pass' = next /\ UNCHANGED <<sliceVars, handler>>
  BY <1>4, <1>5, SliceUntouched
<1>6. CASE pass.sliceFresh /\ PassWrites(new) /\ pass' = next
  <2>1. Absent(new) BY <1>2, <1>6 DEF SliceInv, Copies, Absent
  <2>2. new.ready = slice.ready BY <1>2, <1>6 DEF SliceInv, Copies
  <2>3. ~pass'.sliceFresh BY <1>4, <1>6
  <2>4. \A t \in Targets : slice.ready[t] = "ready" => new.ready[t] # "notReady"
    BY <2>2
  <2> QED BY <1>1, <1>6, <2>1, <2>3, <2>4, PassWritesSlice
<1>7. CASE Fail(pass.status) /\ UNCHANGED <<sliceVars, handler>>
  BY <1>7, FailFields, SliceUntouched
<1> QED BY <1>3, <1>5, <1>6, <1>7

\* The rest of the pass leaves the EndpointSlice alone.
LEMMA PassStepSlice ==
    ASSUME ObjectsOK, SliceInv, PassStep
    PROVE  SliceStep
<1>0. pass \in Pass /\ IdlePass.sliceFresh = FALSE BY DEF ObjectsOK, IdlePass
<1>1. CASE Take
  <2>1. pass'.sliceFresh = FALSE \/ UNCHANGED pass BY <1>1 DEF Take, IdlePass
  <2> QED BY <1>1, <2>1, SliceUntouched DEF Take, Working
<1>2. CASE EnsureService
  <2>1. \/ pass'.sliceFresh = FALSE
        \/ /\ pass'.sliceFresh = pass.sliceFresh /\ pass'.slice = pass.slice
           /\ pass'.pc = "serviceIP"
    BY <1>0, <1>2, FailFields DEF EnsureService, Continue, Pass
  <2> QED BY <1>2, <2>1, SliceUntouched DEF EnsureService, Working
<1>3. CASE EnsureServiceIP
  <2>1. \/ pass'.sliceFresh = FALSE
        \/ /\ pass'.sliceFresh = pass.sliceFresh /\ pass'.slice = pass.slice
           /\ pass'.pc = "slice"
    BY <1>0, <1>3, FailFields, FinishFields DEF EnsureServiceIP, Continue, Pass
  <2> QED BY <1>3, <2>1, SliceUntouched DEF EnsureServiceIP, Working
<1>4. CASE RemoveProbers \/ UpdateProbers
  <2>1. /\ pass'.sliceFresh = pass.sliceFresh /\ pass'.slice = pass.slice
        /\ pass'.pc \in {"allReady", "dummy", "probes"}
    BY <1>0, <1>4 DEF RemoveProbers, UpdateProbers, At, Continue, Pass
  <2> QED BY <1>4, <2>1, SliceUntouched DEF RemoveProbers, UpdateProbers, Working
<1>5. CASE Verdict
  <2>1. pass'.sliceFresh = FALSE
    BY <1>5, FailFields, FinishFields DEF Verdict
  <2> QED BY <1>5, <2>1, SliceUntouched DEF Verdict
<1>6. CASE WriteStatus \/ RemoveFinalizer
  BY <1>0, <1>6, SliceUntouched DEF WriteStatus, RemoveFinalizer
<1>7. CASE DeleteLoadBalancer
  <2>1. /\ pass'.sliceFresh = pass.sliceFresh /\ pass'.slice = pass.slice /\ ~Working
    BY <1>0, <1>7 DEF DeleteLoadBalancer, At, Continue, Pass, Working
  <2> QED BY <1>7, <2>1, SliceUntouched DEF DeleteLoadBalancer
<1> QED BY <1>1, <1>2, <1>3, <1>4, <1>5, <1>6, <1>7, EnsureSliceSlice,
           UpdateAllConditionsSlice, EnsureDummyEndpointSlice DEF PassStep

\* The handler writes what its report says.
LEMMA UpdateHealthConditionSlice ==
    ASSUME ObjectsOK, ProberInv, SliceInv, UpdateHealthCondition
    PROVE  SliceStep
<1>1. CASE NotifyHealth
  <2>1. /\ UNCHANGED <<sliceVars, pass>>
        /\ \/ UNCHANGED handler
           \/ /\ sliceCache.exists
              /\ handler' = [busy |-> TRUE, slice |-> sliceCache, fresh |-> sliceSynced]
    BY <1>1 DEF NotifyHealth
  <2> QED BY <2>1 DEF SliceStep, SliceInv, Copies, Absent, Working, MarksDown, sliceVars
<1>2. CASE UpdateCondition
  <2> PICK r \in handling :
         /\ \/ /\ handler.fresh
               /\ slice' = [handler.slice EXCEPT !.ready[r.target] = Condition(r.healthy)]
               /\ sliceSynced' = FALSE
               /\ pass' = [pass EXCEPT !.sliceFresh = FALSE]
            \/ UNCHANGED <<slice, sliceSynced, pass>>
         /\ handler' = IdleHandler
         /\ UNCHANGED sliceCache
    BY <1>2 DEF UpdateCondition
  <2>1. r \in Report BY DEF ProberInv, TypeOK
  <2>2. handler'.fresh = FALSE BY DEF IdleHandler
  <2>3. CASE UNCHANGED <<slice, sliceSynced, pass>>
    BY <2>2, <2>3 DEF SliceStep, SliceInv, Copies, Absent, Working, MarksDown
  <2>4. CASE /\ handler.fresh
             /\ slice' = [handler.slice EXCEPT !.ready[r.target] = Condition(r.healthy)]
             /\ sliceSynced' = FALSE
             /\ pass' = [pass EXCEPT !.sliceFresh = FALSE]
    <3>1. ~pass'.sliceFresh BY <2>4 DEF ObjectsOK, Pass
    <3>2. handler.slice = slice /\ slice \in Slice /\ slice.exists
      BY <2>4 DEF SliceInv, Copies, ObjectsOK
    <3>3. /\ slice'.exists
          /\ \A t \in Targets : t # r.target => slice'.ready[t] = slice.ready[t]
      BY <2>4, <3>2 DEF Slice
    <3>4. r.target \in Targets => slice'.ready[r.target] = Condition(r.healthy)
      BY <2>4, <3>2 DEF Slice
    <3>5. ASSUME NEW t \in Targets, MarksDown(t)
          PROVE  [target |-> t, healthy |-> FALSE] \in handling
      <4>1. t = r.target BY <3>3, <3>5 DEF MarksDown
      <4>2. Condition(r.healthy) = "notReady" BY <3>4, <3>5, <4>1 DEF MarksDown
      <4>3. ~r.healthy BY <4>2 DEF Condition
      <4>4. r = [target |-> t, healthy |-> FALSE] BY <2>1, <4>1, <4>3 DEF Report
      <4> QED BY <4>4
    <3> QED BY <2>2, <2>4, <3>1, <3>3, <3>5 DEF SliceStep, SliceInv, Copies, Absent
  <2> QED BY <2>3, <2>4
<1> QED BY <1>1, <1>2 DEF UpdateHealthCondition

\* The garbage collector comes when no pass works any more.
LEMMA CollectGarbageSlice ==
    ASSUME ObjectsOK, GoneInv, SliceInv, CollectGarbage
    PROVE  SliceStep
<1>1. ~Working BY DEF CollectGarbage, GoneInv, Phases
<1>2. handler'.fresh = FALSE BY DEF CollectGarbage, ObjectsOK, Handler
<1>3. /\ sliceSynced' = FALSE /\ UNCHANGED <<pass, sliceCache>>
      /\ \A t \in Targets : slice'.ready[t] = "none"
  BY DEF CollectGarbage, NoSlice
<1> QED BY <1>1, <1>2, <1>3 DEF SliceStep, SliceInv, Copies, Absent, MarksDown

\* Every step keeps the copies right and marks down only what is reported.
LEMMA SvcNextSlice ==
    ASSUME ObjectsOK, ProberInv, GoneInv, SliceInv, [SvcNext]_svcLBVars
    PROVE  SliceStep
<1>1. CASE SyncLB \/ SyncService \/ KubeVip
  BY <1>1, SliceUntouched DEF SyncLB, SyncService, KubeVip, Working
<1>2. CASE SyncSlice
  BY <1>2 DEF SyncSlice, SliceStep, SliceInv, Copies, Absent, MarksDown, Working
<1>3. CASE EditLB \/ DeleteLB
  <2>1. /\ pass'.sliceFresh = pass.sliceFresh /\ pass'.slice = pass.slice
        /\ pass'.pc = pass.pc
    BY <1>3 DEF EditLB, DeleteLB, Edit, ObjectsOK, Pass
  <2> QED BY <1>3, <2>1, SliceUntouched DEF EditLB, DeleteLB, Edit, Working
<1>4. ASSUME NEW t \in Targets, ChangeVMI(t) \/ FlipTarget(t) PROVE SliceStep
  BY <1>4, SliceUntouched DEF ChangeVMI, FlipTarget, Working
<1>5. CASE ProberSteps \/ UNCHANGED svcLBVars
  BY <1>5, SliceUntouched DEF ProberSteps, svcLBVars, otherVars, sliceVars, Working
<1> QED BY <1>1, <1>2, <1>3, <1>4, <1>5, PassStepSlice, UpdateHealthConditionSlice,
           CollectGarbageSlice DEF SvcNext

\* There is no EndpointSlice to begin with.
LEMMA SvcInitSlice == SvcInit => SliceInv
  BY DEF SvcInit, SliceInv, Copies, Absent, NoSlice, IdlePass, IdleHandler

\* SliceInv holds of a served load balancer.
LEMMA SliceInvariant == SvcSpec => []SliceInv
<1>1. SvcInv /\ GoneInv /\ SliceInv /\ [SvcNext]_svcLBVars => SliceInv'
  BY SvcNextSlice DEF SvcInv, SliceStep
<1> QED BY <1>1, SvcInvariant, GoneInvariant, SvcInitSlice, PTL DEF SvcSpec

\* No pass undoes a health result: a Ready endpoint turns not Ready only when a
\* report of failed probes of that very target is being handled.
THEOREM ReadyUntilReported == SvcSpec => OnlyReportsMarkDown
<1>1. SvcInv /\ GoneInv /\ SliceInv /\ [SvcNext]_svcLBVars
        => [\A t \in Targets :
              (slice.ready[t] = "ready" /\ slice'.ready[t] = "notReady")
                 => [target |-> t, healthy |-> FALSE] \in handling]_svcLBVars
  BY SvcNextSlice DEF SvcInv, SliceStep, MarksDown
<1> QED BY <1>1, SvcInvariant, GoneInvariant, SliceInvariant, PTL
        DEF SvcSpec, OnlyReportsMarkDown
=============================================================================
