----------------------------- MODULE PublicDemo -----------------------------
(***************************************************************************)
(* The sponsored demo of the gateway (public-demo-runner.ts and the        *)
(* /v1/public-demo-runs route of app.ts) on top of SessionCreation: a run  *)
(* claims the quota, opens a bond with the sponsor's wallet and then goes  *)
(* through the gateway's own routes like any client, under its own         *)
(* idempotency key and session id, which is what stands for its run id.    *)
(***************************************************************************)
EXTENDS SessionCreation

CONSTANTS
  RunIds,      \* the run ids, in the order they are drawn
  RunBody,     \* [Runs -> Bodies]: the request a run sends for its session
  DailyLimit,  \* sponsored runs of the day
  Mixed        \* bound: FALSE keeps clients of the gateway and sponsored runs in
               \* behaviours of their own; they share no key, session or bond

VARIABLES
  runs,     \* what each slot's run is doing, or None
  lease,    \* the run that holds the lease, or None
  outlived, \* the runs in flight, or stopped, that outlived their lease
  drawn     \* the runs claimed today

demoVars == <<runs, lease, outlived, drawn>>
allVars == <<vars, demoVars>>

Runs == {RunIds[i] : i \in DOMAIN RunIds}
RunStages == {"open", "request", "session", "release", "opened"}

ASSUME DemoAssumption ==
  /\ RunIds \in Seq(Keys \cap Sids \cap Bonds)
  /\ \A i, j \in DOMAIN RunIds : RunIds[i] = RunIds[j] => i = j
  /\ DailyLimit \in Nat /\ DailyLimit < Len(RunIds)
  /\ Mixed \in BOOLEAN
  /\ RunBody \in [Runs -> Bodies]
  /\ \A r \in Runs : RunBody[r].intent \in Intents /\ RunBody[r].sid = r
  /\ None \notin [id : Runs, stage : RunStages]

DemoInit ==
  /\ Init
  /\ runs = [h \in Slots |-> None]
  /\ lease = None
  /\ outlived = {}
  /\ drawn = 0

Running(h, stage) == runs[h] # None /\ runs[h].stage = stage
At(h, stage) == runs' = [runs EXCEPT ![h].stage = stage]
Intent(r) == RunBody[r].intent
Untouched == sends = 0 /\ issued = {} /\ \A a \in Bonds : bonds[a] = None

\* slip: the limit is reached one run late.
ClaimQuotaOneMore(h) ==
  /\ handler[h] = Idle /\ runs[h] = None
  /\ drawn <= DailyLimit
  /\ drawn # 0 \/ Mixed \/ Untouched
  /\ lease = None \/ lease \in outlived
  /\ drawn' = drawn + 1
  /\ lease' = RunIds[drawn']
  /\ runs' = [runs EXCEPT ![h] = [id |-> lease', stage |-> "open"]]
  /\ UNCHANGED <<vars, outlived>>

\* claim: the day's limit and the lease, read and written in one transaction.
\* The client's cooldown is left out: it is 0 as the gateway is deployed.  A run
\* that is refused leaves no trace.
ClaimQuota(h) ==
  /\ handler[h] = Idle /\ runs[h] = None
  /\ drawn < DailyLimit
  /\ drawn # 0 \/ Mixed \/ Untouched
  /\ lease = None \/ lease \in outlived
  /\ drawn' = drawn + 1
  /\ lease' = RunIds[drawn']
  /\ runs' = [runs EXCEPT ![h] = [id |-> lease', stage |-> "open"]]
  /\ UNCHANGED <<vars, outlived>>

\* The sponsor opens a bond for the compiled policy, asks for a challenge and
\* signs a credential with the shared secret.  The three are private to the run
\* and read by nobody before it sends its request, so they are one step.
RunPrepares(h) ==
  LET r == runs[h].id
      cap == Cap[Intent(r)]
  IN /\ Running(h, "open")
     /\ bonds[r] = None /\ sessions[r] = None /\ cache[r] = None
     /\ bonds' = [bonds EXCEPT ![r] = NewBond(Intent(r))]
     /\ cache' = [cache EXCEPT ![r] = cap]
     /\ issued' = issued \cup {Token("challenge", r, cap), Credential(r, cap)}
     /\ At(h, "request")
     /\ UNCHANGED <<claims, sessions, log, handler, answers, sends, failures,
                    lease, outlived, drawn>>

RunRequestsSession(h) ==
  /\ Running(h, "request")
  /\ Claim(h, runs[h].id, RunBody[runs[h].id])
  /\ At(h, "session")
  /\ UNCHANGED <<lease, outlived, drawn>>

Answered(r) == \E a \in answers : a.key = r

\* Whatever fails on the way, the finally block releases the lease next.
RunFails(h) ==
  /\ \/ \E stage \in {"open", "request"} : Running(h, stage)
     \/ Running(h, "session") /\ handler[h] = Idle /\ ~Answered(runs[h].id)
  /\ At(h, "release")
  /\ UNCHANGED <<vars, lease, outlived, drawn>>

RunIsAnswered(h) ==
  /\ Running(h, "session")
  /\ handler[h] = Idle
  /\ Answered(runs[h].id)
  /\ At(h, "release")
  /\ UNCHANGED <<vars, lease, outlived, drawn>>

\* slip: the lease is released whoever holds it.
ReleaseAnyLease(h) ==
  /\ Running(h, "release")
  /\ lease' = None
  /\ IF Answered(runs[h].id) THEN At(h, "opened") ELSE runs' = [runs EXCEPT ![h] = None]
  /\ outlived' = outlived \ {runs[h].id}
  /\ UNCHANGED <<vars, drawn>>

\* release deletes the lease of its own run only.
ReleaseLease(h) ==
  /\ Running(h, "release")
  /\ lease' = IF lease = runs[h].id THEN None ELSE lease
  /\ IF Answered(runs[h].id) THEN At(h, "opened") ELSE runs' = [runs EXCEPT ![h] = None]
  /\ outlived' = outlived \ {runs[h].id}
  /\ UNCHANGED <<vars, drawn>>

\* The route announces the sponsored bond and answers.
AnnounceRun(h) ==
  /\ Running(h, "opened")
  /\ log' = [log EXCEPT ![runs[h].id] = Append(@, "BOND_OPENED")]
  /\ runs' = [runs EXCEPT ![h] = None]
  /\ UNCHANGED <<claims, sessions, issued, cache, bonds, handler, answers, sends,
                 failures, lease, outlived, drawn>>

\* A lease runs out, whether or not its run goes on.
LeaseRunsOut ==
  /\ lease # None /\ lease \notin outlived
  /\ outlived' = outlived \cup {lease}
  /\ UNCHANGED <<vars, runs, lease, drawn>>

\* A process that stops takes its runs with it; the lease stays.
DemoCrash ==
  /\ Crash
  /\ runs' = [h \in Slots |-> None]
  /\ UNCHANGED <<lease, outlived, drawn>>

Run(h) ==
  \/ RunPrepares(h) \/ RunRequestsSession(h) \/ RunFails(h) \/ RunIsAnswered(h)
  \/ ReleaseLease(h) \/ AnnounceRun(h)

\* The clients of the gateway go on as before, with keys that are no run's.
Direct ==
  /\ drawn = 0 \/ Mixed
  /\ \/ \E i \in Intents, s \in Sids \ Runs : CreateChallenge(i, s) \/ IssueCredential(i, s)
     \/ \E a \in Bonds \ Runs, i \in Bonded : OpenBond(a, i)
     \/ \E h \in Slots, k \in Keys \ Runs, b \in Bodies \ {RunBody[r] : r \in Runs} :
          runs[h] = None /\ (Claim(h, k, b) \/ Replay(h, k, b))
  /\ UNCHANGED demoVars

Gateway ==
  /\ (\E a \in answers : CloseSession(a)) \/ (\E h \in Slots : Handle(h) \/ Fails(h))
  /\ UNCHANGED demoVars

DemoNext ==
  \/ Direct \/ Gateway
  \/ DemoCrash
  \/ LeaseRunsOut
  \/ \E h \in Slots : Run(h) \/ ClaimQuota(h)

DemoSpec == DemoInit /\ [][DemoNext]_allVars

-----------------------------------------------------------------------------
DemoTypeOK ==
  /\ TypeOK
  /\ runs \in [Slots -> [id : Runs, stage : RunStages] \cup {None}]
  /\ lease \in Runs \cup {None}
  /\ outlived \subseteq Runs /\ drawn \in 0..DailyLimit

\* The sponsor's wallet serves one run at a time: two runs overlap only when
\* one of them outlived its lease (public-demo-runner.ts:93, 104).
SponsorIsSerialized ==
  \A g, h \in Slots :
    g # h /\ runs[g] # None /\ runs[h] # None
      /\ runs[g].stage # "opened" /\ runs[h].stage # "opened"
      => runs[g].id \in outlived \/ runs[h].id \in outlived

=============================================================================
