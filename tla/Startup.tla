------------------------------ MODULE Startup -------------------------------
(***************************************************************************)
(* How one backend process reaches Redis, Postgres and pg-boss, and lets   *)
(* go of them on a signal: main.ts and the life of QueueService.           *)
(*                                                                         *)
(* retryDependency tries a connection MaxTries times and then again from   *)
(* a timer, but its caller goes on only with the result of the first call. *)
(* QueueService.start makes StartTries attempts of its own within one try. *)
(* Stopping runs beside all of that.                                       *)
(***************************************************************************)
EXTENDS Naturals

CONSTANTS
  MaxTries,    \* tries of one retryDependency call: 5
  StartTries,  \* attempts of one QueueService.start call: 3
  MaxOutages   \* bound: how often a server goes down

ASSUME StartupAssumption ==
  /\ MaxTries \in Nat \ {0} /\ StartTries \in Nat \ {0} /\ MaxOutages \in Nat

VARIABLES
  up,        \* environment: which server answers
  outages,   \* bound: outages so far
  redis,     \* status of the shared Redis client
  adapter,   \* whether Socket.IO goes through Redis
  db,        \* PrismaService.connected
  retry,     \* per dependency, where retryDependency is
  start,     \* where QueueService.start is
  boss,      \* QueueService.boss is set
  started,   \* QueueService.started
  working,   \* workers are registered with a pg-boss that runs
  shutdown   \* where gracefulShutdown is

startupVars ==
  <<up, outages, redis, adapter, db, retry, start, boss, started, working, shutdown>>
servers == <<up, outages>>
queue == <<start, boss, started, working>>

Servers      == {"redis", "postgres"}
Dependencies == {"redis", "postgres", "pgboss"}
Host(d) == IF d = "redis" THEN "redis" ELSE "postgres"

Retry == [phase : {"idle", "trying", "pause", "degraded", "ready", "stopped"},
          try : 0..MaxTries, first : BOOLEAN]
Start == [pc : {"off", "boot", "wire", "pause"}, try : 0..StartTries]
FirstTry == [phase |-> "trying", try |-> 1, first |-> TRUE]
Off == [pc |-> "off", try |-> 0]

ShuttingDown == shutdown # "no"
Answers(d) == up[Host(d)]

-----------------------------------------------------------------------------
(* retryDependency *)

(* A mutant: the loop goes on without a look at shuttingDown. *)
NextTryUnchecked(r) == [r EXCEPT !.phase = "trying", !.try = @ + 1]

NextTry(r) == IF ShuttingDown THEN [r EXCEPT !.phase = "stopped"]
              ELSE [r EXCEPT !.phase = "trying", !.try = @ + 1]

(* A mutant: the fifth failure is the last. *)
AfterFailureGivesUp(r) ==
  IF ShuttingDown \/ r.try = MaxTries THEN [r EXCEPT !.phase = "stopped"]
  ELSE [r EXCEPT !.phase = "pause"]

(* A mutant: one try too many. *)
AfterFailureOneMore(r) ==
  IF ShuttingDown THEN [r EXCEPT !.phase = "stopped"]
  ELSE [r EXCEPT !.phase = IF r.try <= MaxTries THEN "pause" ELSE "degraded"]

AfterFailure(r) ==
  IF ShuttingDown THEN [r EXCEPT !.phase = "stopped"]
  ELSE [r EXCEPT !.phase = IF r.try < MaxTries THEN "pause" ELSE "degraded"]

Fail(d) == retry' = [retry EXCEPT ![d] = AfterFailure(@)]
Trying(d) == retry[d].phase = "trying"

Resume(d) ==
  /\ retry[d].phase = "pause"
  /\ retry' = [retry EXCEPT ![d] = NextTry(@)]
  /\ UNCHANGED <<servers, redis, adapter, db, queue, shutdown>>

(* The 30 s timer: a call whose result nobody waits for. *)
Again(d) ==
  /\ retry[d].phase = "degraded"
  /\ retry' = [retry EXCEPT ![d] =
                 NextTry([@ EXCEPT !.try = 0, !.first = FALSE])]
  /\ UNCHANGED <<servers, redis, adapter, db, queue, shutdown>>

(* A failed Redis client reconnects by itself from then on. *)
ConnectFails(d) ==
  /\ d # "pgboss" /\ Trying(d)
  /\ ~Answers(d) \/ (d = "redis" /\ redis = "closed")
  /\ Fail(d)
  /\ redis' = IF d = "redis" /\ redis = "wait" THEN "lost" ELSE redis
  /\ UNCHANGED <<servers, adapter, db, queue, shutdown>>

(* connectRedis; after the first call, the policy check and the adapter. *)
ConnectRedis ==
  /\ Trying("redis") /\ Answers("redis") /\ redis # "closed"
  /\ retry' = [retry EXCEPT !["redis"].phase = "ready"]
  /\ redis' = "ready"
  /\ adapter' = IF retry["redis"].first /\ adapter = "single" THEN "joining" ELSE adapter
  /\ UNCHANGED <<servers, db, queue, shutdown>>

(* PrismaService.connect; after the first call, the queue's turn. *)
ConnectPostgres ==
  /\ Trying("postgres") /\ Answers("postgres")
  /\ db' = TRUE
  /\ retry' = [retry EXCEPT !["postgres"].phase = "ready",
                 !["pgboss"] = IF retry["postgres"].first
                               THEN NextTry([@ EXCEPT !.first = TRUE]) ELSE @]
  /\ UNCHANGED <<servers, redis, adapter, queue, shutdown>>

(* ioredis reconnects; the adapter is installed once its clients are ready. *)
RedisClients ==
  /\ up["redis"] /\ ~ShuttingDown
  /\ \/ redis = "lost" /\ redis' = "ready" /\ UNCHANGED adapter
     \/ adapter = "joining" /\ adapter' = "cluster" /\ UNCHANGED redis
  /\ UNCHANGED <<servers, db, retry, queue, shutdown>>

-----------------------------------------------------------------------------
(* QueueService.start, within a try of retryDependency("pg-boss") *)

Enter ==
  /\ Trying("pgboss") /\ start = Off
  /\ IF started
     THEN retry' = [retry EXCEPT !["pgboss"].phase = "ready"] /\ UNCHANGED start
     ELSE start' = [pc |-> "boot", try |-> 1] /\ UNCHANGED retry
  /\ UNCHANGED <<servers, redis, adapter, db, boss, started, working, shutdown>>

StartFails ==
  IF start.try < StartTries
  THEN start' = [start EXCEPT !.pc = "pause"] /\ UNCHANGED retry
  ELSE start' = Off /\ Fail("pgboss")

(* A mutant: the service calls itself started before the workers are there. *)
BootStarted ==
  /\ start.pc = "boot"
  /\ IF up["postgres"]
     THEN boss' = TRUE /\ started' = TRUE /\ start' = [start EXCEPT !.pc = "wire"]
          /\ UNCHANGED retry
     ELSE StartFails /\ UNCHANGED <<boss, started>>
  /\ UNCHANGED <<servers, redis, adapter, db, working, shutdown>>

(* boss.start() *)
Boot ==
  /\ start.pc = "boot"
  /\ IF up["postgres"]
     THEN boss' = TRUE /\ start' = [start EXCEPT !.pc = "wire"] /\ UNCHANGED retry
     ELSE StartFails /\ UNCHANGED boss
  /\ UNCHANGED <<servers, redis, adapter, db, started, working, shutdown>>

(* createQueues, registerWorkers and schedule, on a boss that stop may have *)
(* stopped: the calls then fail, or were answered before it closed.         *)
Wire ==
  /\ start.pc = "wire" /\ up["postgres"]
  /\ started' = TRUE
  /\ working' = boss
  /\ start' = Off
  /\ retry' = [retry EXCEPT !["pgboss"].phase = "ready"]
  /\ UNCHANGED <<servers, redis, adapter, db, boss, shutdown>>

WireFails ==
  /\ start.pc = "wire" /\ (~up["postgres"] \/ ~boss)
  /\ boss' = FALSE
  /\ StartFails
  /\ UNCHANGED <<servers, redis, adapter, db, started, working, shutdown>>

StartResume ==
  /\ start.pc = "pause"
  /\ start' = [pc |-> "boot", try |-> start.try + 1]
  /\ UNCHANGED <<servers, redis, adapter, db, retry, boss, started, working, shutdown>>

(* QueueService.stop: nothing to do without a boss. *)
StopQueue ==
  /\ boss' = FALSE
  /\ started' = (started /\ ~boss)
  /\ working' = (working /\ ~boss)

-----------------------------------------------------------------------------
(* gracefulShutdown *)

Signal ==
  /\ ~ShuttingDown
  /\ shutdown' = "queue"
  /\ UNCHANGED <<servers, redis, adapter, db, retry, queue>>

ShutdownStopsQueue ==
  /\ shutdown = "queue"
  /\ StopQueue
  /\ shutdown' = "close"
  /\ UNCHANGED <<servers, redis, adapter, db, retry, start>>

ShutdownCloses ==
  /\ shutdown = "close"
  /\ adapter' = "closed" /\ redis' = "closed" /\ db' = FALSE
  /\ shutdown' = "app"
  /\ UNCHANGED <<servers, retry, queue>>

(* app.close() runs onModuleDestroy of the queue and of Prisma. *)
ShutdownEndsApp ==
  /\ shutdown = "app"
  /\ StopQueue
  /\ db' = FALSE
  /\ shutdown' = "done"
  /\ UNCHANGED <<servers, redis, adapter, retry, start>>

-----------------------------------------------------------------------------
(* The servers. *)

Outage(s) ==
  /\ up[s] /\ outages < MaxOutages
  /\ up' = [up EXCEPT ![s] = FALSE]
  /\ outages' = outages + 1
  /\ redis' = IF s = "redis" /\ redis = "ready" THEN "lost" ELSE redis
  /\ UNCHANGED <<adapter, db, retry, queue, shutdown>>

Recover(s) ==
  /\ ~up[s]
  /\ up' = [up EXCEPT ![s] = TRUE]
  /\ UNCHANGED <<outages, redis, adapter, db, retry, queue, shutdown>>

-----------------------------------------------------------------------------
(* initializeDependencies has just made the first two calls. *)
StartupInit ==
  /\ up \in [Servers -> BOOLEAN]
  /\ outages = 0
  /\ redis = "wait" /\ adapter = "single" /\ db = FALSE
  /\ retry = [d \in Dependencies |->
                IF d = "pgboss" THEN [phase |-> "idle", try |-> 0, first |-> FALSE]
                ELSE FirstTry]
  /\ start = Off
  /\ boss = FALSE /\ started = FALSE /\ working = FALSE
  /\ shutdown = "no"

Process ==
  \/ \E d \in Dependencies : Resume(d) \/ Again(d) \/ ConnectFails(d)
  \/ ConnectRedis \/ ConnectPostgres \/ RedisClients
  \/ Enter \/ Boot \/ Wire \/ WireFails \/ StartResume
  \/ ShutdownStopsQueue \/ ShutdownCloses \/ ShutdownEndsApp

StartupNext ==
  \/ Process \/ Signal
  \/ \E s \in Servers : Outage(s) \/ Recover(s)

StartupSpec == StartupInit /\ [][StartupNext]_startupVars

(* Timers fire and calls return; a server that is down comes back. *)
StartupFairness ==
  /\ \A d \in Dependencies :
       WF_startupVars(Resume(d)) /\ WF_startupVars(Again(d)) /\ WF_startupVars(ConnectFails(d))
  /\ WF_startupVars(ConnectRedis) /\ WF_startupVars(ConnectPostgres)
  /\ WF_startupVars(RedisClients)
  /\ WF_startupVars(Enter) /\ WF_startupVars(Boot) /\ WF_startupVars(Wire \/ WireFails)
  /\ WF_startupVars(StartResume)
  /\ WF_startupVars(ShutdownStopsQueue) /\ WF_startupVars(ShutdownCloses)
  /\ WF_startupVars(ShutdownEndsApp)
  /\ \A s \in Servers : WF_startupVars(Recover(s))

StartupFairSpec == StartupSpec /\ StartupFairness

-----------------------------------------------------------------------------
(* The types of the variables. *)
StartupTypeOK ==
  /\ up \in [Servers -> BOOLEAN] /\ outages \in 0..MaxOutages
  /\ redis \in {"wait", "ready", "lost", "closed"}
  /\ adapter \in {"single", "joining", "cluster", "closed"}
  /\ retry \in [Dependencies -> Retry] /\ start \in Start
  /\ db \in BOOLEAN /\ boss \in BOOLEAN /\ started \in BOOLEAN /\ working \in BOOLEAN
  /\ shutdown \in {"no", "queue", "close", "app", "done"}

(* Whenever send and isReady let a caller through, the workers of a running *)
(* pg-boss are registered, whatever start and stop are doing meanwhile.     *)
UsableMeansWorking == started /\ (boss \/ ~ShuttingDown) => working

(* Once the signal has come and no attempt is in progress, none begins and  *)
(* nothing comes up again: no pause or timer of retryDependency goes on.    *)
Settled == ShuttingDown /\ \A d \in Dependencies : ~Trying(d)
NothingComesBack == [][Settled => Settled' /\ (boss' => boss) /\ (db' => db)]_startupVars

(* Redis and Postgres are reached however long they are away at first.      *)
ServersAreReached ==
  \A d \in Servers : <>(retry[d].phase = "ready" \/ ShuttingDown)

(* A process that reached Postgres within the first call gets its queue     *)
(* running, over any number of failed attempts.                             *)
QueueFollowsFirstCall ==
  retry["postgres"].phase = "ready" /\ retry["postgres"].first
    ~> started \/ ShuttingDown

(* What readyz waits for: the queue comes up once Postgres answers.  The    *)
(* code does not have it: see the README.                                   *)
QueueIsReached == <>(started \/ ShuttingDown)

(* Socket.IO joins the other instances once Redis answers.  Likewise.       *)
ClusterIsJoined == <>(adapter = "cluster" \/ ShuttingDown)

(* A finished shutdown leaves no worker and no connection.  An attempt that *)
(* was in progress when the signal came may complete after it.              *)
ShutdownIsComplete == shutdown = "done" => ~started /\ ~db

=============================================================================
