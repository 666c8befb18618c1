--------------------------- MODULE Startup_proofs ---------------------------
(***************************************************************************)
(* Proofs about Startup, for any number of tries, attempts and outages.    *)
(*                                                                         *)
(* The inductive invariant says who may be where: QueueService.start is    *)
(* under way only within a try of the pg-boss call and before the service  *)
(* is started; that call begins after the first Postgres call returned.    *)
(***************************************************************************)
EXTENDS Startup, TLAPS

(* A pause is left for another try only below the limit. *)
TriesLeft ==
  /\ \A d \in Dependencies : retry[d].phase = "pause" => retry[d].try < MaxTries
  /\ start.pc = "pause" => start.try < StartTries

(* pg-boss waits for the first Postgres call. *)
QueueWaits ==
  retry["postgres"].first /\ retry["postgres"].phase \in {"trying", "pause"} =>
    retry["pgboss"] = [phase |-> "idle", try |-> 0, first |-> FALSE]

(* start runs within a try, before the service is started, and only a       *)
(* shutdown takes its boss away.                                            *)
StartWithinTry ==
  /\ start.pc # "off" => Trying("pgboss") /\ ~started
  /\ start.pc = "wire" /\ ~ShuttingDown => boss

IInv == StartupTypeOK /\ TriesLeft /\ QueueWaits /\ StartWithinTry /\ UsableMeansWorking

-----------------------------------------------------------------------------
(* NextTry gives a well-typed record below the limit. *)
LEMMA NextTryType ==
  ASSUME NEW r \in Retry, r.try < MaxTries
  PROVE  NextTry(r) \in Retry /\ NextTry(r).phase \in {"trying", "stopped"}
                              /\ NextTry(r).first = r.first
  <1>1. r.try + 1 \in 0..MaxTries
    BY StartupAssumption DEF StartupAssumption, Retry
  <1>2. NextTry(r) \in Retry
    BY <1>1 DEF NextTry, Retry
  <1>3. NextTry(r).phase \in {"trying", "stopped"} /\ NextTry(r).first = r.first
    BY DEF NextTry, Retry
  <1>4. QED
    BY <1>2, <1>3

(* AfterFailure gives a well-typed record that never tries at once. *)
LEMMA AfterFailureType ==
  ASSUME NEW r \in Retry
  PROVE  /\ AfterFailure(r) \in Retry
         /\ AfterFailure(r).phase \in {"pause", "degraded", "stopped"}
         /\ AfterFailure(r).phase = "pause" => AfterFailure(r).try < MaxTries
         /\ AfterFailure(r).first = r.first
  BY StartupAssumption DEF StartupAssumption, AfterFailure, Retry

(* The initial states satisfy the invariant. *)
LEMMA InitInvariant == StartupInit => IInv
  <1> SUFFICES ASSUME StartupInit PROVE IInv
    OBVIOUS
  <1>1. 0 \in 0..MaxTries /\ 1 \in 0..MaxTries /\ 0 \in 0..StartTries /\ 0 \in 0..MaxOutages
    BY StartupAssumption DEF StartupAssumption
  <1>2. StartupTypeOK
    BY <1>1 DEF StartupInit, StartupTypeOK, FirstTry, Off, Retry, Start
  <1>3. TriesLeft /\ QueueWaits
    BY DEF StartupInit, TriesLeft, QueueWaits, FirstTry, Off, Dependencies
  <1>4. StartWithinTry /\ UsableMeansWorking
    BY DEF StartupInit, StartWithinTry, UsableMeansWorking, Off
  <1>5. QED
    BY <1>2, <1>3, <1>4 DEF IInv

(* A step that gives one dependency a new record and leaves the queue alone *)
(* keeps the invariant, if the record has a try left in a pause, does not   *)
(* end a try in which start is under way, and pg-boss still waits.          *)
LEMMA RetryStep ==
  ASSUME IInv, NEW d \in Dependencies, NEW r \in Retry,
         retry' = [retry EXCEPT ![d] = r],
         r.phase = "pause" => r.try < MaxTries,
         start.pc # "off" => d # "pgboss",
         d = "postgres" /\ r.first /\ r.phase \in {"trying", "pause"} =>
           retry[d].first /\ retry[d].phase \in {"trying", "pause"},
         d = "pgboss" => retry[d].phase # "idle",
         UNCHANGED <<up, outages, start, boss, started, working, shutdown>>,
         redis' \in {"wait", "ready", "lost", "closed"},
         adapter' \in {"single", "joining", "cluster", "closed"},
         db' \in BOOLEAN
  PROVE  IInv'
  <1>1. retry' \in [Dependencies -> Retry] /\ retry'[d] = r
        /\ \A e \in Dependencies \ {d} : retry'[e] = retry[e]
    BY DEF IInv, StartupTypeOK
  <1>2. StartupTypeOK'
    BY <1>1 DEF IInv, StartupTypeOK
  <1>3. TriesLeft'
    BY <1>1 DEF IInv, TriesLeft
  <1>4. QueueWaits'
    <2>1. CASE d = "redis"
      BY <1>1, <2>1 DEF IInv, QueueWaits, Dependencies
    <2>2. CASE d = "postgres"
      BY <1>1, <2>2 DEF IInv, QueueWaits, Dependencies
    <2>3. CASE d = "pgboss"
      BY <1>1, <2>3 DEF IInv, QueueWaits, Dependencies
    <2>4. QED
      BY <2>1, <2>2, <2>3 DEF Dependencies
  <1>5. StartWithinTry' /\ UsableMeansWorking'
    BY <1>1 DEF IInv, StartWithinTry, UsableMeansWorking, Trying, ShuttingDown, Dependencies
  <1>6. QED
    BY <1>2, <1>3, <1>4, <1>5 DEF IInv

(* Every step keeps the invariant. *)
LEMMA NextInvariant == IInv /\ [StartupNext]_startupVars => IInv'
  <1> SUFFICES ASSUME IInv, [StartupNext]_startupVars PROVE IInv'
    OBVIOUS
  <1> USE StartupAssumption DEF StartupAssumption, IInv, StartupTypeOK, TriesLeft, QueueWaits, StartWithinTry,
                                UsableMeansWorking, Trying
  <1>1. ASSUME NEW d \in Dependencies, Resume(d) PROVE IInv'
    <2>1. /\ retry[d] \in Retry /\ retry[d].phase = "pause" /\ retry[d].try < MaxTries
          /\ retry' = [retry EXCEPT ![d] = NextTry(retry[d])]
      BY <1>1 DEF Resume
    <2> DEFINE n == NextTry(retry[d])
    <2>2. n \in Retry /\ n.phase \in {"trying", "stopped"} /\ n.first = retry[d].first
      BY <2>1, NextTryType
    <2>3. retry' = [retry EXCEPT ![d] = n]
      BY <2>1
    <2> HIDE DEF n
    <2>4. /\ start.pc # "off" => d # "pgboss"
          /\ n.phase = "pause" => n.try < MaxTries
          /\ n.first => retry[d].first
      BY <2>1, <2>2
    <2>5. /\ UNCHANGED <<up, outages, start, boss, started, working, shutdown>>
          /\ redis' \in {"wait", "ready", "lost", "closed"}
          /\ adapter' \in {"single", "joining", "cluster", "closed"} /\ db' \in BOOLEAN
      BY <1>1 DEF Resume, servers, queue
    <2> HIDE DEF IInv, StartupTypeOK, TriesLeft, QueueWaits, StartWithinTry,
                 UsableMeansWorking, Trying
    <2>6. QED
      BY <2>1, <2>2, <2>3, <2>4, <2>5, RetryStep
  <1>2. ASSUME NEW d \in Dependencies, Again(d) PROVE IInv'
    <2> DEFINE r == [retry[d] EXCEPT !.try = 0, !.first = FALSE]
    <2>1. retry[d] \in Retry /\ 0 \in 0..MaxTries /\ 0 < MaxTries
      OBVIOUS
    <2>2. r \in Retry /\ r.try < MaxTries /\ r.first = FALSE
      BY <2>1 DEF Retry
    <2>3. retry[d].phase = "degraded" /\ retry' = [retry EXCEPT ![d] = NextTry(r)]
      BY <1>2 DEF Again
    <2> DEFINE n == NextTry(r)
    <2> HIDE DEF r
    <2>4. n \in Retry /\ n.phase \in {"trying", "stopped"} /\ n.first = FALSE
      BY <2>2, NextTryType
    <2>5. retry' = [retry EXCEPT ![d] = n]
      BY <2>3
    <2> HIDE DEF n
    <2>6. /\ start.pc # "off" => d # "pgboss"
          /\ n.phase = "pause" => n.try < MaxTries
          /\ ~n.first
      BY <2>3, <2>4
    <2>7. /\ UNCHANGED <<up, outages, start, boss, started, working, shutdown>>
          /\ redis' \in {"wait", "ready", "lost", "closed"}
          /\ adapter' \in {"single", "joining", "cluster", "closed"} /\ db' \in BOOLEAN
      BY <1>2 DEF Again, servers, queue
    <2> HIDE DEF IInv, StartupTypeOK, TriesLeft, QueueWaits, StartWithinTry,
                 UsableMeansWorking, Trying
    <2>8. QED
      BY <2>3, <2>4, <2>5, <2>6, <2>7, RetryStep
  <1>3. ASSUME NEW d \in Dependencies, ConnectFails(d) PROVE IInv'
    <2>1. /\ retry[d] \in Retry /\ retry[d].phase = "trying" /\ d # "pgboss"
          /\ retry' = [retry EXCEPT ![d] = AfterFailure(retry[d])]
      BY <1>3 DEF ConnectFails, Fail
    <2>2. QED
      BY <1>3, <2>1, AfterFailureType, RetryStep DEF ConnectFails, servers, queue
  <1>4. CASE ConnectRedis
    <2> DEFINE r == [retry["redis"] EXCEPT !.phase = "ready"]
    <2>1. "redis" \in Dependencies /\ r \in Retry /\ r.phase = "ready"
          /\ retry' = [retry EXCEPT !["redis"] = r]
      BY <1>4 DEF ConnectRedis, Retry, Dependencies
    <2> HIDE DEF r
    <2>2. /\ redis' \in {"wait", "ready", "lost", "closed"}
          /\ adapter' \in {"single", "joining", "cluster", "closed"} /\ db' \in BOOLEAN
          /\ UNCHANGED <<up, outages, start, boss, started, working, shutdown>>
      BY <1>4 DEF ConnectRedis, servers, queue
    <2>3. QED
      BY <2>1, <2>2, RetryStep
  <1>5. CASE ConnectPostgres
    <2> DEFINE r == [retry["pgboss"] EXCEPT !.first = TRUE]
               p == [retry["postgres"] EXCEPT !.phase = "ready"]
    <2>1. p \in Retry /\ p.phase = "ready"
      BY DEF Retry, Dependencies
    <2>2. CASE retry["postgres"].first
      <3>1. /\ retry["pgboss"] = [phase |-> "idle", try |-> 0, first |-> FALSE]
            /\ start.pc = "off" /\ 0 \in 0..MaxTries /\ 0 < MaxTries
        BY <1>5, <2>2 DEF ConnectPostgres
      <3>2. retry["pgboss"].try = 0
        BY <3>1
      <3>3. retry["pgboss"] \in Retry
        BY DEF Dependencies
      <3>4. r \in Retry /\ r.try < MaxTries
        BY <3>1, <3>2, <3>3 DEF Retry
      <3>5. retry' = [retry EXCEPT !["postgres"] = p, !["pgboss"] = NextTry(r)]
        BY <1>5, <2>2 DEF ConnectPostgres, Dependencies
      <3> HIDE DEF r, p
      <3>6. QED
        BY <1>5, <2>1, <3>1, <3>4, <3>5, NextTryType
        DEF ConnectPostgres, servers, queue, ShuttingDown, Dependencies
    <2>3. CASE ~retry["postgres"].first
      <3>1. retry' = [retry EXCEPT !["postgres"] = p]
        BY <1>5, <2>3 DEF ConnectPostgres, Dependencies
      <3> HIDE DEF p
      <3>2. QED
        BY <1>5, <2>1, <3>1, RetryStep DEF ConnectPostgres, servers, queue, Dependencies
    <2>4. QED
      BY <2>2, <2>3 DEF Retry, Dependencies
  <1>6. CASE RedisClients
    BY <1>6 DEF RedisClients, servers, queue, ShuttingDown
  <1>7. CASE Enter
    BY <1>7 DEF Enter, servers, ShuttingDown, Dependencies, Retry, Start, Off
  <1>8. ASSUME StartFails, start.pc # "off"
        PROVE  /\ retry' \in [Dependencies -> Retry] /\ start' \in Start
               /\ TriesLeft' /\ QueueWaits'
               /\ start'.pc \in {"off", "pause"}
               /\ start'.pc = "pause" => retry' = retry
    <2>1. CASE start.try < StartTries
      BY <1>8, <2>1 DEF StartFails, Start, Dependencies
    <2>2. CASE ~(start.try < StartTries)
      <3>1. retry["pgboss"] \in Retry
            /\ retry' = [retry EXCEPT !["pgboss"] = AfterFailure(retry["pgboss"])]
        BY <1>8, <2>2 DEF StartFails, Fail, Dependencies
      <3>2. start' = Off
        BY <1>8, <2>2 DEF StartFails
      <3>3. QED
        BY <1>8, <3>1, <3>2, AfterFailureType DEF Off, Start, Dependencies
    <2>3. QED
      BY <2>1, <2>2
  <1>9. CASE Boot
    <2>1. CASE up["postgres"]
      BY <1>9, <2>1 DEF Boot, servers, ShuttingDown, Start, Dependencies
    <2>2. CASE ~up["postgres"]
      BY <1>8, <1>9, <2>2 DEF Boot, servers, ShuttingDown
    <2>3. QED
      BY <2>1, <2>2
  <1>10. CASE Wire
    BY <1>10 DEF Wire, servers, ShuttingDown, Start, Off, Retry, Dependencies
  <1>11. CASE WireFails
    BY <1>8, <1>11 DEF WireFails, servers, ShuttingDown
  <1>12. CASE StartResume
    BY <1>12 DEF StartResume, servers, ShuttingDown, Start
  <1>13. CASE Signal
    BY <1>13 DEF Signal, servers, queue, ShuttingDown
  <1>14. CASE ShutdownStopsQueue
    BY <1>14 DEF ShutdownStopsQueue, StopQueue, servers, ShuttingDown
  <1>15. CASE ShutdownCloses
    BY <1>15 DEF ShutdownCloses, servers, queue, ShuttingDown
  <1>16. CASE ShutdownEndsApp
    BY <1>16 DEF ShutdownEndsApp, StopQueue, servers, ShuttingDown
  <1>17. ASSUME NEW s \in Servers, Outage(s) PROVE IInv'
    BY <1>17 DEF Outage, queue, ShuttingDown
  <1>18. ASSUME NEW s \in Servers, Recover(s) PROVE IInv'
    BY <1>18 DEF Recover, queue, ShuttingDown
  <1>19. CASE UNCHANGED startupVars
    BY <1>19 DEF startupVars, ShuttingDown
  <1>20. QED
    BY <1>1, <1>2, <1>3, <1>4, <1>5, <1>6, <1>7, <1>9, <1>10, <1>11, <1>12, <1>13,
       <1>14, <1>15, <1>16, <1>17, <1>18, <1>19 DEF StartupNext, Process

-----------------------------------------------------------------------------
(* Every reachable state satisfies the invariant. *)
THEOREM StartupInvariance == StartupSpec => []IInv
  BY InitInvariant, NextInvariant, PTL DEF StartupSpec

(* The types of the variables: no call makes more tries than its limit. *)
THEOREM StartupTypeCorrect == StartupSpec => []StartupTypeOK
  <1>1. IInv => StartupTypeOK
    BY DEF IInv
  <1>2. QED
    BY <1>1, StartupInvariance, PTL

(* Whenever send and isReady let a caller through, workers are registered,  *)
(* for any interleaving of start, stop, outages and the retry timers.       *)
THEOREM UsableQueuesWork == StartupSpec => []UsableMeansWorking
  <1>1. IInv => UsableMeansWorking
    BY DEF IInv
  <1>2. QED
    BY <1>1, StartupInvariance, PTL

(* After the signal, and once no attempt is in progress, none begins and    *)
(* nothing comes up.                                                        *)
THEOREM ShutdownIsQuiet == StartupSpec => NothingComesBack
  <1>1. IInv /\ [StartupNext]_startupVars =>
          [Settled => Settled' /\ (boss' => boss) /\ (db' => db)]_startupVars
    <2> SUFFICES ASSUME IInv, StartupNext, Settled
                 PROVE  Settled' /\ (boss' => boss) /\ (db' => db)
      BY DEF startupVars
    <2>1. ShuttingDown /\ (\A d \in Dependencies : ~Trying(d)) /\ start.pc = "off"
      BY DEF IInv, StartWithinTry, Settled, Dependencies
    <2>2. \/ boss' = FALSE \/ boss' = boss \/ start.pc = "boot"
      BY DEF StartupNext, Process, Resume, Again, ConnectFails, ConnectRedis, ConnectPostgres,
         RedisClients, Enter, Boot, Wire, WireFails, StartResume, Signal, StopQueue,
         ShutdownStopsQueue, ShutdownCloses, ShutdownEndsApp, Outage, Recover, queue
    <2>3. \/ db' = FALSE \/ db' = db \/ Trying("postgres")
      BY DEF StartupNext, Process, Resume, Again, ConnectFails, ConnectRedis, ConnectPostgres,
         RedisClients, Enter, Boot, Wire, WireFails, StartResume, Signal, StopQueue,
         ShutdownStopsQueue, ShutdownCloses, ShutdownEndsApp, Outage, Recover, queue
    <2>4. ShuttingDown'
      BY <2>1 DEF ShuttingDown, StartupNext, Process, Resume, Again, ConnectFails, ConnectRedis,
         ConnectPostgres, RedisClients, Enter, Boot, Wire, WireFails, StartResume, Signal,
         ShutdownStopsQueue, ShutdownCloses, ShutdownEndsApp, Outage, Recover
    <2>5. ASSUME NEW d \in Dependencies PROVE ~Trying(d)'
      <3>1. retry \in [Dependencies -> Retry]
        BY DEF IInv, StartupTypeOK
      <3>2. \A r \in Retry : NextTry(r).phase = "stopped"
        BY <2>1 DEF NextTry, Retry
      <3>3. [retry[d] EXCEPT !.try = 0, !.first = FALSE] \in Retry
        <4>1. 0 \in 0..MaxTries
          BY StartupAssumption DEF StartupAssumption
        <4>2. QED
          BY <3>1, <4>1 DEF Retry
      <3>4. CASE retry' = retry
        BY <2>1, <3>4 DEF Trying
      <3>5. CASE \E e \in Dependencies : Resume(e) \/ Again(e)
        BY <2>1, <3>1, <3>2, <3>3, <3>5 DEF Resume, Again, Trying
      <3>6. QED
        BY <2>1, <3>4, <3>5 DEF StartupNext, Process, ConnectFails, ConnectRedis, ConnectPostgres,
           RedisClients, Enter, Boot, Wire, WireFails, StartResume, Signal, Dependencies,
           ShutdownStopsQueue, ShutdownCloses, ShutdownEndsApp, Outage, Recover, queue
    <2>6. Settled'
      BY <2>4, <2>5 DEF Settled, Dependencies
    <2>7. start.pc # "boot" /\ ~Trying("postgres")
      BY <2>1 DEF Dependencies
    <2>8. boss' = FALSE \/ boss' = boss
      BY <2>2, <2>7
    <2>9. db' = FALSE \/ db' = db
      BY <2>3, <2>7
    <2>10. boss' => boss
      BY <2>8, Zenon
    <2>11. db' => db
      BY <2>9, Zenon
    <2>12. QED
      BY <2>6, <2>10, <2>11, Zenon
  <1>2. QED
    BY <1>1, StartupInvariance, PTL DEF StartupSpec, NothingComesBack

=============================================================================
