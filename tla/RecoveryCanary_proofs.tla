------------------------ MODULE RecoveryCanary_proofs ------------------------
(***************************************************************************)
(* Proofs about admission after a restart, for any number of recoveries,   *)
(* runtimes, runners, threads, restarts, skews and any passage of time.    *)
(*                                                                         *)
(* A canary is validated again, with another clock, each time it is looked *)
(* up.  The argument is that a stored trace is the one its own row's       *)
(* attempt and time build (CanariesGenuine), so that the whole validation  *)
(* comes down to two comparisons with the reader's clock.                  *)
(***************************************************************************)
EXTENDS RecoveryCanary, CoordinationEvents_proofs

\* The stored trace is the one the runner built, from a time late enough.
GenuineRow(c) ==
    /\ c.trace = BuildTrace(c.attempt, c.at)
    /\ c.attempt > 0 /\ c.at >= Lead

CanariesGenuine ==
    \A r \in Recoveries : canaries[r] # None => GenuineRow(canaries[r])

\* ResumedUnderOwnCanary's canary, for one lookup: it was found in time.
Admitted(at, h, rows) ==
    \E e \in rows :
        /\ e.agg = h.recovery /\ e.id = <<h.recovery, h.runtime>>
        /\ at \in Lifetime(e.at)

\* Every lookup that passed, of a thread that is not loaded yet as well, was
\* one of the process that lives.
CheckedOwn ==
    \A t \in Threads : checked[t] # None =>
        host # None /\ Admitted(checked[t], host, events)

\* A V1 child is admitted by the lookup that lets it pass the gate.
GateChecked ==
    \A t \in Threads : loaded[t] # None /\ kind[t] = "v1" => checked[t] = loaded[t]

Inv == TypeOK /\ CanariesGenuine /\ CanaryMatchesLog /\ CheckedOwn /\ GateChecked

-----------------------------------------------------------------------------
(* The trace a runner builds, and when it validates.                       *)

\* A trace has six observations, in order, over 130 ms.
LEMMA TraceShape ==
    ASSUME NEW n, NEW now \in Int, NEW tr, tr = BuildTrace(n, now)
    PROVE  /\ tr.attempt = n /\ tr.start = now - 20
           /\ tr.deadline = now + 30000
           /\ Len(tr.events) = 6 /\ DOMAIN tr.events = 1..6
           /\ tr.events # <<>>
           /\ tr.events[1].phase = "Boot" /\ tr.events[1].at = now - 20
           /\ tr.events[2].phase = "LedgerChecked" /\ tr.events[2].at = now - 19
           /\ tr.events[3].phase = "CanarySpawned" /\ tr.events[3].at = now - 18
           /\ tr.events[4].phase = "InitialTurnCompleted"
           /\ tr.events[4].at = now - 14 /\ tr.events[4].began = now - 16
           /\ tr.events[5].phase = "ContinuationTurnCompleted"
           /\ tr.events[5].at = now - 9 /\ tr.events[5].began = now - 11
           /\ tr.events[6].phase = "CanaryPassed" /\ tr.events[6].at = now - 7
BY DEF BuildTrace, Observed, Turn, Lead, Window

\* RecoveryCanaryTrace::validate of such a trace is a matter of two
\* comparisons with the reader's clock.
LEMMA TraceLifetime ==
    ASSUME NEW n \in Nat, NEW now \in Int, NEW t \in Int
    PROVE  RehydrationAllowed(BuildTrace(n, now), t) <=>
             /\ n > 0 /\ now >= Lead
             /\ t >= now - 7 /\ t <= now + Window
<1> DEFINE tr == BuildTrace(n, now)
<1>1. /\ tr.attempt = n /\ tr.start = now - 20 /\ tr.deadline = now + 30000
      /\ Len(tr.events) = 6 /\ DOMAIN tr.events = 1..6 /\ tr.events # <<>>
      /\ tr.events[1].phase = "Boot" /\ tr.events[1].at = now - 20
      /\ tr.events[2].phase = "LedgerChecked" /\ tr.events[2].at = now - 19
      /\ tr.events[3].phase = "CanarySpawned" /\ tr.events[3].at = now - 18
      /\ tr.events[4].phase = "InitialTurnCompleted"
      /\ tr.events[4].at = now - 14 /\ tr.events[4].began = now - 16
      /\ tr.events[5].phase = "ContinuationTurnCompleted"
      /\ tr.events[5].at = now - 9 /\ tr.events[5].began = now - 11
      /\ tr.events[6].phase = "CanaryPassed" /\ tr.events[6].at = now - 7
  BY TraceShape
<1>d. DOMAIN tr.events = 1..6 /\ Len(tr.events) = 6
  BY <1>1
<1>h. tr.start = now - 20 /\ tr.deadline = now + 30000
  BY <1>1
<1>e1. tr.events[1].phase = "Boot" /\ tr.events[1].at = now - 20
  BY <1>1
<1>e2. tr.events[2].phase = "LedgerChecked" /\ tr.events[2].at = now - 19
  BY <1>1
<1>e3. tr.events[3].phase = "CanarySpawned" /\ tr.events[3].at = now - 18
  BY <1>1
<1>e4. /\ tr.events[4].phase = "InitialTurnCompleted"
       /\ tr.events[4].at = now - 14 /\ tr.events[4].began = now - 16
  BY <1>1
<1>e5. /\ tr.events[5].phase = "ContinuationTurnCompleted"
       /\ tr.events[5].at = now - 9 /\ tr.events[5].began = now - 11
  BY <1>1
<1>e6. tr.events[6].phase = "CanaryPassed" /\ tr.events[6].at = now - 7
  BY <1>1
<1> HIDE DEF tr
<1>a. \A i \in 1..6 : i = 1 \/ i = 2 \/ i = 3 \/ i = 4 \/ i = 5 \/ i = 6
  OBVIOUS
<1>2. Last(tr).phase = "CanaryPassed"
  BY <1>d, <1>e6 DEF Last
<1>3. PhasesInOrder(tr)
  <2> SUFFICES ASSUME NEW i \in 1..6
               PROVE  /\ tr.events[i].phase # "Failed"
                      /\ i <= Len(Order) /\ tr.events[i].phase = Order[i]
    BY <1>d, Zenon DEF PhasesInOrder
  <2>1. /\ Len(Order) = 8
        /\ Order[1] = "Boot" /\ Order[2] = "LedgerChecked"
        /\ Order[3] = "CanarySpawned" /\ Order[4] = "InitialTurnCompleted"
        /\ Order[5] = "ContinuationTurnCompleted" /\ Order[6] = "CanaryPassed"
    BY DEF Order
  <2>2. i <= Len(Order)
    BY <2>1
  <2>3. /\ tr.events[1].phase = Order[1] /\ tr.events[2].phase = Order[2]
        /\ tr.events[3].phase = Order[3] /\ tr.events[4].phase = Order[4]
        /\ tr.events[5].phase = Order[5] /\ tr.events[6].phase = Order[6]
    BY <1>e1, <1>e2, <1>e3, <1>e4, <1>e5, <1>e6, <2>1, Zenon
  <2>4. /\ Order[1] # "Failed" /\ Order[2] # "Failed" /\ Order[3] # "Failed"
        /\ Order[4] # "Failed" /\ Order[5] # "Failed" /\ Order[6] # "Failed"
    BY <2>1
  <2> QED BY <1>a, <2>2, <2>3, <2>4, Zenon
<1>4. now >= Lead => TurnsOK(tr)
  <2> SUFFICES ASSUME now >= Lead, NEW i \in 1..6
               PROVE  LET e == tr.events[i] IN
        /\ e.phase \in {"InitialTurnCompleted", "ContinuationTurnCompleted"} =>
              e.began >= 0 /\ e.at >= e.began + 1
        /\ e.phase = "ContinuationTurnCompleted" =>
              e.began >= tr.events[i - 1].at
    BY <1>d, Zenon DEF TurnsOK
  <2>0. now >= 20
    BY DEF Lead
  <2>1. CASE i = 1 BY <1>e1, <2>1
  <2>2. CASE i = 2 BY <1>e2, <2>2
  <2>3. CASE i = 3 BY <1>e3, <2>3
  <2>4. CASE i = 4 BY <1>e4, <2>0, <2>4
  <2>5. CASE i = 5
    <3>1. i - 1 = 4
      BY <2>5
    <3>2. tr.events[i - 1].at = now - 14
      BY <1>e4, <3>1
    <3> QED BY <1>e5, <2>0, <2>5, <3>2
  <2>6. CASE i = 6 BY <1>e6, <2>6
  <2> QED BY <1>a, <2>1, <2>2, <2>3, <2>4, <2>5, <2>6
<1>5. TimesOK(tr, t) <=> t >= now - 7
  <2>1. \A i \in 1..6 :
          /\ tr.events[i].at >= IF i = 1 THEN tr.start ELSE tr.events[i - 1].at
          /\ tr.events[i].at <= tr.deadline /\ tr.events[i].at <= now - 7
          /\ tr.events[i].at \in Int
    <3> TAKE i \in 1..6
    <3>1. CASE i = 1 BY <1>h, <1>e1, <3>1
    <3>2. CASE i = 2 /\ i - 1 = 1 BY <1>h, <1>e1, <1>e2, <3>2
    <3>3. CASE i = 3 /\ i - 1 = 2 BY <1>h, <1>e2, <1>e3, <3>3
    <3>4. CASE i = 4 /\ i - 1 = 3 BY <1>h, <1>e3, <1>e4, <3>4
    <3>5. CASE i = 5 /\ i - 1 = 4 BY <1>h, <1>e4, <1>e5, <3>5
    <3>6. CASE i = 6 /\ i - 1 = 5 BY <1>h, <1>e5, <1>e6, <3>6
    <3>7. i = 2 => i - 1 = 1
      OBVIOUS
    <3>8. i = 3 => i - 1 = 2
      OBVIOUS
    <3>9. i = 4 => i - 1 = 3
      OBVIOUS
    <3>10. i = 5 => i - 1 = 4
      OBVIOUS
    <3>11. i = 6 => i - 1 = 5
      OBVIOUS
    <3> QED BY <1>a, <3>1, <3>2, <3>3, <3>4, <3>5, <3>6, <3>7, <3>8, <3>9,
               <3>10, <3>11, Zenon
  <2>2. TimesOK(tr, t) <=> \A i \in 1..6 : tr.events[i].at <= t
    BY <1>d, <2>1, Zenon DEF TimesOK
  <2>3. \A a \in Int : a <= now - 7 /\ now - 7 <= t => a <= t
    OBVIOUS
  <2>4. t >= now - 7 => \A i \in 1..6 : tr.events[i].at <= t
    BY <2>1, <2>3
  <2>5. tr.events[6].at <= t => t >= now - 7
    BY <1>e6
  <2>6. 6 \in 1..6
    OBVIOUS
  <2> QED BY <2>2, <2>4, <2>5, <2>6, Zenon
<1>6. RehydrationAllowed(tr, t) <=>
        /\ n > 0 /\ now - 20 >= 0 /\ now + 30000 > now - 20
        /\ t >= now - 7 /\ t <= now + 30000
  BY <1>1, <1>2, <1>3, <1>4, <1>5 DEF RehydrationAllowed, Valid, Lead
<1> QED BY <1>6 DEF Lead, Window, tr

\* Membership of an interval, its bounds kept apart.
LEMMA Interval ==
    ASSUME NEW k \in Int, NEW lo \in Int, NEW hi \in Int
    PROVE  k \in lo..hi <=> k >= lo /\ k <= hi
OBVIOUS

LEMMA LifetimeBounds ==
    ASSUME NEW k \in Int, NEW at \in Int
    PROVE  k \in Lifetime(at) <=> k >= at - 7 /\ k <= at + Window
<1> DEFINE lo == at - 7  hi == at + Window
<1>1. lo \in Int /\ hi \in Int
  BY DEF Window
<1>2. Lifetime(at) = lo..hi
  BY DEF Lifetime
<1> HIDE DEF lo, hi
<1>3. k \in lo..hi <=> k >= lo /\ k <= hi
  BY <1>1, Interval
<1> QED BY <1>2, <1>3 DEF lo, hi

\* What a runner writes is a row of the table.
LEMMA RowType ==
    ASSUME NEW c \in Run
    PROVE  /\ CanaryRow(c) \in Canary
           /\ CanaryRow(c).runtime = c.runtime /\ CanaryRow(c).at = c.now
           /\ CanaryRow(c).attempt = c.attempt
           /\ CanaryRow(c).trace = BuildTrace(c.attempt, c.now)
<1>1. c.runtime \in Runtimes /\ c.attempt \in Attempts /\ c.now \in Int
  BY DEF Run
<1>2. BuildTrace(c.attempt, c.now) \in Trace
  <2> DEFINE now == c.now  start == now - Lead
             evs == <<Observed("Boot", start), Observed("LedgerChecked", start + 1),
                  Observed("CanarySpawned", start + 2),
                  Turn("InitialTurnCompleted", start + 4, start + 6),
                  Turn("ContinuationTurnCompleted", start + 9, start + 11),
                  Observed("CanaryPassed", start + 13)>>
  <2>1. start \in Int /\ now + Window \in Int
    BY <1>1 DEF Lead, Window
  <2>2. \A x \in Phases, at \in Int : Observed(x, at) \in Observation
    BY DEF Observed, Observation
  <2>3. \A x \in Phases, b, at \in Int : Turn(x, b, at) \in Observation
    BY DEF Turn, Observation
  <2> HIDE DEF start, now
  <2>a. \A a, b, c1, d, e, f \in Observation :
           <<a, b, c1, d, e, f>> \in Seq(Observation)
    OBVIOUS
  <2>4. evs \in Seq(Observation)
    <3>1. start + 1 \in Int /\ start + 2 \in Int /\ start + 4 \in Int
          /\ start + 6 \in Int /\ start + 9 \in Int /\ start + 11 \in Int
          /\ start + 13 \in Int
      BY <2>1
    <3>2. /\ Observed("Boot", start) \in Observation
          /\ Observed("LedgerChecked", start + 1) \in Observation
          /\ Observed("CanarySpawned", start + 2) \in Observation
          /\ Turn("InitialTurnCompleted", start + 4, start + 6) \in Observation
          /\ Turn("ContinuationTurnCompleted", start + 9, start + 11)
                \in Observation
          /\ Observed("CanaryPassed", start + 13) \in Observation
      BY <2>1, <2>2, <2>3, <3>1 DEF Phases
    <3> QED BY <2>a, <3>2, Zenon
  <2>5. BuildTrace(c.attempt, c.now) =
          [attempt |-> c.attempt, start |-> start, deadline |-> now + Window,
           events |-> evs]
    BY DEF BuildTrace, start, now
  <2> HIDE DEF evs
  <2> QED BY <1>1, <2>1, <2>4, <2>5 DEF Trace
<1> HIDE DEF Trace
<1> QED BY <1>1, <1>2 DEF CanaryRow, Canary

-----------------------------------------------------------------------------
(* The log of a recovery.                                                  *)

LogOf(rows, r) == {e \in rows : e.agg = r}

EventOf(r, c) == Row(Event(<<r, c.runtime>>, <<r, c.runtime>>, r, c.trace, c.at), 1)

\* CanaryMatchesLog, for one recovery.
Matches(r, c, rows) ==
    /\ c = None => LogOf(rows, r) = {}
    /\ c # None => LogOf(rows, r) = {EventOf(r, c)}

LEMMA MatchesEach ==
    CanaryMatchesLog <=> \A r \in Recoveries : Matches(r, canaries[r], events)
BY DEF CanaryMatchesLog, Matches, LogOf, EventOf

LEMMA MatchesEachNext ==
    CanaryMatchesLog' <=> \A r \in Recoveries : Matches(r, canaries'[r], events')
BY DEF CanaryMatchesLog, Matches, LogOf, EventOf

-----------------------------------------------------------------------------
(* Initially.                                                              *)

LEMMA InitInv == Init => Inv
<1> SUFFICES ASSUME Init PROVE Inv
  OBVIOUS
<1>1. TypeOK
  BY CanaryAssumption DEF Init, TypeOK
<1>2. \A r \in Recoveries : canaries[r] = None
  BY DEF Init
<1>3. CanaryMatchesLog
  BY <1>2 DEF Init, CanaryMatchesLog
<1>4. CheckedOwn /\ GateChecked
  BY DEF Init, CheckedOwn, GateChecked
<1>5. CanariesGenuine
  BY <1>2 DEF CanariesGenuine
<1> QED BY <1>1, <1>3, <1>4, <1>5 DEF Inv

-----------------------------------------------------------------------------
(* Steps that leave the ledger alone.                                      *)

LEMMA LedgerKept ==
    ASSUME CanariesGenuine, CanaryMatchesLog, UNCHANGED stored
    PROVE  CanariesGenuine' /\ CanaryMatchesLog'
BY DEF stored, CanariesGenuine, CanaryMatchesLog

\* A lookup stays what it was: the log grows.
LEMMA AdmittedGrows ==
    ASSUME NEW at, NEW h, Admitted(at, h, events), events \subseteq events'
    PROVE  Admitted(at, h, events')
BY DEF Admitted

\* Steps that are not the process's.
LEMMA ThreadsKept ==
    ASSUME Inv, UNCHANGED <<kind, process>>, events \subseteq events'
    PROVE  CheckedOwn' /\ GateChecked'
<1>1. host' = host /\ checked' = checked /\ loaded' = loaded /\ kind' = kind
  BY DEF process
<1>2. CheckedOwn'
  <2> SUFFICES ASSUME NEW t \in Threads, checked[t] # None
               PROVE  host # None /\ Admitted(checked[t], host, events')
    BY <1>1 DEF CheckedOwn, Admitted
  <2>1. host # None /\ Admitted(checked[t], host, events)
    BY DEF Inv, CheckedOwn
  <2> QED BY <2>1, AdmittedGrows
<1>3. GateChecked'
  BY <1>1 DEF Inv, GateChecked
<1> QED BY <1>2, <1>3

-----------------------------------------------------------------------------
(* The runner.                                                             *)

LEMMA StartRunInv ==
    ASSUME Inv, NEW q \in Runners, StartRun(q)
    PROVE  Inv'
<1> PICK r \in Recoveries, i \in Runtimes, n \in Attempts, s \in Skews :
        runner' = [runner EXCEPT ![q] =
              [pc |-> "probe", recovery |-> r, runtime |-> i, attempt |-> n,
               now |-> clock + s]]
  BY DEF StartRun
<1>1. clock + s \in Int
  BY CanaryAssumption DEF Inv, TypeOK
<1> DEFINE new == [pc |-> "probe", recovery |-> r, runtime |-> i,
                   attempt |-> n, now |-> clock + s]
<1>2. new \in Run
  BY <1>1 DEF Run
<1> HIDE DEF new
<1>3. runner' = [runner EXCEPT ![q] = new]
  BY DEF new
<1>4. UNCHANGED <<clock, stored, process, ticks, boots>> /\ runs' = runs + 1
  BY DEF StartRun
<1>5. TypeOK'
  BY <1>2, <1>3, <1>4 DEF Inv, TypeOK, stored, process
<1>6. CheckedOwn' /\ GateChecked'
  BY <1>4, ThreadsKept DEF stored
<1> QED BY <1>4, <1>5, <1>6, LedgerKept DEF Inv

LEMMA RunnerInv ==
    ASSUME Inv, NEW q \in Runners,
           Probe(q) \/ Abort(q) \/ RecordWithoutEffect(q)
    PROVE  Inv'
<1>1. UNCHANGED <<clock, stored, process, counters>>
  BY DEF Probe, Abort, RecordWithoutEffect
<1>2. runner' \in [Runners -> Run \cup {Idle}]
  <2>0. runner \in [Runners -> Run \cup {Idle}]
    BY DEF Inv, TypeOK
  <2>1. CASE Probe(q)
    <3>1. runner[q] \in Run
      BY <2>0, <2>1 DEF Probe, Idle
    <3>2. [runner[q] EXCEPT !.pc = "record"] \in Run
      BY <3>1 DEF Run
    <3>3. runner' = [runner EXCEPT ![q] = [runner[q] EXCEPT !.pc = "record"]]
      BY <2>0, <2>1 DEF Probe
    <3> QED BY <2>0, <3>2, <3>3
  <2>2. CASE Abort(q) \/ RecordWithoutEffect(q)
    BY <2>0, <2>2 DEF Abort, RecordWithoutEffect
  <2> QED BY <2>1, <2>2
<1>3. TypeOK'
  BY <1>1, <1>2 DEF Inv, TypeOK, stored, process, counters
<1>4. CheckedOwn' /\ GateChecked'
  BY <1>1, ThreadsKept DEF stored
<1> QED BY <1>1, <1>3, <1>4, LedgerKept DEF Inv

\* record_recovery_canary: the row and its event, in one transaction.
LEMMA RecordInv ==
    ASSUME Inv, NEW q \in Runners, Record(q)
    PROVE  Inv'
<1> DEFINE c == runner[q]  row == CanaryRow(c)  e == Row(CanaryEvent(c), 1)
<1>1. c \in Run
  BY DEF Inv, TypeOK, Record, Idle
<1>2. c.recovery \in Recoveries /\ c.attempt \in Nat /\ c.now \in Int
  BY <1>1, CanaryAssumption DEF Run
<1>3. /\ UNCHANGED <<clock, kind, process, counters>>
      /\ events' = events \cup {e}
      /\ canaries' = [canaries EXCEPT ![c.recovery] = row]
      /\ runner' = [runner EXCEPT ![q] = Idle]
      /\ Recordable(c)
  BY DEF Record, Append1
<1>4. /\ row \in Canary /\ row # None /\ row.runtime = c.runtime
      /\ row.at = c.now /\ row.attempt = c.attempt
      /\ row.trace = BuildTrace(c.attempt, c.now)
  BY <1>1, RowType, CanaryAssumption
<1>5. e.agg = c.recovery /\ e = EventOf(c.recovery, row)
  BY <1>4 DEF CanaryEvent, Event, Row, EventOf
<1>6. GenuineRow(row)
  <2>1. RehydrationAllowed(BuildTrace(c.attempt, c.now), c.now)
    BY <1>3 DEF Recordable
  <2>2. c.attempt > 0 /\ c.now >= Lead
    BY <1>2, <2>1, TraceLifetime
  <2> QED BY <1>4, <2>2 DEF GenuineRow
<1>7. canaries[c.recovery] = None
  BY <1>3 DEF Recordable
<1> HIDE DEF c, row, e
<1>t. canaries \in [Recoveries -> Canary \cup {None}]
  BY DEF Inv, TypeOK
<1>8. \A r \in Recoveries :
         canaries'[r] = IF r = c.recovery THEN row ELSE canaries[r]
  BY <1>2, <1>3, <1>t
<1>9. CanariesGenuine'
  BY <1>6, <1>8 DEF Inv, CanariesGenuine
<1>10. CanaryMatchesLog'
  <2> SUFFICES ASSUME NEW r \in Recoveries
               PROVE  Matches(r, canaries'[r], events')
    BY MatchesEachNext
  <2>1. Matches(r, canaries[r], events)
    BY MatchesEach DEF Inv
  <2>2. CASE r = c.recovery
    <3>1. LogOf(events, r) = {}
      BY <1>7, <2>1, <2>2 DEF Matches
    <3>2. LogOf(events', r) = {e}
      BY <1>3, <1>5, <2>2, <3>1 DEF LogOf
    <3> QED BY <1>4, <1>5, <1>8, <2>2, <3>2 DEF Matches
  <2>3. CASE r # c.recovery
    <3>1. LogOf(events', r) = LogOf(events, r)
      BY <1>3, <1>5, <2>3 DEF LogOf
    <3> QED BY <1>8, <2>1, <2>3, <3>1 DEF Matches
  <2> QED BY <2>2, <2>3
<1>11. TypeOK'
  <2>1. canaries' \in [Recoveries -> Canary \cup {None}]
    BY <1>2, <1>3, <1>4, <1>t
  <2>2. \A r \in Recoveries : canaries'[r] # None => canaries'[r].attempt > 0
    BY <1>6, <1>8 DEF Inv, TypeOK, GenuineRow
  <2>3. runner' \in [Runners -> Run \cup {Idle}]
    BY <1>3 DEF Inv, TypeOK
  <2> QED BY <1>3, <2>1, <2>2, <2>3 DEF Inv, TypeOK, process, counters
<1>12. CheckedOwn' /\ GateChecked'
  BY <1>3, ThreadsKept
<1> QED BY <1>9, <1>10, <1>11, <1>12 DEF Inv

-----------------------------------------------------------------------------
(* The process.                                                            *)

LEMMA HostInv ==
    ASSUME Inv, Boot \/ Die \/ Tick
    PROVE  Inv'
<1>1. CASE Boot
  <2>1. /\ host = None /\ host' \in Host
        /\ UNCHANGED <<clock, stored, runner, resume, checked, loaded, ticks, runs>>
        /\ boots' = boots + 1
    BY <1>1 DEF Boot, Host
  <2>2. \A t \in Threads : checked[t] = None /\ loaded[t] = None
    BY <2>1 DEF Inv, TypeOK, CheckedOwn
  <2>3. TypeOK'
    BY <2>1, CanaryAssumption DEF Inv, TypeOK, stored
  <2>4. CheckedOwn' /\ GateChecked'
    BY <2>1, <2>2 DEF CheckedOwn, GateChecked
  <2> QED BY <2>1, <2>3, <2>4, LedgerKept DEF Inv
<1>2. CASE Die
  <2>1. /\ host' = None /\ UNCHANGED <<clock, stored, runner, counters>>
        /\ resume' = [t \in Threads |-> "idle"]
        /\ checked' = [t \in Threads |-> None]
        /\ loaded' = [t \in Threads |-> None]
    BY <1>2 DEF Die
  <2>2. TypeOK'
    BY <2>1 DEF Inv, TypeOK, stored, counters
  <2>3. CheckedOwn' /\ GateChecked'
    BY <2>1 DEF CheckedOwn, GateChecked
  <2> QED BY <2>1, <2>2, <2>3, LedgerKept DEF Inv
<1>3. CASE Tick
  <2> PICK d \in Steps : clock' = clock + d
    BY <1>3 DEF Tick
  <2>1. ticks' = ticks + 1 /\ UNCHANGED <<stored, runner, process, runs, boots>>
    BY <1>3 DEF Tick
  <2>2. clock' \in Nat /\ ticks' \in Nat
    BY <2>1, CanaryAssumption DEF Inv, TypeOK
  <2>3. TypeOK'
    BY <2>1, <2>2 DEF Inv, TypeOK, stored, process
  <2>4. CheckedOwn' /\ GateChecked'
    BY <2>1, ThreadsKept DEF stored
  <2> QED BY <2>1, <2>3, <2>4, LedgerKept DEF Inv
<1> QED BY <1>1, <1>2, <1>3

\* load_recovery_canary admits only what the log holds a canary for.
LEMMA LoadableIsAdmitted ==
    ASSUME Inv, host # None, Loadable(clock)
    PROVE  Admitted(clock, host, events)
<1> DEFINE r == host.recovery  c == canaries[r]
<1>1. r \in Recoveries /\ clock \in Nat
  BY DEF Inv, TypeOK, Host
<1>2. c # None /\ c.runtime = host.runtime /\ RehydrationAllowed(c.trace, clock)
  BY DEF Loadable
<1>3. c \in Canary
  BY <1>1, <1>2 DEF Inv, TypeOK
<1>4. c.attempt \in Nat /\ c.at \in Int
  BY <1>3, CanaryAssumption DEF Canary
<1>5. c.trace = BuildTrace(c.attempt, c.at)
  BY <1>1, <1>2 DEF Inv, CanariesGenuine, GenuineRow
<1>6. clock >= c.at - 7 /\ clock <= c.at + Window
  BY <1>1, <1>2, <1>4, <1>5, TraceLifetime
<1>7. EventOf(r, c) \in events
  <2>1. Matches(r, c, events)
    BY <1>1, MatchesEach DEF Inv
  <2> QED BY <1>2, <2>1 DEF Matches, LogOf
<1>8. /\ EventOf(r, c).agg = r /\ EventOf(r, c).id = <<r, c.runtime>>
      /\ EventOf(r, c).at = c.at
  BY DEF EventOf, Event, Row
<1>9. clock \in Lifetime(c.at)
  <2> DEFINE a == c.at
  <2>1. /\ a \in Int /\ clock \in Int /\ clock >= a - 7 /\ clock <= a + Window
        /\ Window \in Int
    BY <1>1, <1>4, <1>6 DEF Window
  <2> HIDE DEF a
  <2>2. clock \in Lifetime(a)
    BY <2>1, LifetimeBounds
  <2> QED BY <2>2 DEF a
<1> QED BY <1>2, <1>7, <1>8, <1>9 DEF Admitted

\* What a step of the process does to one thread.
LEMMA ThreadMoved ==
    ASSUME Inv, NEW t \in Threads, host # None, UNCHANGED Outside,
           NEW pc \in {"idle", "preflight", "contract", "own", "gate", "bind",
                       "running"},
           NEW k \in Nat \cup {None}, NEW l \in Nat \cup {None},
           resume' = [resume EXCEPT ![t] = pc],
           checked' = [checked EXCEPT ![t] = k],
           loaded' = [loaded EXCEPT ![t] = l],
           l # None <=> pc \in {"bind", "running"},
           pc \in {"contract", "gate", "bind", "running"} => k # None,
           k # None => Admitted(k, host, events),
           l # None /\ kind[t] = "v1" => k = l
    PROVE  Inv'
<1>1. UNCHANGED <<clock, stored, runner, host, counters>>
  BY DEF Outside
<1>2. /\ resume \in [Threads -> {"idle", "preflight", "contract", "own", "gate",
                                 "bind", "running"}]
      /\ checked \in [Threads -> Nat \cup {None}]
      /\ loaded \in [Threads -> Nat \cup {None}]
  BY DEF Inv, TypeOK
<1>3. TypeOK'
  <2>1. \A u \in Threads :
          /\ loaded'[u] # None <=> resume'[u] \in {"bind", "running"}
          /\ resume'[u] \in {"contract", "gate", "bind", "running"}
                => checked'[u] # None
    <3> SUFFICES ASSUME NEW u \in Threads
                 PROVE  /\ loaded'[u] # None <=> resume'[u] \in {"bind", "running"}
                        /\ resume'[u] \in {"contract", "gate", "bind", "running"}
                              => checked'[u] # None
      OBVIOUS
    <3>1. CASE u = t
      BY <1>2, <3>1
    <3>2. CASE u # t
      <4>1. resume'[u] = resume[u] /\ checked'[u] = checked[u]
            /\ loaded'[u] = loaded[u]
        BY <1>2, <3>2
      <4> QED BY <4>1 DEF Inv, TypeOK
    <3> QED BY <3>1, <3>2
  <2>2. /\ resume' \in [Threads -> {"idle", "preflight", "contract", "own",
                                    "gate", "bind", "running"}]
        /\ checked' \in [Threads -> Nat \cup {None}]
        /\ loaded' \in [Threads -> Nat \cup {None}]
    BY <1>2
  <2> QED BY <1>1, <2>1, <2>2 DEF Inv, TypeOK, stored, counters
<1>4. CheckedOwn'
  <2> SUFFICES ASSUME NEW u \in Threads, checked'[u] # None
               PROVE  host # None /\ Admitted(checked'[u], host, events)
    BY <1>1 DEF CheckedOwn, Admitted, stored
  <2>1. CASE u = t
    BY <1>2, <2>1
  <2>2. CASE u # t
    BY <1>2, <2>2 DEF Inv, CheckedOwn
  <2> QED BY <2>1, <2>2
<1>5. GateChecked'
  BY <1>1, <1>2 DEF Inv, GateChecked, stored
<1> QED BY <1>1, <1>3, <1>4, <1>5, LedgerKept DEF Inv

LEMMA ThreadInv ==
    ASSUME Inv, NEW t \in Threads,
           Request(t) \/ Resuming(t) \/ Refuse(t) \/ Revert(t)
    PROVE  Inv'
<1>1. UNCHANGED Outside /\ host # None
  BY DEF Request, Resuming, Refuse, Revert, Preflight, ContractOK, OwnCheck,
         Gate, Rehydrate, At
<1>2. /\ resume \in [Threads -> {"idle", "preflight", "contract", "own", "gate",
                                 "bind", "running"}]
      /\ checked \in [Threads -> Nat \cup {None}]
      /\ loaded \in [Threads -> Nat \cup {None}]
      /\ loaded[t] # None <=> resume[t] \in {"bind", "running"}
      /\ resume[t] \in {"contract", "gate", "bind", "running"}
            => checked[t] # None
      /\ clock \in Nat /\ clock # None
  BY CanaryAssumption DEF Inv, TypeOK
<1>3. /\ checked[t] # None => Admitted(checked[t], host, events)
      /\ loaded[t] # None /\ kind[t] = "v1" => checked[t] = loaded[t]
  BY DEF Inv, CheckedOwn, GateChecked
<1>c. checked = [checked EXCEPT ![t] = checked[t]]
  BY <1>2
<1>l. loaded = [loaded EXCEPT ![t] = loaded[t]]
  BY <1>2
<1>d. Drops(t) => Inv'
  <2> SUFFICES ASSUME Drops(t) PROVE Inv'
    OBVIOUS
  <2>1. /\ resume' = [resume EXCEPT ![t] = "idle"]
        /\ checked' = [checked EXCEPT ![t] = None]
        /\ loaded' = [loaded EXCEPT ![t] = None]
    BY DEF Drops, Goto
  <2> QED BY <1>1, <2>1, ThreadMoved
<1>4. ASSUME NEW pc \in {"contract", "gate"}, Lookup(t, pc), loaded[t] = None
      PROVE  Inv'
  <2>1. CASE Loadable(clock)
    <3>1. /\ resume' = [resume EXCEPT ![t] = pc]
          /\ checked' = [checked EXCEPT ![t] = clock] /\ loaded' = loaded
      BY <1>4, <2>1 DEF Lookup, Goto
    <3>2. Admitted(clock, host, events)
      BY <1>1, <2>1, LoadableIsAdmitted
    <3>3. loaded' = [loaded EXCEPT ![t] = None]
      BY <1>4, <1>l, <3>1
    <3> QED BY <1>1, <1>2, <3>1, <3>2, <3>3, ThreadMoved
  <2>2. CASE ~Loadable(clock)
    BY <1>4, <1>d, <2>2 DEF Lookup
  <2> QED BY <2>1, <2>2
<1>5. CASE Request(t) \/ ContractOK(t)
  <2>1. PICK pc \in {"preflight", "own", "gate"} :
           /\ resume' = [resume EXCEPT ![t] = pc]
           /\ pc = "gate" => resume[t] = "contract"
    BY <1>5 DEF Request, ContractOK, At, Goto
  <2>2. resume[t] \in {"idle", "contract"} /\ checked' = checked
        /\ loaded' = loaded
    BY <1>5 DEF Request, ContractOK, At
  <2>3. loaded[t] = None
    BY <1>2, <2>2
  <2>4. pc = "gate" => checked[t] # None
    BY <1>2, <2>1
  <2>5. /\ checked' = [checked EXCEPT ![t] = checked[t]]
        /\ loaded' = [loaded EXCEPT ![t] = None]
    BY <1>c, <1>l, <2>2, <2>3
  <2> QED BY <1>1, <1>2, <1>3, <2>1, <2>4, <2>5, ThreadMoved
<1>6. CASE Preflight(t) \/ OwnCheck(t)
  <2>1. PICK pc \in {"contract", "gate"} : Lookup(t, pc)
    BY <1>6 DEF Preflight, OwnCheck
  <2>2. resume[t] \in {"preflight", "own"}
    BY <1>6 DEF Preflight, OwnCheck, At
  <2>3. loaded[t] = None
    BY <1>2, <2>2
  <2> QED BY <1>4, <2>1, <2>3
<1>7. CASE Gate(t)
  <2>1. CASE kind[t] = "v1" /\ ~Loadable(clock)
    BY <1>7, <1>d, <2>1 DEF Gate
  <2>2. CASE kind[t] = "v1" /\ Loadable(clock)
    <3>1. /\ resume' = [resume EXCEPT ![t] = "bind"]
          /\ checked' = [checked EXCEPT ![t] = clock]
          /\ loaded' = [loaded EXCEPT ![t] = clock]
      BY <1>7, <2>2 DEF Gate, Goto
    <3>2. Admitted(clock, host, events)
      BY <1>1, <2>2, LoadableIsAdmitted
    <3> QED BY <1>1, <1>2, <3>1, <3>2, ThreadMoved
  <2>3. CASE kind[t] # "v1"
    <3>1. /\ resume' = [resume EXCEPT ![t] = "bind"] /\ checked' = checked
          /\ loaded' = [loaded EXCEPT ![t] = clock] /\ resume[t] = "gate"
      BY <1>7, <2>3 DEF Gate, Goto, At
    <3>2. checked[t] # None
      BY <1>2, <3>1
    <3>3. checked' = [checked EXCEPT ![t] = checked[t]]
      BY <1>c, <3>1
    <3> QED BY <1>1, <1>2, <1>3, <2>3, <3>1, <3>2, <3>3, ThreadMoved
  <2> QED BY <2>1, <2>2, <2>3
<1>8. CASE Rehydrate(t)
  <2>1. /\ resume[t] = "bind" /\ resume' = [resume EXCEPT ![t] = "running"]
        /\ checked' = checked /\ loaded' = loaded
    BY <1>8 DEF Rehydrate, At, Goto
  <2>2. checked[t] # None /\ loaded[t] # None
    BY <1>2, <2>1
  <2>3. /\ checked' = [checked EXCEPT ![t] = checked[t]]
        /\ loaded' = [loaded EXCEPT ![t] = loaded[t]]
    BY <1>c, <1>l, <2>1
  <2>4. checked[t] \in Nat \cup {None} /\ loaded[t] \in Nat \cup {None}
    BY <1>2
  <2> QED BY <1>1, <1>3, <2>1, <2>2, <2>3, <2>4, ThreadMoved
<1>9. CASE Refuse(t)
  BY <1>9, <1>d DEF Refuse
<1>10. CASE Revert(t)
  <2>1. /\ resume[t] = "running" /\ resume' = [resume EXCEPT ![t] = "gate"]
        /\ checked' = checked /\ loaded' = [loaded EXCEPT ![t] = None]
    BY <1>10 DEF Revert, At, Goto
  <2>2. checked[t] # None
    BY <1>2, <2>1
  <2>3. checked' = [checked EXCEPT ![t] = checked[t]]
    BY <1>c, <2>1
  <2> QED BY <1>1, <1>2, <1>3, <2>1, <2>2, <2>3, ThreadMoved
<1> QED BY <1>5, <1>6, <1>7, <1>8, <1>9, <1>10 DEF Resuming

-----------------------------------------------------------------------------
(* The theorems.                                                           *)

LEMMA Inductive == Spec => []Inv
<1>1. Inv /\ [Next]_vars => Inv'
  <2> SUFFICES ASSUME Inv, [Next]_vars PROVE Inv'
    OBVIOUS
  <2>1. CASE UNCHANGED vars
    BY <2>1 DEF vars, counters, Inv, TypeOK, CanariesGenuine, CanaryMatchesLog,
                CheckedOwn, GateChecked, Admitted
  <2>2. CASE Next
    BY <2>2, StartRunInv, RunnerInv, RecordInv, HostInv, ThreadInv DEF Next
  <2> QED BY <2>1, <2>2
<1> QED BY <1>1, InitInv, PTL DEF Spec

\* Type correctness of the ledger's canaries, the runs and the process; a
\* thread is admitted exactly while it is being bound or runs, and only in a
\* process that lives.
THEOREM TypeCorrect == Spec => []TypeOK
<1>1. Inv => TypeOK
  BY DEF Inv
<1> QED BY <1>1, Inductive, PTL

\* A thread is resumed only after a lookup that found, in time, a canary of
\* the process's two ids; for a V1 child it is the lookup of its admission.  It
\* holds for any passage of time, and also when the two ids are given again:
\* an earlier process's canary of the same ids then counts.
THEOREM OwnCanary == Spec => []ResumedUnderOwnCanary
<1>1. Inv => ResumedUnderOwnCanary
  <2> SUFFICES ASSUME Inv, NEW t \in Threads, loaded[t] # None
               PROVE  /\ Admitted(checked[t], host, events)
                      /\ kind[t] = "v1" => checked[t] = loaded[t]
    BY DEF ResumedUnderOwnCanary, Admitted
  <2>1. checked[t] # None
    BY DEF Inv, TypeOK
  <2> QED BY <2>1 DEF Inv, CheckedOwn, GateChecked
<1> QED BY <1>1, Inductive, PTL

\* record_recovery_canary writes the canary and its event together.
THEOREM CanariesAudited == Spec => []CanaryMatchesLog
<1>1. Inv => CanaryMatchesLog
  BY DEF Inv
<1> QED BY <1>1, Inductive, PTL

\* A stored canary validates from the moment its pass was observed up to its
\* deadline, both included, for any reader's clock, and at no other time.
THEOREM LifetimeExact == Spec => []CanaryLifetime
<1>1. Inv => CanaryLifetime
  <2> SUFFICES ASSUME Inv, NEW r \in Recoveries, canaries[r] # None
               PROVE  RehydrationAllowed(canaries[r].trace, clock)
                        <=> clock \in Lifetime(canaries[r].at)
    BY DEF CanaryLifetime
  <2> DEFINE c == canaries[r]
  <2>1. c \in Canary /\ clock \in Nat
    BY DEF Inv, TypeOK
  <2>2. c.attempt \in Nat /\ c.at \in Int
    BY <2>1, CanaryAssumption DEF Canary
  <2>3. c.trace = BuildTrace(c.attempt, c.at) /\ c.attempt > 0 /\ c.at >= Lead
    BY DEF Inv, CanariesGenuine, GenuineRow
  <2> HIDE DEF c
  <2>4. RehydrationAllowed(c.trace, clock) <=>
           clock >= c.at - 7 /\ clock <= c.at + Window
    BY <2>1, <2>2, <2>3, TraceLifetime
  <2>5. clock \in Lifetime(c.at) <=>
           clock >= c.at - 7 /\ clock <= c.at + Window
    <3> DEFINE a == c.at
    <3>1. a \in Int /\ clock \in Int
      BY <2>1, <2>2
    <3> HIDE DEF a
    <3>2. clock \in Lifetime(a) <=> clock >= a - 7 /\ clock <= a + Window
      BY <3>1, LifetimeBounds
    <3> QED BY <3>2 DEF a
  <2> QED BY <2>4, <2>5 DEF c
<1> QED BY <1>1, Inductive, PTL
=============================================================================
