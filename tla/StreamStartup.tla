---------------------------- MODULE StreamStartup ----------------------------
(***************************************************************************)
(* The start of the ingestion tasks beside the failover controller they    *)
(* share: start_stream connects through retry_with_backoff                 *)
(* (src/src/source/mod.rs), only a running stream records heartbeats, and  *)
(* the lease is claimed once heartbeats have lapsed                        *)
(* (src/src/consensus/failover.rs).                                        *)
(*                                                                         *)
(* Durations are in units of 12.5 ms, a quarter of the initial delay, so   *)
(* that jittered delays are whole.  Time jumps to where something happens. *)
(* The operation that is retried takes no time and may fail any number of  *)
(* times; the sources' stand-in for a connection fails twice in each       *)
(* process.                                                                *)
(***************************************************************************)
EXTENDS Integers

CONSTANTS
  Tasks,               \* the ingestion tasks
  MaxAttempts,         \* max_attempts
  InitialDelay, Multiplier, MaxDelay,
  Jitter,              \* the jitter factors, in quarters
  HeartbeatInterval,   \* heartbeat_interval
  Gaps                 \* how far time may move when no sleep ends before

VARIABLES
  phase,      \* of each task
  attempt,    \* attempts it has made
  delay,      \* its next delay, before jitter
  left,       \* how long it still sleeps
  silence,    \* last_leader_heartbeat.elapsed(), saturated past the lapse
  lease       \* active_lease

task == <<phase, attempt, delay, left>>
vars == <<task, silence, lease>>

Lesser(a, b) == IF a < b THEN a ELSE b
Lapse == HeartbeatInterval * 2

\* main builds the controller and spawns the tasks.
Init ==
  /\ phase = [t \in Tasks |-> "connecting"]
  /\ attempt = [t \in Tasks |-> 0]
  /\ delay = [t \in Tasks |-> InitialDelay]
  /\ left = [t \in Tasks |-> 0]
  /\ silence = 0
  /\ lease = FALSE

Goto(t, from, to) == phase[t] = from /\ phase' = [phase EXCEPT ![t] = to]

\* Mutant: the attempt is not counted.
CountNothing(t) == UNCHANGED attempt

\* f() is called.
Count(t) == attempt' = [attempt EXCEPT ![t] = @ + 1]

\* f() succeeds and the stream starts.
Connect(t) ==
  /\ Goto(t, "connecting", "streaming")
  /\ Count(t)
  /\ UNCHANGED <<delay, left, silence, lease>>

\* Mutant: no attempt is the last one.
FailAgain(t, j) ==
  /\ Goto(t, "connecting", "sleeping")
  /\ Count(t)
  /\ left' = [left EXCEPT ![t] = (delay[t] * j) \div 4]
  /\ delay' = [delay EXCEPT ![t] = Lesser(@ * Multiplier, MaxDelay)]
  /\ UNCHANGED <<silence, lease>>

\* f() fails with attempts left: sleep for the jittered delay.
Fail(t, j) ==
  /\ Goto(t, "connecting", "sleeping")
  /\ attempt[t] + 1 < MaxAttempts
  /\ Count(t)
  /\ left' = [left EXCEPT ![t] = (delay[t] * j) \div 4]
  /\ delay' = [delay EXCEPT ![t] = Lesser(@ * Multiplier, MaxDelay)]
  /\ UNCHANGED <<silence, lease>>

\* f() fails for the last time: the error is returned and the task ends.
GiveUp(t) ==
  /\ Goto(t, "connecting", "ended")
  /\ attempt[t] + 1 >= MaxAttempts
  /\ Count(t)
  /\ UNCHANGED <<delay, left, silence, lease>>

\* The sleep is over.
Wake(t) ==
  /\ Goto(t, "sleeping", "connecting")
  /\ left[t] = 0
  /\ UNCHANGED <<attempt, delay, left, silence, lease>>

\* record_heartbeat, for an event of a running stream.
RecordHeartbeat(t) ==
  /\ phase[t] = "streaming"
  /\ silence' = 0
  /\ UNCHANGED <<task, lease>>

\* The stream ends.
StreamEnds(t) ==
  /\ Goto(t, "streaming", "ended")
  /\ UNCHANGED <<attempt, delay, left, silence, lease>>

\* check_and_claim_lease
CheckAndClaimLease ==
  /\ lease' = (lease \/ silence > Lapse)
  /\ UNCHANGED <<task, silence>>

\* Time moves, never past the end of a sleep.
Advance(d) ==
  /\ d > 0
  /\ \A t \in Tasks : phase[t] = "sleeping" => d <= left[t]
  /\ \A t \in Tasks : phase[t] # "connecting"
  /\ left' = [t \in Tasks |-> IF phase[t] = "sleeping" THEN left[t] - d ELSE left[t]]
  /\ silence' = Lesser(silence + d, Lapse + 1)
  /\ UNCHANGED <<phase, attempt, delay, lease>>

Start(t) == Connect(t) \/ (\E j \in Jitter : Fail(t, j)) \/ GiveUp(t) \/ Wake(t)
Pass == \E d \in Gaps \cup {left[t] : t \in Tasks} : Advance(d)

Next ==
  \/ \E t \in Tasks : Start(t) \/ RecordHeartbeat(t) \/ StreamEnds(t)
  \/ CheckAndClaimLease \/ Pass

Spec == Init /\ [][Next]_vars

\* Sleeps end and an awake task is polled.
FairSpec == Spec /\ WF_vars(Pass) /\ \A t \in Tasks : WF_vars(Start(t))

-----------------------------------------------------------------------------
Starting(t) == phase[t] \in {"connecting", "sleeping"}

\* No lease is claimed from a node that is only reconnecting: all the retries
\* of a start, jitter included, end before the heartbeats have lapsed.
LeaseSurvivesStartup == lease => \A t \in Tasks : ~Starting(t)

\* start_stream always returns, whether the connection comes up or not.
StartReturns == \A t \in Tasks : Starting(t) ~> ~Starting(t)
=============================================================================
