----------------------------- MODULE LoopsProofs -----------------------------
(***************************************************************************)
(* The loops of the portal.  The schedule loop, for any attempt limit,      *)
(* retry period and bounds: one edge of a window costs at most MaxAttempts  *)
(* jobs, nothing is issued against the window it was read in, and nothing   *)
(* after its action took effect.  The calendar, for weeks and days of any   *)
(* length and any schedules: windows and next openings are right.  The      *)
(* usage history, for any number of tokens: it never claims more than was   *)
(* served, and as long as only scrapes fail it claims all of it.  Alerts,   *)
(* for any rules' periods: an open row is one whose end is still to come,   *)
(* and a service not seen for long enough has its alert.  The observer, for *)
(* any periods: no verdict that InstanceLifecycle leaves no room for, none  *)
(* before its time, and a deadline that restarts do not move.               *)
(***************************************************************************)
EXTENDS Scheduler, Windows, Usage, Alerts, Reconcile, Integers, FiniteSetTheorems,
        SequenceTheorems, NaturalsInduction, WellFoundedInduction, TLAPS

(* What the loop remembers of an action: the window it was issued for, and  *)
(* how often.  An action still pending was issued once for each attempt.    *)
Remembered ==
  \/ pending = NonePending
  \/ /\ pending \in [act : Actions, age : 0..Retry, attempts : 1..MaxAttempts]
     /\ pending.act = "start" <=> last = "open"
     /\ last # "none"
     /\ issued = pending.attempts

SchedInv ==
  /\ issued \in 0..MaxAttempts
  /\ last \in {"none", "open", "closed"}
  /\ tick.open \in BOOLEAN
  /\ open \in BOOLEAN
  /\ Remembered

LEMMA PendingOrNot ==
  ASSUME NEW p \in [act : Actions, age : 0..Retry, attempts : 1..MaxAttempts]
  PROVE  p # NonePending
BY DEF Actions, NonePending

LEMMA SchedInit == Init => SchedInv
BY SchedulerAssumption DEF Init, SchedInv, Remembered, NoTick

(* The outcome of an evaluation.  On an edge whatever was pending has been  *)
(* flipped: a first attempt, or nothing.  Between edges the pending action  *)
(* is dropped, kept, or tried once more.                                    *)
LEMMA OnEdge ==
  ASSUME SchedInv, NEW desired \in BOOLEAN, NEW st, Edge(last, desired)
  PROVE  LET o == Outcome(desired, st) IN
         \/ o.act = "none" /\ o.pending = NonePending
         \/ /\ o.act = (IF desired THEN "start" ELSE "stop")
            /\ o.pending = [act |-> o.act, age |-> 0, attempts |-> 1]
<1>1. pending = NonePending \/ Flipped(pending.act, desired)
  BY DEF SchedInv, Remembered, Edge, Flipped
<1>2. RetryAction(pending, desired, st)
        = [act |-> "none", pending |-> NonePending]
  BY <1>1 DEF RetryAction
<1>3. CASE Decide(last, desired, st) = "none"
  BY <1>2, <1>3 DEF Outcome
<1>4. CASE Decide(last, desired, st) # "none"
  <2>1. Decide(last, desired, st) = IF desired THEN "start" ELSE "stop"
    BY <1>4 DEF Decide
  <2> QED
    BY <1>4, <2>1 DEF Outcome
<1> QED
  BY <1>3, <1>4

LEMMA BetweenEdges ==
  ASSUME SchedInv, NEW desired \in BOOLEAN, NEW st, ~Edge(last, desired)
  PROVE  LET o == Outcome(desired, st) IN
         \/ o.act = "none" /\ o.pending \in {NonePending, pending}
         \/ /\ pending # NonePending /\ pending.attempts < MaxAttempts
            /\ o.act = pending.act
            /\ o.act = (IF desired THEN "start" ELSE "stop")
            /\ o.pending = [act |-> pending.act, age |-> 0,
                            attempts |-> pending.attempts + 1]
<1>1. Outcome(desired, st) = RetryAction(pending, desired, st)
  BY DEF Outcome, Decide
<1>2. CASE pending = NonePending
  BY <1>1, <1>2 DEF RetryAction
<1>3. CASE pending # NonePending
  <2>1. pending.act \in Actions /\ pending.attempts \in 1..MaxAttempts
    BY <1>3 DEF SchedInv, Remembered
  <2>2. ~Exhausted(pending) => pending.attempts < MaxAttempts
    BY <2>1, SchedulerAssumption DEF Exhausted
  <2>3. ~Flipped(pending.act, desired) =>
          pending.act = (IF desired THEN "start" ELSE "stop")
    BY <2>1 DEF Flipped, Actions
  <2> QED
    BY <1>1, <1>3, <2>2, <2>3 DEF RetryAction
<1> QED
  BY <1>2, <1>3

LEMMA ActInv ==
  ASSUME SchedInv, TickAct
  PROVE  SchedInv'
<1> DEFINE desired == tick.open
           o == Outcome(tick.open, tick.status)
<1>1. desired \in BOOLEAN
  BY DEF SchedInv
<1>2. /\ pending' = o.pending
      /\ issued' = (IF Edge(last, desired) THEN 0 ELSE issued)
                     + (IF o.act \in Actions THEN 1 ELSE 0)
      /\ last' = (IF desired THEN "open" ELSE "closed")
      /\ tick' = NoTick /\ open' = open
  BY DEF TickAct
<1>3. issued' \in 0..MaxAttempts /\ Remembered'
  <2>1. CASE Edge(last, desired)
    <3>1. CASE o.act = "none" /\ o.pending = NonePending
      BY <1>2, <2>1, <3>1, SchedulerAssumption DEF Actions, Remembered
    <3>2. CASE /\ o.act = (IF desired THEN "start" ELSE "stop")
               /\ o.pending = [act |-> o.act, age |-> 0, attempts |-> 1]
      <4>1. o.act \in Actions /\ issued' = 1
        BY <1>2, <2>1, <3>2 DEF Actions
      <4>2. pending' \in [act : Actions, age : 0..Retry,
                          attempts : 1..MaxAttempts]
        BY <1>2, <3>2, <4>1, SchedulerAssumption
      <4> QED
        BY <1>1, <1>2, <3>2, <4>1, <4>2, SchedulerAssumption DEF Remembered
    <3> QED
      BY <1>1, <2>1, <3>1, <3>2, OnEdge
  <2>2. CASE ~Edge(last, desired)
    <3>0. last' = last
      BY <1>1, <1>2, <2>2 DEF Edge, SchedInv
    <3>1. CASE o.act = "none" /\ o.pending \in {NonePending, pending}
      <4>1. issued' = issued
        BY <1>2, <2>2, <3>1 DEF Actions, SchedInv
      <4> QED
        BY <1>2, <3>0, <3>1, <4>1 DEF SchedInv, Remembered
    <3>2. CASE /\ pending # NonePending /\ pending.attempts < MaxAttempts
               /\ o.act = pending.act
               /\ o.act = (IF desired THEN "start" ELSE "stop")
               /\ o.pending = [act |-> pending.act, age |-> 0,
                               attempts |-> pending.attempts + 1]
      <4>1. /\ pending.act \in Actions /\ pending.attempts \in 1..MaxAttempts
            /\ issued = pending.attempts /\ last # "none"
            /\ pending.act = "start" <=> last = "open"
        BY <3>2 DEF SchedInv, Remembered
      <4>2. issued' = issued + 1
        BY <1>2, <2>2, <3>2, <4>1
      <4>3. pending.attempts + 1 \in 1..MaxAttempts
        BY <3>2, <4>1, SchedulerAssumption
      <4> DEFINE next == [act |-> pending.act, age |-> 0,
                          attempts |-> pending.attempts + 1]
      <4>4. next \in [act : Actions, age : 0..Retry, attempts : 1..MaxAttempts]
            /\ next.act = pending.act /\ next.attempts = issued + 1
        BY <4>1, <4>3, SchedulerAssumption
      <4>5. pending' = next
        BY <1>2, <3>2
      <4> HIDE DEF next
      <4> QED
        BY <3>0, <4>1, <4>2, <4>3, <4>4, <4>5, SchedulerAssumption
           DEF Remembered
    <3> QED
      BY <1>1, <2>2, <3>1, <3>2, BetweenEdges
  <2> QED
    BY <2>1, <2>2
<1> QED
  BY <1>1, <1>2, <1>3 DEF SchedInv, NoTick

(* Only the loop itself, time and a restart touch what it remembers.        *)
LEMMA SchedNext == SchedInv /\ [Next]_vars => SchedInv'
<1> SUFFICES ASSUME SchedInv, [Next]_vars PROVE SchedInv'
  OBVIOUS
<1>1. CASE TickRead
  BY <1>1 DEF TickRead, SchedInv, Remembered, memory
<1>2. CASE TickForget \/ Boot
  <2>1. /\ last' = "none" /\ pending' = NonePending /\ issued' = 0
        /\ open' = open /\ tick' \in {tick, NoTick}
    BY <1>2 DEF TickForget, Boot
  <2>2. tick'.open \in BOOLEAN
    <3>1. tick.open \in BOOLEAN /\ NoTick.open \in BOOLEAN
      BY DEF SchedInv, NoTick
    <3> QED
      BY <2>1, <3>1
  <2>3. issued' \in 0..MaxAttempts
    BY <2>1, SchedulerAssumption
  <2>4. Remembered'
    BY <2>1 DEF Remembered
  <2> QED
    BY <2>1, <2>2, <2>3, <2>4 DEF SchedInv
<1>3. CASE Wait
  <2>1. /\ pending \in [act : Actions, age : 0..Retry,
                        attempts : 1..MaxAttempts]
        /\ pending.age < Retry
    BY <1>3 DEF Wait, SchedInv, Remembered
  <2>2. pending.age + 1 \in 0..Retry
    BY <2>1, SchedulerAssumption
  <2>3. pending' = [pending EXCEPT !.age = pending.age + 1]
    BY <1>3 DEF Wait
  <2>4. /\ pending' \in [act : Actions, age : 0..Retry,
                         attempts : 1..MaxAttempts]
        /\ pending'.act = pending.act /\ pending'.attempts = pending.attempts
    BY <2>1, <2>2, <2>3
  <2> QED
    BY <1>3, <2>4 DEF Wait, SchedInv, Remembered
<1>4. CASE Turn
  BY <1>4 DEF Turn, SchedInv, Remembered, memory
<1>5. CASE \/ (\E act \in Actions : Operate(act))
           \/ StartBegins \/ StartEnds \/ StopRuns \/ Observe
  BY <1>5 DEF Operate, StartBegins, StartEnds, StopRuns, Observe, SchedInv,
              Remembered, memory
<1>6. CASE UNCHANGED vars
  BY <1>6 DEF vars, SchedInv, Remembered
<1> QED
  BY <1>1, <1>2, <1>3, <1>4, <1>5, <1>6, ActInv DEF Next

(* One edge of a window costs at most MaxAttempts jobs, however jobs fail,  *)
(* statuses move and operators intervene.                                   *)
THEOREM AttemptsAreBounded == Spec => []AttemptsBounded
<1>1. SchedInv => AttemptsBounded
  BY SchedulerAssumption DEF SchedInv, AttemptsBounded
<1> QED
  BY <1>1, SchedInit, SchedNext, PTL DEF Spec

(* A tick issues nothing against the windows it has read.                   *)
LEMMA ActWithin ==
  ASSUME SchedInv, NEW act \in Actions, Issues(act)
  PROVE  (act = "start") = tick.open
<1>1. tick.open \in BOOLEAN /\ Outcome(tick.open, tick.status).act = act
  BY DEF SchedInv, Issues
<1>2. act = (IF tick.open THEN "start" ELSE "stop")
  BY <1>1, OnEdge, BetweenEdges DEF Actions
<1> QED
  BY <1>1, <1>2

THEOREM NothingAgainstTheWindow == Spec => WithinWindow
<1>1. SchedInv /\ [Next]_vars =>
        [(Issues("start") => tick.open) /\ (Issues("stop") => ~tick.open)]_vars
  <2>1. ASSUME SchedInv, Issues("start") PROVE tick.open
    BY <2>1, ActWithin DEF Actions, SchedInv
  <2>2. ASSUME SchedInv, Issues("stop") PROVE ~tick.open
    BY <2>2, ActWithin DEF Actions, SchedInv
  <2> QED
    BY <2>1, <2>2
<1> QED
  BY <1>1, SchedInit, SchedNext, PTL DEF Spec, WithinWindow
-----------------------------------------------------------------------------
(* What a reading would add to an earlier one; nothing without either.      *)
Grown(cur, prev) ==
  IF cur = Absent \/ prev = Absent THEN 0
  ELSE IF cur < prev THEN cur ELSE cur - prev

(* What the windows claim, with what the last scrape and then the counter   *)
(* itself would still add to them, has been served.                         *)
Claimed ==
  IF cached = Absent THEN rows + Grown(counter, lastSeen) <= served
  ELSE rows + Grown(cached, lastSeen) + Grown(counter, cached) <= served

(* Undisturbed, the counter holds all that was served, and every reading    *)
(* that is kept is one of it, the later ones no smaller.                    *)
OneLife ==
  /\ counter = served
  /\ cached # Absent => cached <= counter
  /\ lastSeen # Absent =>
       /\ first # Absent /\ first <= lastSeen /\ rows = lastSeen - first
       /\ lastSeen <= counter
       /\ cached # Absent => lastSeen <= cached
  /\ lastSeen = Absent => rows = 0

UsageIInv ==
  /\ UsageTypeOK
  /\ counter # Absent => counter <= served
  /\ Claimed
  /\ ~disturbed => OneLife

(* Two readings apart add at least what the outer two would add.            *)
LEMMA Triangle ==
  ASSUME NEW a \in 0..Absent, NEW b \in 0..Absent, NEW c \in 0..Absent, b # Absent
  PROVE  /\ Grown(c, a) <= Grown(b, a) + Grown(c, b)
         /\ Grown(c, a) \in Nat /\ Grown(b, a) \in Nat
BY UsageBounds DEF Grown, Absent

LEMMA UsageStart == UsageInit => UsageIInv
<1> SUFFICES ASSUME UsageInit PROVE UsageIInv
  OBVIOUS
<1>1. UsageTypeOK
  <2>1. listed \in BOOLEAN /\ disturbed \in BOOLEAN
    BY DEF UsageInit
  <2>2. 0 \in 0..Absent /\ Absent \in 0..Absent /\ 0 \in 0..MaxServed
    BY UsageBounds DEF Absent
  <2> QED
    BY <2>1, <2>2 DEF UsageInit, UsageTypeOK
<1>2. Claimed /\ OneLife
  BY UsageBounds DEF UsageInit, Claimed, OneLife, Grown, Absent
<1> QED
  BY <1>1, <1>2, UsageBounds DEF UsageInit, UsageIInv, Absent

LEMMA Readings ==
  ASSUME UsageTypeOK
  PROVE  /\ MaxServed \in Nat /\ Absent = MaxServed + 1
         /\ counter \in 0..Absent /\ cached \in 0..Absent
         /\ lastSeen \in 0..Absent /\ first \in 0..Absent
         /\ rows \in Nat /\ served \in 0..MaxServed
BY UsageBounds DEF UsageTypeOK, Absent

LEMMA ServeKeeps == ASSUME UsageIInv, Serve PROVE UsageIInv'
<1>1. UsageTypeOK' /\ counter' <= served' /\ counter' # Absent
  BY Readings DEF UsageIInv, UsageTypeOK, Serve, Absent
<1>2. Claimed'
  <2>1. \A x \in 0..Absent : Grown(counter', x) <= Grown(counter, x) + 1
    BY Readings, <1>1 DEF UsageIInv, Serve, Grown
  <2>2. Grown(cached, lastSeen)' = Grown(cached, lastSeen)
    BY DEF Serve, Grown, Absent
  <2>3. /\ Grown(counter, lastSeen) \in Nat /\ Grown(counter, cached) \in Nat
        /\ Grown(cached, lastSeen) \in Nat
        /\ Grown(counter, lastSeen)' \in Nat /\ Grown(counter, cached)' \in Nat
    BY Readings, <1>1 DEF UsageIInv, Serve, Grown, Absent
  <2>4. /\ Grown(counter, lastSeen)' <= Grown(counter, lastSeen) + 1
        /\ Grown(counter, cached)' <= Grown(counter, cached) + 1
    BY <2>1, Readings DEF UsageIInv, Serve, Grown, Absent
  <2> QED
    BY <2>2, <2>3, <2>4, Readings DEF UsageIInv, Claimed, Serve, Absent
<1>3. ~disturbed' => OneLife'
  BY Readings, <1>1 DEF UsageIInv, OneLife, Serve, Absent
<1> QED
  BY <1>1, <1>2, <1>3 DEF UsageIInv

LEMMA RestartKeeps == ASSUME UsageIInv, Restart PROVE UsageIInv'
<1>1. UsageTypeOK' /\ (counter' # Absent => counter' <= served') /\ disturbed'
  BY Readings DEF UsageIInv, UsageTypeOK, Restart, Absent
<1>2. Claimed'
  BY Readings DEF UsageIInv, Claimed, Restart, Grown, Absent
<1> QED
  BY <1>1, <1>2 DEF UsageIInv

LEMMA ScrapeKeeps == ASSUME UsageIInv, Scrape PROVE UsageIInv'
<1>1. cached' \in {Absent, counter}
  BY DEF Scrape
<1>2. UsageTypeOK' /\ (counter' # Absent => counter' <= served')
  BY <1>1, Readings DEF UsageIInv, UsageTypeOK, Scrape, Absent
<1>3. rows + Grown(counter, lastSeen) <= served
  <2>1. CASE cached = Absent
    BY <2>1 DEF UsageIInv, Claimed
  <2>2. CASE cached # Absent
    <3>1. /\ Grown(counter, lastSeen) <= Grown(cached, lastSeen) + Grown(counter, cached)
          /\ Grown(counter, lastSeen) \in Nat /\ Grown(cached, lastSeen) \in Nat
      BY <2>2, Readings, Triangle DEF UsageIInv
    <3>2. Grown(counter, cached) \in Nat
      BY Readings DEF UsageIInv, Grown
    <3> QED
      BY <2>2, <3>1, <3>2, Readings DEF UsageIInv, Claimed
  <2> QED
    BY <2>1, <2>2
<1>4. Claimed'
  BY <1>1, <1>3, Readings DEF UsageIInv, Claimed, Scrape, Grown, Absent
<1>5. ~disturbed' => OneLife'
  BY <1>1, Readings DEF UsageIInv, OneLife, Scrape, Absent
<1> QED
  BY <1>2, <1>4, <1>5 DEF UsageIInv

LEMMA RollupKeeps == ASSUME UsageIInv, Rollup PROVE UsageIInv'
<1>1. Delta(cached, lastSeen) = Grown(cached, lastSeen)
  BY Readings DEF UsageIInv, Rollup, Delta, Grown, Absent
<1>2. Grown(cached, lastSeen) \in Nat /\ Grown(counter, cached) \in Nat
  BY Readings DEF UsageIInv, Grown
<1>3. UsageTypeOK' /\ (counter' # Absent => counter' <= served')
  <2>1. listed' \in BOOLEAN /\ disturbed' \in BOOLEAN
    BY DEF UsageIInv, UsageTypeOK, Rollup
  <2>2. /\ counter' \in 0..Absent /\ cached' \in 0..Absent
        /\ lastSeen' \in 0..Absent /\ first' \in 0..Absent
        /\ served' \in 0..MaxServed
    BY Readings DEF UsageIInv, Rollup
  <2>3. rows' \in Nat
    BY <1>1, <1>2, Readings DEF UsageIInv, Rollup
  <2> QED
    BY <2>1, <2>2, <2>3 DEF UsageIInv, UsageTypeOK, Rollup
<1>4. Claimed'
  <2>1. /\ Grown(cached, lastSeen)' = 0 /\ cached' # Absent
        /\ Grown(counter, cached)' = Grown(counter, cached)
    BY Readings DEF UsageIInv, Rollup, Grown, Absent
  <2> QED
    BY <1>1, <1>2, <2>1, Readings DEF UsageIInv, Claimed, Rollup
<1>5. ~disturbed' => OneLife'
  <2>1. ASSUME ~disturbed' PROVE ~disturbed /\ rows' = rows + Delta(cached, lastSeen)
    BY <2>1 DEF Rollup
  <2> QED
    BY <2>1, <1>1, Readings DEF UsageIInv, OneLife, Rollup, Grown, Absent
<1> QED
  BY <1>3, <1>4, <1>5 DEF UsageIInv

LEMMA ForgetKeeps == ASSUME UsageIInv, Forget \/ PortalRestarts PROVE UsageIInv'
<1>1. UsageTypeOK' /\ (counter' # Absent => counter' <= served') /\ disturbed'
  <2>1. listed' \in BOOLEAN /\ disturbed' = TRUE
    BY DEF UsageIInv, UsageTypeOK, Forget, PortalRestarts
  <2>2. /\ counter' \in 0..Absent /\ cached' \in 0..Absent
        /\ lastSeen' \in 0..Absent /\ first' \in 0..Absent
    BY Readings DEF UsageIInv, Forget, PortalRestarts
  <2> QED
    BY <2>1, <2>2 DEF UsageIInv, UsageTypeOK, Forget, PortalRestarts
<1>2. Claimed'
  BY Readings DEF UsageIInv, Claimed, Forget, PortalRestarts, Grown, Absent
<1> QED
  BY <1>1, <1>2 DEF UsageIInv

LEMMA UsageStep == UsageIInv /\ [UsageNext]_usageVars => UsageIInv'
<1>1. ASSUME UsageIInv, UNCHANGED usageVars PROVE UsageIInv'
  BY <1>1 DEF usageVars, UsageIInv, UsageTypeOK, Claimed, OneLife, Grown, Absent
<1> QED
  BY <1>1, ServeKeeps, RestartKeeps, ScrapeKeeps, RollupKeeps, ForgetKeeps DEF UsageNext

(* The history never claims more than was served, whatever restarts, failed *)
(* scrapes and lost writes come in between, and all of it as long as none   *)
(* but scrapes fail (services/usage.py:37-43, 111-133).                     *)
THEOREM HistoryAddsUp == UsageSpec => []UsageInv
<1>1. UsageIInv => UsageInv
  BY Readings, UsageBounds DEF UsageIInv, UsageInv, UsageAddsUp, Claimed, OneLife, Grown, Absent
<1> QED
  BY <1>1, UsageStart, UsageStep, PTL DEF UsageSpec
-----------------------------------------------------------------------------
LEMMA RulesFinite == IsFiniteSet(Rules) /\ Cardinality(Rules) \in Nat
<1>1. Rules = {"node_offline"} \union ({"gpu_temp"} \union ({"instance_unhealthy"}
                \union ({"kv_cache_full"} \union {"instance_stuck_starting"})))
  BY DEF Rules
<1>2. \A x : IsFiniteSet({x})
  BY FS_Singleton
<1>3. IsFiniteSet({"kv_cache_full"} \union {"instance_stuck_starting"})
  BY <1>2, FS_Union
<1>4. IsFiniteSet({"instance_unhealthy"} \union ({"kv_cache_full"} \union {"instance_stuck_starting"}))
  BY <1>2, <1>3, FS_Union
<1>5. IsFiniteSet({"gpu_temp"} \union ({"instance_unhealthy"} \union ({"kv_cache_full"} \union {"instance_stuck_starting"})))
  BY <1>2, <1>4, FS_Union
<1>6. IsFiniteSet(Rules)
  BY <1>1, <1>2, <1>5, FS_Union
<1> QED
  BY <1>6, FS_CardinalityType

(* Any finite set of rules can be put in some order, each rule once.        *)
LEMMA SomeOrder ==
  ASSUME NEW S, IsFiniteSet(S)
  PROVE  /\ SetToSeq(S) \in [1..Cardinality(S) -> S]
         /\ \A i, j \in 1..Cardinality(S) :
              SetToSeq(S)[i] = SetToSeq(S)[j] => i = j
         /\ \A r \in S : \E i \in 1..Cardinality(S) : SetToSeq(S)[i] = r
         /\ Cardinality(S) \in Nat
<1> DEFINE n == Cardinality(S)
           q == SetToSeq(S)
<1>1. n \in Nat /\ ExistsBijection(1..n, S)
  BY FS_CardinalityType
<1>2. PICK f : f \in Bijection(1..n, S)
  BY <1>1 DEF ExistsBijection
<1>3. f \in [1..n -> S] /\ IsInjective(f)
  BY <1>2 DEF Bijection, Injection
<1>4. q = CHOOSE g \in [1..n -> S] : IsInjective(g)
  BY DEF SetToSeq
<1>5. q \in [1..n -> S] /\ IsInjective(q)
  BY <1>3, <1>4
<1>6. IsFiniteSet(1..n) /\ Cardinality(1..n) = n
  <2>1. IsFiniteSet(1..n) /\ Cardinality(1..n) = IF 1 > n THEN 0 ELSE n - 1 + 1
    BY <1>1, FS_Interval
  <2> QED
    BY <1>1, <2>1
<1>7. q \in Injection(1..n, S)
  BY <1>5 DEF Injection
<1> HIDE DEF q
<1>8. q \in Surjection(1..n, S)
  BY <1>6, <1>7, FS_Injection
<1>9. \A r \in S : \E i \in 1..n : q[i] = r
  BY <1>8 DEF Surjection
<1>10. \A i, j \in 1..n : q[i] = q[j] => i = j
  BY <1>5 DEF IsInjective
<1> QED
  BY <1>1, <1>5, <1>9, <1>10 DEF q

AlertStates == [since : None..MaxTicks, fired : BOOLEAN,
                id : 0 .. MaxAlerts + Cardinality(Rules)]
Rows == [rule : Rules, open : BOOLEAN]

(* What the rows rest on, besides: a rule whose tick was lost is still on,  *)
(* and the alert of an instance not serving counts from when it was seen so.*)
AlertsIInv ==
  /\ AlertsTypeOK
  /\ \A r \in missed : state[r].fired
  /\ AlertRowsKnown
  /\ state["instance_unhealthy"].since = badSince
  /\ AlertOutlivesDemotion

LEMMA RuleState ==
  ASSUME AlertsTypeOK, NEW r \in Rules
  PROVE  /\ state[r].since \in None..MaxTicks /\ state[r].fired \in BOOLEAN
         /\ state[r].id \in 0 .. MaxAlerts + Cardinality(Rules)
         /\ state[r] = [since |-> state[r].since, fired |-> state[r].fired,
                        id |-> state[r].id]
BY DEF AlertsTypeOK

LEMMA AlertRows ==
  ASSUME AlertsTypeOK
  PROVE  /\ alerts \in Seq(Rows) /\ Len(alerts) \in 0..MaxAlerts
         /\ DOMAIN alerts = 1..Len(alerts)
         /\ \A i \in 1..Len(alerts) : /\ alerts[i].rule \in Rules
                                      /\ alerts[i].open \in BOOLEAN
<1>1. PICK n \in 0..MaxAlerts : alerts \in [1..n -> Rows]
  BY DEF AlertsTypeOK, Rows
<1>2. n \in Nat
  OBVIOUS
<1>3. alerts \in Seq(Rows) /\ Len(alerts) = n /\ DOMAIN alerts = 1..n
  BY <1>1, <1>2
<1>4. \A i \in 1..n : alerts[i] \in Rows
  BY <1>1
<1> QED
  BY <1>3, <1>4 DEF Rows

LEMMA FactIs ==
  ASSUME NEW seen \in Seen, NEW r \in Rules
  PROVE  /\ Fact(seen, r) \in {"active", "clear", "absent"}
         /\ Fact(seen, "instance_unhealthy") = "active" <=> ~Serving(seen)
<1>1. seen.instance \in InstanceSeen
  BY DEF Seen
<1>2. Fact(seen, "node_offline") \in {"active", "clear", "absent"}
  BY DEF Fact, NodeFact, Observed
<1>3. Fact(seen, "gpu_temp") \in {"active", "clear", "absent"}
  BY DEF Fact, NodeFact, Observed
<1>4. Fact(seen, "instance_unhealthy") \in {"active", "clear", "absent"}
  BY DEF Fact, InstanceFact, Observed
<1>5. Fact(seen, "kv_cache_full") \in {"active", "clear", "absent"}
  BY DEF Fact, InstanceFact, Observed
<1>6. Fact(seen, "instance_stuck_starting") \in {"active", "clear", "absent"}
  BY DEF Fact, InstanceFact, Observed
<1>7. Fact(seen, "instance_unhealthy") = "active" <=> ~Serving(seen)
  BY <1>1 DEF Fact, InstanceFact, Observed, Serving, InstanceSeen
<1> QED
  BY <1>2, <1>3, <1>4, <1>5, <1>6, <1>7 DEF Rules

(* What one evaluation leaves of a rule's state.                            *)
LEMMA AdvancedIs ==
  ASSUME AlertsTypeOK, NEW seen \in Seen, NEW r \in Rules, NEW t \in 0..MaxTicks
  PROVE  /\ Advanced(seen, r, t) \in AlertStates
         /\ Fact(seen, r) # "active" =>
              /\ ~Advanced(seen, r, t).fired /\ Advanced(seen, r, t).since = None
         /\ Fact(seen, r) = "active" =>
              /\ Advanced(seen, r, t).since
                   = IF state[r].since = None THEN t ELSE state[r].since
              /\ Advanced(seen, r, t).fired
                   <=> state[r].fired
                       \/ t - Advanced(seen, r, t).since >= Sustain[r]
              /\ Advanced(seen, r, t).id = state[r].id
<1> DEFINE s == IF state[r].since = None THEN t ELSE state[r].since
<1>1. CASE Fact(seen, r) # "active"
  <2>1. Advanced(seen, r, t) = Fresh0
    BY <1>1 DEF Advanced
  <2>2. Fresh0 \in AlertStates
    BY RulesFinite, AlertsBounds DEF Fresh0, AlertStates, None
  <2> QED
    BY <1>1, <2>1, <2>2 DEF Fresh0
<1>2. CASE Fact(seen, r) = "active"
  <2>1. Advanced(seen, r, t)
          = [state[r] EXCEPT !.since = s, !.fired = @ \/ t - s >= Sustain[r]]
    BY <1>2 DEF Advanced
  <2>2. s \in None..MaxTicks
    <3>1. state[r].since \in None..MaxTicks
      BY RuleState
    <3>2. MaxTicks \in Nat /\ None = -1 /\ t \in 0..MaxTicks
      BY AlertsBounds DEF None
    <3> QED
      BY <3>1, <3>2
  <2>3. /\ state[r].fired \in BOOLEAN
        /\ state[r].id \in 0 .. MaxAlerts + Cardinality(Rules)
        /\ state[r] = [since |-> state[r].since, fired |-> state[r].fired,
                       id |-> state[r].id]
    BY RuleState
  <2> HIDE DEF s
  <2>4. Advanced(seen, r, t) = [since |-> s,
                                fired |-> state[r].fired \/ t - s >= Sustain[r],
                                id |-> state[r].id]
    BY <2>1, <2>3
  <2>5. (state[r].fired \/ t - s >= Sustain[r]) \in BOOLEAN
    BY <2>3
  <2> QED
    <3>1. /\ Advanced(seen, r, t) \in AlertStates
          /\ Advanced(seen, r, t).since = s
          /\ Advanced(seen, r, t).fired <=> (state[r].fired \/ t - s >= Sustain[r])
          /\ Advanced(seen, r, t).id = state[r].id
      <4> DEFINE f == state[r].fired \/ t - s >= Sustain[r]
                 d == state[r].id
      <4>1. /\ Advanced(seen, r, t) = [since |-> s, fired |-> f, id |-> d]
            /\ f \in BOOLEAN /\ d \in 0 .. MaxAlerts + Cardinality(Rules)
        BY <2>3, <2>4, <2>5
      <4> HIDE DEF f, d
      <4>2. /\ Advanced(seen, r, t) \in AlertStates
            /\ Advanced(seen, r, t).since = s
            /\ Advanced(seen, r, t).id = d
        BY <2>2, <4>1 DEF AlertStates
      <4>3. Advanced(seen, r, t).fired = f
        BY <4>1
      <4> QED
        BY <4>2, <4>3 DEF f, d
    <3> QED
      BY <1>2, <3>1 DEF s
<1> QED
  BY <1>1, <1>2

LEMMA FiringIs ==
  ASSUME NEW seen, NEW t
  PROVE  /\ Fires(seen, t) \subseteq Rules /\ IsFiniteSet(Fires(seen, t))
         /\ Cardinality(Fires(seen, t)) \in Nat
         /\ Cardinality(Fires(seen, t)) <= Cardinality(Rules)
<1>1. Fires(seen, t) \in SUBSET Rules
  BY DEF Fires
<1> QED
  BY <1>1, RulesFinite, FS_Subset, FS_CardinalityType

(* The rows written for what fires: one for each, all open.                 *)
LEMMA NewRowsAre ==
  ASSUME NEW seen, NEW t, NEW F, F = Fires(seen, t)
  PROVE  /\ NewRows(seen, t) \in Seq(Rows)
         /\ Len(NewRows(seen, t)) = Cardinality(F)
         /\ \A i \in 1..Cardinality(F) : /\ NewRows(seen, t)[i].rule \in F
                                         /\ NewRows(seen, t)[i].open
         /\ \A i, j \in 1..Cardinality(F) :
              NewRows(seen, t)[i].rule = NewRows(seen, t)[j].rule => i = j
         /\ \A r \in F : \E i \in 1..Cardinality(F) : NewRows(seen, t)[i].rule = r
<1> DEFINE q == SetToSeq(Fires(seen, t))
           n == Cardinality(F)
<1>1. /\ q \in [1..n -> F] /\ n \in Nat /\ F \subseteq Rules
      /\ \A i, j \in 1..n : q[i] = q[j] => i = j
      /\ \A r \in F : \E i \in 1..n : q[i] = r
  BY FiringIs, SomeOrder
<1>2. NewRows(seen, t) = [i \in DOMAIN q |-> [rule |-> q[i], open |-> TRUE]]
  BY DEF NewRows
<1> HIDE DEF q, n
<1>3. DOMAIN q = 1..n
  BY <1>1
<1>4. NewRows(seen, t) = [i \in 1..n |-> [rule |-> q[i], open |-> TRUE]]
  BY <1>2, <1>3
<1>5. \A i \in 1..n : q[i] \in F /\ [rule |-> q[i], open |-> TRUE] \in Rows
  BY <1>1 DEF Rows
<1>6. NewRows(seen, t) \in [1..n -> Rows]
  BY <1>4, <1>5
<1>7. NewRows(seen, t) \in Seq(Rows) /\ Len(NewRows(seen, t)) = n
  BY <1>1, <1>6
<1>8. \A i \in 1..n : NewRows(seen, t)[i].rule = q[i] /\ NewRows(seen, t)[i].open
  BY <1>4
<1> QED
  BY <1>1, <1>5, <1>7, <1>8 DEF n

LEMMA IdIs ==
  ASSUME AlertsTypeOK, NEW seen, NEW t, NEW r \in Fires(seen, t)
  PROVE  /\ IdOf(seen, r, t) - Len(alerts) \in 1..Cardinality(Fires(seen, t))
         /\ IdOf(seen, r, t) \in Nat
         /\ NewRows(seen, t)[IdOf(seen, r, t) - Len(alerts)].rule = r
<1> DEFINE rows0 == NewRows(seen, t)
           F == Fires(seen, t)
           i == CHOOSE j \in DOMAIN rows0 : rows0[j].rule = r
<1>1. /\ rows0 \in Seq(Rows) /\ Len(rows0) = Cardinality(F)
      /\ \E j \in 1..Cardinality(F) : rows0[j].rule = r
      /\ Cardinality(F) \in Nat /\ Len(alerts) \in Nat
  BY NewRowsAre, FiringIs, AlertRows
<1>2. DOMAIN rows0 = 1..Cardinality(F)
  BY <1>1
<1>3. IdOf(seen, r, t) = Len(alerts) + i
  BY DEF IdOf
<1> HIDE DEF rows0, F
<1>4. i \in 1..Cardinality(F) /\ rows0[i].rule = r
  BY <1>1, <1>2
<1> HIDE DEF i
<1>5. IdOf(seen, r, t) - Len(alerts) = i /\ IdOf(seen, r, t) \in Nat
  BY <1>1, <1>3, <1>4
<1> QED
  BY <1>4, <1>5 DEF rows0, F

(* What a tick leaves of the states, when `flushed` got their ids.          *)
LEMMA StatesAre ==
  ASSUME AlertsIInv, NEW seen \in Seen, alertTick < MaxTicks,
         NEW t, t = alertTick + 1, NEW flushed,
         flushed \subseteq Fires(seen, t), AdvanceAll(seen, t, flushed)
  PROVE  /\ state' \in [Rules -> AlertStates]
         /\ \A r \in Rules :
              /\ r \in Fires(seen, t) <=> ~state[r].fired /\ state'[r].fired
              /\ state[r].fired /\ state'[r].fired => state'[r].id = state[r].id
              /\ r \in Resolves(seen, t) \union Vanishes(seen, t)
                   <=> state[r].fired /\ ~state'[r].fired
              /\ r \in flushed => state'[r].id = IdOf(seen, r, t)
         /\ LET u == state'["instance_unhealthy"]
                b == badSince
                s == IF Serving(seen) THEN None ELSE IF b = None THEN t ELSE b
            IN  /\ u.since = s
                /\ ~Serving(seen) /\ t - s >= Sustain["instance_unhealthy"] => u.fired
<1>1. AlertsTypeOK /\ t \in 0..MaxTicks
  <2>1. alertTick \in 0..MaxTicks
    BY DEF AlertsIInv, AlertsTypeOK
  <2> QED
    BY <2>1, AlertsBounds DEF AlertsIInv
<1>2. state' = [r \in Rules |->
         IF r \in flushed THEN [Advanced(seen, r, t) EXCEPT !.id = IdOf(seen, r, t)]
         ELSE Advanced(seen, r, t)]
  BY DEF AdvanceAll
<1>3. ASSUME NEW r \in Rules
      PROVE  /\ state'[r] \in AlertStates
             /\ state'[r].fired = Advanced(seen, r, t).fired
             /\ state'[r].since = Advanced(seen, r, t).since
             /\ r \in flushed => state'[r].id = IdOf(seen, r, t)
             /\ r \notin flushed => state'[r].id = Advanced(seen, r, t).id
  <2> DEFINE a == Advanced(seen, r, t)
  <2>1. a \in AlertStates
    BY <1>1, AdvancedIs
  <2> HIDE DEF a
  <2>2. CASE r \notin flushed
    <3>1. state'[r] = a
      BY <1>2, <2>2 DEF a
    <3> QED
      BY <2>1, <2>2, <3>1 DEF a
  <2>3. CASE r \in flushed
    <3>1. state'[r] = [a EXCEPT !.id = IdOf(seen, r, t)]
      BY <1>2, <2>3 DEF a
    <3>2. IdOf(seen, r, t) \in 0 .. MaxAlerts + Cardinality(Rules)
      <4>1. /\ IdOf(seen, r, t) - Len(alerts) \in 1..Cardinality(Fires(seen, t))
            /\ IdOf(seen, r, t) \in Nat
        BY <1>1, <2>3, IdIs
      <4>2. Len(alerts) \in 0..MaxAlerts
        BY <1>1, AlertRows
      <4> QED
        BY <4>1, <4>2, FiringIs, RulesFinite, AlertsBounds
    <3> HIDE DEF IdOf
    <3>3. /\ state'[r] \in AlertStates /\ state'[r].fired = a.fired
          /\ state'[r].since = a.since /\ state'[r].id = IdOf(seen, r, t)
      BY <2>1, <3>1, <3>2 DEF AlertStates
    <3> QED
      BY <2>3, <3>3 DEF a
  <2> QED
    BY <2>2, <2>3
<1>4. state' \in [Rules -> AlertStates]
  BY <1>2, <1>3
<1>5. ASSUME NEW r \in Rules
      PROVE  /\ r \in Fires(seen, t) <=> ~state[r].fired /\ state'[r].fired
             /\ state[r].fired /\ state'[r].fired => state'[r].id = state[r].id
             /\ r \in Resolves(seen, t) \union Vanishes(seen, t)
                  <=> state[r].fired /\ ~state'[r].fired
  <2>1. /\ Fact(seen, r) \in {"active", "clear", "absent"}
        /\ state[r].fired \in BOOLEAN
    BY <1>1, FactIs, RuleState
  <2>2. /\ Fact(seen, r) # "active" => ~Advanced(seen, r, t).fired
        /\ Fact(seen, r) = "active" =>
             /\ state[r].fired => Advanced(seen, r, t).fired
             /\ Advanced(seen, r, t).id = state[r].id
    BY <1>1, AdvancedIs
  <2>3. r \in Fires(seen, t) <=> ~state[r].fired /\ state'[r].fired
    BY <1>3 DEF Fires
  <2>4. state[r].fired /\ state'[r].fired => state'[r].id = state[r].id
    BY <1>3, <2>2, <2>3
  <2>5. r \in Resolves(seen, t) \union Vanishes(seen, t)
          <=> state[r].fired /\ Fact(seen, r) # "active"
    BY <2>1 DEF Resolves, Vanishes
  <2>6. state[r].fired => (Fact(seen, r) # "active" <=> ~state'[r].fired)
    BY <1>3, <2>2
  <2> QED
    BY <2>3, <2>4, <2>5, <2>6
<1>6. LET u == state'["instance_unhealthy"]
          b == badSince
          s == IF Serving(seen) THEN None ELSE IF b = None THEN t ELSE b
      IN  /\ u.since = s
          /\ ~Serving(seen) /\ t - s >= Sustain["instance_unhealthy"] => u.fired
  <2> DEFINE r == "instance_unhealthy"
  <2>1. r \in Rules /\ (Fact(seen, r) = "active" <=> ~Serving(seen))
    BY FactIs DEF Rules
  <2>2. state[r].since = badSince
    BY DEF AlertsIInv
  <2>3. /\ state'[r].since = Advanced(seen, r, t).since
        /\ state'[r].fired = Advanced(seen, r, t).fired
    BY <1>3, <2>1
  <2>4. /\ Fact(seen, r) # "active" => Advanced(seen, r, t).since = None
        /\ Fact(seen, r) = "active" =>
             /\ Advanced(seen, r, t).since
                  = IF state[r].since = None THEN t ELSE state[r].since
             /\ Advanced(seen, r, t).fired
                  <=> state[r].fired \/ t - Advanced(seen, r, t).since >= Sustain[r]
    BY <1>1, <2>1, AdvancedIs
  <2> QED
    BY <2>1, <2>2, <2>3, <2>4
<1> QED
  BY <1>3, <1>4, <1>5, <1>6

-----------------------------------------------------------------------------
(* The newest open row of a rule.                                           *)
Newest(table, r, k) ==
  /\ k \in 1..Len(table) /\ table[k].rule = r /\ table[k].open
  /\ \A j \in 1..Len(table) : table[j].rule = r /\ table[j].open => j <= k

KnownRows(table, st, unwritten, left) ==
  /\ \A r \in Rules \ unwritten : st[r].fired => Newest(table, r, st[r].id)
  /\ \A i \in 1..Len(table) : table[i].open =>
       i \in left \/ \E r \in Rules \ unwritten : st[r].fired /\ st[r].id = i

LEMMA NewestIs ==
  ASSUME NEW table \in Seq(Rows), NEW r, NEW k
  PROVE  LET O == {i \in DOMAIN table : table[i].rule = r /\ table[i].open}
         IN  {i \in O : \A j \in O : j <= i} = {k} <=> Newest(table, r, k)
<1> DEFINE O == {i \in DOMAIN table : table[i].rule = r /\ table[i].open}
           E == {i \in O : \A j \in O : j <= i}
<1>1. DOMAIN table = 1..Len(table) /\ Len(table) \in Nat
  OBVIOUS
<1>2. \A i : i \in O <=> i \in 1..Len(table) /\ table[i].rule = r /\ table[i].open
  BY <1>1
<1>3. \A i : i \in E <=> i \in O /\ \A j \in O : j <= i
  OBVIOUS
<1> HIDE DEF O
<1>4. \A i \in O : i \in Nat
  BY <1>2
<1> HIDE DEF E
<1>5. E = {k} <=> k \in E
  BY <1>3, <1>4
<1>6. k \in E <=> Newest(table, r, k)
  BY <1>2, <1>3 DEF Newest
<1> QED
  BY <1>5, <1>6 DEF E, O

LEMMA KnownIs ==
  ASSUME alerts \in Seq(Rows)
  PROVE  AlertRowsKnown <=> KnownRows(alerts, state, missed, leftOver)
<1>1. \A r, k : Ended(r) = {k} <=> Newest(alerts, r, k)
  BY NewestIs DEF Ended, OpenRows
<1>2. DOMAIN alerts = 1..Len(alerts)
  OBVIOUS
<1>3. \A i : i \in IdsOf({r \in Rules : state[r].fired})
               <=> \E r \in Rules \ missed : state[r].fired /\ state[r].id = i
  BY DEF IdsOf
<1> QED
  BY <1>1, <1>2, <1>3 DEF AlertRowsKnown, KnownRows

LEMMA KnownNext ==
  ASSUME alerts' \in Seq(Rows)
  PROVE  AlertRowsKnown' <=> KnownRows(alerts', state', missed', leftOver')
<1>1. \A r, k : Ended(r)' = {k} <=> Newest(alerts', r, k)
  BY NewestIs DEF Ended, OpenRows
<1>2. DOMAIN alerts' = 1..Len(alerts')
  OBVIOUS
<1>3. \A i : i \in IdsOf({r \in Rules : state[r].fired})'
               <=> \E r \in Rules \ missed' : state'[r].fired /\ state'[r].id = i
  BY DEF IdsOf
<1> QED
  BY <1>1, <1>2, <1>3 DEF AlertRowsKnown, KnownRows

LEMMA EndedNewest ==
  ASSUME AlertsIInv, NEW r \in Rules \ missed, state[r].fired
  PROVE  /\ Newest(alerts, r, state[r].id) /\ Ended(r) = {state[r].id}
         /\ state[r].id \in 1..Len(alerts) /\ state[r].id \in 1..MaxAlerts
<1>1. alerts \in Seq(Rows) /\ Len(alerts) \in 0..MaxAlerts
  BY AlertRows DEF AlertsIInv
<1>2. Ended(r) = {state[r].id}
  BY DEF AlertsIInv, AlertRowsKnown
<1>3. Newest(alerts, r, state[r].id)
  BY <1>1, KnownIs DEF AlertsIInv, KnownRows
<1> QED
  BY <1>1, <1>2, <1>3, AlertsBounds DEF Newest

Written(closed, new) ==
  [i \in DOMAIN alerts |-> [alerts[i] EXCEPT !.open = @ /\ i \notin closed]] \o new

LEMMA RowsAfter ==
  ASSUME AlertsTypeOK, NEW closed, NEW new \in Seq(Rows), NEW table,
         table = Written(closed, new)
  PROVE  /\ table \in Seq(Rows) /\ Len(table) = Len(alerts) + Len(new)
         /\ \A i \in 1..Len(alerts) :
              /\ table[i].rule = alerts[i].rule
              /\ table[i].open <=> alerts[i].open /\ i \notin closed
         /\ \A j \in 1..Len(new) : table[Len(alerts) + j] = new[j]
<1> DEFINE old == [i \in 1..Len(alerts) |->
                     [alerts[i] EXCEPT !.open = @ /\ i \notin closed]]
<1>1. /\ DOMAIN alerts = 1..Len(alerts) /\ Len(alerts) \in Nat
      /\ \A i \in 1..Len(alerts) : alerts[i] \in Rows
  BY AlertRows
<1>2. table = old \o new
  BY <1>1 DEF Written
<1>3. ASSUME NEW i \in 1..Len(alerts)
      PROVE  /\ old[i] \in Rows /\ old[i].rule = alerts[i].rule
             /\ old[i].open <=> alerts[i].open /\ i \notin closed
  <2>1. old[i] = [alerts[i] EXCEPT !.open = @ /\ i \notin closed]
    OBVIOUS
  <2>2. PICK a \in Rules, b \in BOOLEAN : alerts[i] = [rule |-> a, open |-> b]
    BY <1>1 DEF Rows
  <2> DEFINE o == b /\ i \notin closed
  <2>3. old[i] = [rule |-> a, open |-> o] /\ o \in BOOLEAN
    BY <2>1, <2>2
  <2>4. alerts[i].open = b /\ alerts[i].rule = a /\ a \in Rules
    BY <2>2
  <2> HIDE DEF old, o
  <2>5. old[i] \in Rows /\ old[i].rule = a
    BY <2>3, <2>4 DEF Rows
  <2>6. old[i].open = o
    BY <2>3
  <2> QED
    BY <2>4, <2>5, <2>6 DEF o
<1>4. old \in Seq(Rows) /\ Len(old) = Len(alerts)
  <2>1. old \in [1..Len(alerts) -> Rows]
    BY <1>3
  <2> QED
    BY <1>1, <2>1
<1> HIDE DEF old
<1>5. /\ table \in Seq(Rows) /\ Len(table) = Len(old) + Len(new)
      /\ \A i \in 1..Len(old) : table[i] = old[i]
      /\ \A j \in 1..Len(new) : table[Len(old) + j] = new[j]
  <2>1. Len(new) \in Nat /\ Len(old) \in Nat
    BY <1>1, <1>4
  <2> QED
    <3>1. /\ old \o new \in Seq(Rows) /\ Len(old \o new) = Len(old) + Len(new)
          /\ \A i \in 1 .. Len(old) + Len(new) :
               (old \o new)[i] = IF i <= Len(old) THEN old[i] ELSE new[i - Len(old)]
      BY <1>4, ConcatProperties
    <3>2. \A i \in 1..Len(old) : i \in 1 .. Len(old) + Len(new) /\ i <= Len(old)
      BY <2>1
    <3>3. \A j \in 1..Len(new) : /\ Len(old) + j \in 1 .. Len(old) + Len(new)
                                  /\ ~(Len(old) + j <= Len(old))
                                  /\ (Len(old) + j) - Len(old) = j
      BY <2>1
    <3> QED
      BY <1>2, <3>1, <3>2, <3>3
<1> QED
  BY <1>3, <1>4, <1>5

LEMMA EvaluatedIs ==
  ASSUME AlertsIInv, NEW seen \in Seen, NEW t, t = alertTick + 1,
         NEW flushed, flushed \subseteq Fires(seen, t),
         Evaluated(seen, t), AdvanceAll(seen, t, flushed)
  PROVE  /\ state' \in [Rules -> AlertStates] /\ alertTick' \in 0..MaxTicks
         /\ badSince' \in None..MaxTicks
         /\ state'["instance_unhealthy"].since = badSince'
         /\ AlertOutlivesDemotion'
<1> DEFINE s == IF Serving(seen) THEN None ELSE IF badSince = None THEN t ELSE badSince
<1>1. alertTick < MaxTicks /\ alertTick' = t /\ badSince' = s
  BY DEF Evaluated
<1>2. /\ state' \in [Rules -> AlertStates]
      /\ state'["instance_unhealthy"].since = s
      /\ ~Serving(seen) /\ t - s >= Sustain["instance_unhealthy"]
           => state'["instance_unhealthy"].fired
  BY <1>1, StatesAre
<1>3. t \in 0..MaxTicks /\ badSince \in None..MaxTicks
  <2>1. alertTick \in 0..MaxTicks /\ badSince \in None..MaxTicks
    BY DEF AlertsIInv, AlertsTypeOK
  <2> QED
    BY <1>1, <2>1, AlertsBounds
<1>4. s \in None..MaxTicks
  BY <1>3, AlertsBounds DEF None
<1>5. Serving(seen) => s = None
  OBVIOUS
<1> HIDE DEF s
<1>6. AlertOutlivesDemotion'
  BY <1>1, <1>2, <1>5 DEF AlertOutlivesDemotion
<1> QED
  BY <1>1, <1>2, <1>3, <1>4, <1>6

LEMMA AlertTickStep ==
  ASSUME AlertsIInv, NEW seen \in Seen, AlertTick(seen)
  PROVE  AlertsIInv'
<1> DEFINE t == alertTick + 1
           F == Fires(seen, t)
           N == NewRows(seen, t)
           closed == EndedBy(seen, t)
<1>1. /\ Evaluated(seen, t) /\ AdvanceAll(seen, t, F)
      /\ Len(alerts) + Cardinality(F) <= MaxAlerts
      /\ alerts' = Written(closed, N)
      /\ missed' = {r \in missed : state'[r].fired}
      /\ leftOver' = (leftOver \union IdsOf(Vanishes(seen, t))) \ closed
      /\ lapses' = lapses
  BY DEF AlertTick, Written
<1>2. /\ state' \in [Rules -> AlertStates] /\ alertTick' \in 0..MaxTicks
      /\ badSince' \in None..MaxTicks
      /\ state'["instance_unhealthy"].since = badSince'
      /\ AlertOutlivesDemotion'
  BY <1>1, EvaluatedIs
<1>3. alertTick < MaxTicks
  BY <1>1 DEF Evaluated
<1>4. AlertsTypeOK /\ missed \subseteq Rules /\ \A r \in missed : state[r].fired
  BY DEF AlertsIInv, AlertsTypeOK
<1>5. ASSUME NEW r \in Rules
      PROVE  /\ r \in F <=> ~state[r].fired /\ state'[r].fired
             /\ state[r].fired /\ state'[r].fired => state'[r].id = state[r].id
             /\ r \in Resolves(seen, t) \union Vanishes(seen, t)
                  <=> state[r].fired /\ ~state'[r].fired
             /\ r \in F => state'[r].id = IdOf(seen, r, t)
  BY <1>1, <1>3, StatesAre
<1>6. /\ N \in Seq(Rows) /\ Len(N) = Cardinality(F) /\ F \subseteq Rules
      /\ \A i \in 1..Cardinality(F) : N[i].rule \in F /\ N[i].open
      /\ \A i, j \in 1..Cardinality(F) : N[i].rule = N[j].rule => i = j
  BY NewRowsAre, FiringIs
<1>7. ASSUME NEW r \in F
      PROVE  /\ state'[r].id - Len(alerts) \in 1..Cardinality(F)
             /\ state'[r].id \in Nat
             /\ N[state'[r].id - Len(alerts)].rule = r
  BY <1>4, <1>5, <1>6, IdIs
<1>8. /\ alerts' \in Seq(Rows) /\ Len(alerts') = Len(alerts) + Len(N)
      /\ \A i \in 1..Len(alerts) :
           /\ alerts'[i].rule = alerts[i].rule
           /\ alerts'[i].open <=> alerts[i].open /\ i \notin closed
      /\ \A j \in 1..Len(N) : alerts'[Len(alerts) + j] = N[j]
  <2>1. AlertsTypeOK /\ N \in Seq(Rows) /\ alerts' = Written(closed, N)
    BY <1>1, <1>4, <1>6
  <2> HIDE DEF F, N, closed, t
  <2> QED
    BY <2>1, RowsAfter
<1>9. /\ Len(alerts) \in Nat /\ Cardinality(F) \in Nat /\ Len(N) \in Nat
      /\ MaxAlerts \in Nat
  BY <1>4, <1>6, AlertRows, FiringIs, AlertsBounds
<1>10. ASSUME NEW i \in closed
       PROVE  \E r \in Resolves(seen, t) : i \in Ended(r)
  BY DEF EndedBy
<1>11. \A r \in Vanishes(seen, t) \ missed : state[r].id \in 1..MaxAlerts
  BY EndedNewest DEF Vanishes
<1>12. \A i : i \in IdsOf(Vanishes(seen, t))
               <=> \E r \in Vanishes(seen, t) \ missed : state[r].id = i
  BY DEF IdsOf
<1>13. Resolves(seen, t) \subseteq Rules /\ Vanishes(seen, t) \subseteq Rules
  BY DEF Resolves, Vanishes
<1>14. \A i \in closed : i \in 1..Len(alerts) => \E r \in Resolves(seen, t) : alerts[i].rule = r
  BY <1>10 DEF Ended, OpenRows
<1>15. \A r \in Resolves(seen, t) \ missed : state[r].id \in closed
  <2>1. \A r \in Resolves(seen, t) \ missed : Ended(r) = {state[r].id}
    BY EndedNewest DEF Resolves
  <2> QED
    BY <2>1 DEF EndedBy
<1> HIDE DEF F, N, closed, t
<1>16. missed' \subseteq Rules /\ \A r \in missed' : state'[r].fired /\ r \in missed
  BY <1>1, <1>4
<1>17. \A r \in Rules \ missed' : state'[r].fired => r \notin missed
  BY <1>1
<1>18. ASSUME NEW r \in Rules \ missed', state'[r].fired
       PROVE  Newest(alerts', r, state'[r].id)
  <2>1. CASE r \in F
    <3> DEFINE k == state'[r].id
    <3>1. k - Len(alerts) \in 1..Cardinality(F) /\ k \in Nat /\ N[k - Len(alerts)].rule = r
      BY <1>7, <2>1
    <3> HIDE DEF k
    <3>2. PICK d \in 1..Cardinality(F) : k = Len(alerts) + d /\ N[d].rule = r
      BY <1>9, <3>1
    <3>3. /\ k \in 1..Len(alerts') /\ alerts'[k] = N[d]
      BY <1>6, <1>8, <1>9, <3>2
    <3>4. ASSUME NEW j \in 1..Len(alerts'), alerts'[j].rule = r PROVE j <= k
      <4>1. CASE j \in 1..Len(alerts)
        BY <1>9, <3>2, <4>1
      <4>2. CASE j \notin 1..Len(alerts)
        <5>1. PICK e \in 1..Len(N) : j = Len(alerts) + e
          <6>1. j - Len(alerts) \in 1..Len(N) /\ j = Len(alerts) + (j - Len(alerts))
            BY <1>8, <1>9, <4>2
          <6> QED
            BY <6>1
        <5>2. N[e].rule = r /\ e \in 1..Cardinality(F)
          BY <1>6, <1>8, <3>4, <5>1
        <5>3. e = d
          BY <1>6, <3>2, <5>2
        <5> QED
          BY <1>9, <3>2, <5>1, <5>3
      <4> QED
        BY <4>1, <4>2
    <3>5. N[d].open
      BY <1>6
    <3> QED
      BY <3>2, <3>3, <3>4, <3>5 DEF Newest, k
  <2>2. CASE r \notin F
    <3> DEFINE k == state[r].id
    <3>1. state[r].fired /\ r \notin missed /\ state'[r].id = k
      BY <1>5, <1>17, <1>18, <2>2
    <3>2. Newest(alerts, r, k) /\ k \in 1..Len(alerts)
      BY <3>1, EndedNewest
    <3> HIDE DEF k
    <3>3. r \notin Resolves(seen, t)
      BY <1>5, <1>18
    <3>4. k \notin closed
      BY <1>14, <3>2, <3>3 DEF Newest
    <3>5. k \in 1..Len(alerts') /\ alerts'[k].rule = r /\ alerts'[k].open
      BY <1>8, <1>9, <3>2, <3>4 DEF Newest
    <3>6. ASSUME NEW j \in 1..Len(alerts'), alerts'[j].rule = r, alerts'[j].open PROVE j <= k
      <4>1. CASE j \in 1..Len(alerts)
        BY <1>8, <3>2, <3>6, <4>1 DEF Newest
      <4>2. CASE j \notin 1..Len(alerts)
        <5>1. PICK e \in 1..Len(N) : j = Len(alerts) + e
          <6>1. j - Len(alerts) \in 1..Len(N) /\ j = Len(alerts) + (j - Len(alerts))
            BY <1>8, <1>9, <4>2
          <6> QED
            BY <6>1
        <5>2. N[e].rule = r /\ e \in 1..Cardinality(F)
          BY <1>6, <1>8, <3>6, <5>1
        <5> QED
          BY <1>6, <2>2, <5>2
      <4> QED
        BY <4>1, <4>2
    <3> QED
      BY <3>1, <3>5, <3>6 DEF Newest
  <2> QED
    BY <2>1, <2>2
<1>19. ASSUME NEW i \in 1..Len(alerts'), alerts'[i].open
       PROVE  i \in leftOver' \/ \E r \in Rules \ missed' : state'[r].fired /\ state'[r].id = i
  <2>1. CASE i \in 1..Len(alerts)
    <3>1. alerts[i].open /\ i \notin closed
      BY <1>8, <1>19, <2>1
    <3>2. i \in leftOver \/ \E r \in Rules \ missed : state[r].fired /\ state[r].id = i
      <4>1. KnownRows(alerts, state, missed, leftOver)
        BY <1>4, AlertRows, KnownIs DEF AlertsIInv
      <4> QED
        BY <2>1, <3>1, <4>1 DEF KnownRows
    <3>3. CASE i \in leftOver
      BY <1>1, <3>1, <3>3
    <3>4. ASSUME NEW r \in Rules \ missed, state[r].fired, state[r].id = i
          PROVE  i \in leftOver' \/ \E q \in Rules \ missed' : state'[q].fired /\ state'[q].id = i
      <4>1. CASE state'[r].fired
        BY <1>5, <1>16, <3>4, <4>1
      <4>2. CASE ~state'[r].fired
        <5>1. r \in Resolves(seen, t) \/ r \in Vanishes(seen, t)
          BY <1>5, <3>4, <4>2
        <5>2. r \notin Resolves(seen, t)
          BY <1>15, <3>1, <3>4
        <5> QED
          BY <1>1, <1>12, <3>1, <3>4, <5>1, <5>2
      <4> QED
        BY <4>1, <4>2
    <3> QED
      BY <3>2, <3>3, <3>4
  <2>2. CASE i \notin 1..Len(alerts)
    <3>1. PICK e \in 1..Len(N) : i = Len(alerts) + e
      <4>1. i - Len(alerts) \in 1..Len(N) /\ i = Len(alerts) + (i - Len(alerts))
        BY <1>8, <1>9, <2>2
      <4> QED
        BY <4>1
    <3>2. e \in 1..Cardinality(F) /\ N[e].rule \in F
      BY <1>6, <3>1
    <3>3. PICK r \in F : N[e].rule = r
      BY <3>2
    <3>4. PICK d \in 1..Cardinality(F) : state'[r].id = Len(alerts) + d /\ N[d].rule = r
      <4>1. /\ state'[r].id - Len(alerts) \in 1..Cardinality(F) /\ state'[r].id \in Nat
            /\ N[state'[r].id - Len(alerts)].rule = r
        BY <1>7
      <4>2. state'[r].id = Len(alerts) + (state'[r].id - Len(alerts))
        BY <1>9, <4>1
      <4> QED
        BY <4>1, <4>2
    <3>5. d = e
      BY <1>6, <3>2, <3>3, <3>4
    <3>6. r \in Rules /\ state'[r].fired /\ r \notin missed'
      BY <1>4, <1>5, <1>6, <1>16
    <3> QED
      BY <3>1, <3>4, <3>5, <3>6
  <2> QED
    BY <2>1, <2>2
<1>20. AlertRowsKnown'
  <2>1. KnownRows(alerts', state', missed', leftOver')
    BY <1>18, <1>19 DEF KnownRows
  <2> QED
    BY <1>8, <2>1, KnownNext
<1>21. AlertsTypeOK'
  <2>1. leftOver' \subseteq 1..MaxAlerts
    <3>1. leftOver \subseteq 1..MaxAlerts
      BY DEF AlertsIInv, AlertsTypeOK
    <3> QED
      BY <1>1, <1>11, <1>12, <3>1
  <2>2. \E n \in 0..MaxAlerts : alerts' \in [1..n -> Rows]
    <3>1. Len(alerts') \in 0..MaxAlerts
      BY <1>1, <1>6, <1>8, <1>9
    <3>2. alerts' \in [1..Len(alerts') -> Rows]
      BY <1>8
    <3> QED
      BY <3>1, <3>2
  <2>3. lapses' \in 0..MaxLapses
    BY <1>1 DEF AlertsIInv, AlertsTypeOK
  <2> QED
    BY <1>2, <1>16, <2>1, <2>2, <2>3 DEF AlertsTypeOK, AlertStates, Rows
<1> QED
  BY <1>2, <1>16, <1>20, <1>21 DEF AlertsIInv

LEMMA TickFailsStep ==
  ASSUME AlertsIInv, NEW seen \in Seen, TickFails(seen)
  PROVE  AlertsIInv'
<1> DEFINE t == alertTick + 1
           F == Fires(seen, t)
           G == Vanishes(seen, t) \union Resolves(seen, t)
<1>1. /\ Evaluated(seen, t) /\ lapses < MaxLapses /\ lapses' = lapses + 1
      /\ \E flushed \in SUBSET F : AdvanceAll(seen, t, flushed)
      /\ missed' = {r \in missed \union F : state'[r].fired}
      /\ leftOver' = leftOver \union IdsOf(G)
      /\ alerts' = alerts
  BY DEF TickFails
<1>2. PICK flushed \in SUBSET F : AdvanceAll(seen, t, flushed)
  BY <1>1
<1>3. /\ state' \in [Rules -> AlertStates] /\ alertTick' \in 0..MaxTicks
      /\ badSince' \in None..MaxTicks
      /\ state'["instance_unhealthy"].since = badSince'
      /\ AlertOutlivesDemotion'
  BY <1>1, <1>2, EvaluatedIs
<1>4. alertTick < MaxTicks
  BY <1>1 DEF Evaluated
<1>5. ASSUME NEW r \in Rules
      PROVE  /\ r \in F <=> ~state[r].fired /\ state'[r].fired
             /\ state[r].fired /\ state'[r].fired => state'[r].id = state[r].id
             /\ r \in G <=> state[r].fired /\ ~state'[r].fired
  BY <1>2, <1>4, StatesAre
<1>6. /\ AlertsTypeOK /\ missed \subseteq Rules /\ F \subseteq Rules /\ G \subseteq Rules
      /\ leftOver \subseteq 1..MaxAlerts /\ lapses \in 0..MaxLapses
      /\ \A r \in G : state[r].fired
  BY DEF AlertsIInv, AlertsTypeOK, Fires, Vanishes, Resolves
<1>7. \A i : i \in IdsOf(G) <=> \E r \in G \ missed : state[r].id = i
  BY DEF IdsOf
<1>8. \A r \in G \ missed : state[r].id \in 1..MaxAlerts
  BY <1>6, EndedNewest
<1> HIDE DEF F, G, t
<1>9. alerts' \in Seq(Rows) /\ KnownRows(alerts, state, missed, leftOver)
  BY <1>1, <1>6, AlertRows, KnownIs DEF AlertsIInv
<1>10. missed' \subseteq Rules /\ \A r \in missed' : state'[r].fired
  BY <1>1, <1>6
<1>11. ASSUME NEW r \in Rules \ missed', state'[r].fired
       PROVE  r \notin missed /\ state[r].fired /\ state'[r].id = state[r].id
  <2>1. r \notin missed /\ r \notin F
    BY <1>1, <1>11
  <2> QED
    BY <1>5, <1>11, <2>1
<1>12. ASSUME NEW r \in Rules \ missed, state[r].fired, state'[r].fired PROVE r \notin missed'
  BY <1>1, <1>5, <1>12
<1>13. AlertRowsKnown'
  <2>1. \A r \in Rules \ missed' : state'[r].fired => Newest(alerts', r, state'[r].id)
    BY <1>1, <1>9, <1>11 DEF KnownRows
  <2>2. ASSUME NEW i \in 1..Len(alerts'), alerts'[i].open
        PROVE  i \in leftOver' \/ \E r \in Rules \ missed' : state'[r].fired /\ state'[r].id = i
    <3>1. i \in leftOver \/ \E r \in Rules \ missed : state[r].fired /\ state[r].id = i
      BY <1>1, <1>9, <2>2 DEF KnownRows
    <3>2. ASSUME NEW r \in Rules \ missed, state[r].fired, state[r].id = i
          PROVE  i \in leftOver' \/ \E q \in Rules \ missed' : state'[q].fired /\ state'[q].id = i
      <4>1. CASE state'[r].fired
        BY <1>5, <1>12, <3>2, <4>1
      <4>2. CASE ~state'[r].fired
        BY <1>1, <1>5, <1>7, <3>2, <4>2
      <4> QED
        BY <4>1, <4>2
    <3> QED
      BY <1>1, <3>1, <3>2
  <2>3. KnownRows(alerts', state', missed', leftOver')
    BY <2>1, <2>2 DEF KnownRows
  <2> QED
    BY <1>9, <2>3, KnownNext
<1>14. AlertsTypeOK'
  <2>1. leftOver' \subseteq 1..MaxAlerts
    BY <1>1, <1>6, <1>7, <1>8
  <2>2. lapses' \in 0..MaxLapses
    BY <1>1, <1>6, AlertsBounds
  <2>3. \E n \in 0..MaxAlerts : alerts' \in [1..n -> [rule : Rules, open : BOOLEAN]]
    BY <1>1, <1>6 DEF AlertsTypeOK
  <2> QED
    BY <1>3, <1>10, <2>1, <2>2, <2>3 DEF AlertsTypeOK, AlertStates
<1> QED
  BY <1>3, <1>10, <1>13, <1>14 DEF AlertsIInv

LEMMA AlertsRestartStep == ASSUME AlertsIInv, AlertsRestart PROVE AlertsIInv'
<1> DEFINE G == {r \in Rules : state[r].fired}
<1>1. /\ lapses < MaxLapses /\ lapses' = lapses + 1 /\ badSince' = None
      /\ state' = [r \in Rules |-> Fresh0] /\ missed' = {}
      /\ leftOver' = leftOver \union IdsOf(G)
      /\ alertTick' = alertTick /\ alerts' = alerts
  BY DEF AlertsRestart
<1>2. AlertsTypeOK /\ leftOver \subseteq 1..MaxAlerts /\ lapses \in 0..MaxLapses
  BY DEF AlertsIInv, AlertsTypeOK
<1>3. \A i : i \in IdsOf(G) <=> \E r \in Rules \ missed : state[r].fired /\ state[r].id = i
  BY DEF IdsOf
<1>4. \A r \in Rules \ missed : state[r].fired => state[r].id \in 1..MaxAlerts
  BY EndedNewest
<1> HIDE DEF G
<1>5. \A r \in Rules : ~state'[r].fired /\ state'[r].since = None
  BY <1>1 DEF Fresh0
<1>6. alerts' \in Seq(Rows) /\ KnownRows(alerts, state, missed, leftOver)
  BY <1>1, <1>2, AlertRows, KnownIs DEF AlertsIInv
<1>7. AlertRowsKnown'
  <2>1. KnownRows(alerts', state', missed', leftOver')
    BY <1>1, <1>3, <1>5, <1>6 DEF KnownRows
  <2> QED
    BY <1>6, <2>1, KnownNext
<1>8. AlertsTypeOK'
  <2>1. leftOver' \subseteq 1..MaxAlerts
    <3>1. IdsOf(G) \subseteq 1..MaxAlerts
      BY <1>3, <1>4
    <3>2. leftOver' = leftOver \union IdsOf(G) /\ leftOver \subseteq 1..MaxAlerts
      BY <1>1, <1>2
    <3> QED
      BY <3>1, <3>2
  <2>2. lapses' \in 0..MaxLapses
    BY <1>1, <1>2, AlertsBounds
  <2>3. /\ \E n \in 0..MaxAlerts : alerts' \in [1..n -> [rule : Rules, open : BOOLEAN]]
        /\ alertTick' \in 0..MaxTicks
    BY <1>1, <1>2 DEF AlertsTypeOK
  <2>4. badSince' \in None..MaxTicks
    BY <1>1, AlertsBounds DEF None
  <2>5. Fresh0 \in AlertStates
    BY RulesFinite, AlertsBounds DEF Fresh0, AlertStates, None
  <2>6. state' \in [Rules -> AlertStates]
    BY <1>1, <2>5
  <2> QED
    BY <1>1, <2>1, <2>2, <2>3, <2>4, <2>6 DEF AlertsTypeOK, AlertStates
<1>9. AlertOutlivesDemotion' /\ state'["instance_unhealthy"].since = badSince'
  BY <1>1, <1>5 DEF AlertOutlivesDemotion, Rules
<1> QED
  BY <1>1, <1>7, <1>8, <1>9 DEF AlertsIInv

LEMMA AlertsStart == AlertsInit => AlertsIInv
<1> SUFFICES ASSUME AlertsInit PROVE AlertsIInv
  OBVIOUS
<1>1. /\ alertTick = 0 /\ state = [r \in Rules |-> Fresh0] /\ alerts = <<>>
      /\ missed = {} /\ leftOver = {} /\ badSince = None /\ lapses = 0
  BY DEF AlertsInit
<1>2. \A r \in Rules : ~state[r].fired /\ state[r].since = None
  BY <1>1 DEF Fresh0
<1>3. <<>> \in Seq(Rows) /\ Len(<<>>) = 0 /\ <<>> \in [1..0 -> Rows]
  OBVIOUS
<1>4. AlertsTypeOK
  <2>1. Fresh0 \in AlertStates
    BY RulesFinite, AlertsBounds DEF Fresh0, AlertStates, None
  <2>2. state \in [Rules -> AlertStates]
    BY <1>1, <2>1
  <2>3. 0 \in 0..MaxTicks /\ 0 \in 0..MaxLapses /\ 0 \in 0..MaxAlerts /\ None \in None..MaxTicks
    BY AlertsBounds DEF None
  <2>4. \E n \in 0..MaxAlerts : alerts \in [1..n -> Rows]
    BY <1>1, <1>3, <2>3
  <2> QED
    BY <1>1, <2>2, <2>3, <2>4 DEF AlertsTypeOK, AlertStates, Rows
<1>5. AlertRowsKnown
  <2>1. KnownRows(alerts, state, missed, leftOver)
    BY <1>1, <1>2, <1>3 DEF KnownRows
  <2> QED
    BY <1>1, <1>3, <2>1, KnownIs
<1>6. AlertOutlivesDemotion /\ state["instance_unhealthy"].since = badSince
  BY <1>1, <1>2 DEF AlertOutlivesDemotion, Rules
<1> QED
  BY <1>1, <1>4, <1>5, <1>6 DEF AlertsIInv

LEMMA AlertsStep == AlertsIInv /\ [AlertsNext]_alertsVars => AlertsIInv'
<1>1. ASSUME AlertsIInv, UNCHANGED alertsVars PROVE AlertsIInv'
  <2>1. UNCHANGED <<alertTick, state, alerts, missed, leftOver, badSince, lapses>>
    BY <1>1 DEF alertsVars
  <2>2. AlertsTypeOK' /\ AlertOutlivesDemotion' /\ (\A r \in missed' : state'[r].fired)
        /\ state'["instance_unhealthy"].since = badSince'
    BY <1>1, <2>1 DEF AlertsIInv, AlertsTypeOK, AlertOutlivesDemotion
  <2>3. alerts \in Seq(Rows) /\ alerts' \in Seq(Rows)
    BY <1>1, <2>1, AlertRows DEF AlertsIInv
  <2>4. AlertRowsKnown'
    BY <1>1, <2>1, <2>3, KnownIs, KnownNext DEF AlertsIInv
  <2> QED
    BY <2>2, <2>4 DEF AlertsIInv
<1> QED
  BY <1>1, AlertTickStep, TickFailsStep, AlertsRestartStep DEF AlertsNext

(* Whatever comes and goes, whichever ticks are lost and whenever the       *)
(* portal restarts: an alert that fired in a written tick has its open row, *)
(* the one its end will close, any other open row was left over, and an     *)
(* alert outlives the demotion of its instance (services/alerts.py:120-284).*)
THEOREM AlertsAreKept == AlertsSpec => []AlertsInv
<1>1. AlertsIInv => AlertsInv
  BY DEF AlertsIInv, AlertsInv
<1> QED
  BY <1>1, AlertsStart, AlertsStep, PTL DEF AlertsSpec
-----------------------------------------------------------------------------
(* The slow loop's readings, and the observer's timers by time c.           *)
CacheReadings == [known : BOOLEAN, active : {"yes", "no", "unknown"}, health : BOOLEAN,
                  restarts : {NoTime} \union (0..MaxRestarts)]
Times(c) == {NoTime} \union (0..c)
TimerRecs(c) == [dead : Times(c), unhealthy : Times(c), first : Times(c),
                 base : {NoTime} \union (0..MaxRestarts)]

(* A timer runs from a pass after the last one that saw something else, and *)
(* without a reading no timer runs.                                         *)
TimersRecent ==
  /\ timers.dead # NoTime => dark <= timers.dead
  /\ timers.unhealthy # NoTime => ill <= timers.unhealthy
  /\ ~cache.known => timers = NoTimers

(* A row that its deadline has passed by is not `starting` after a pass,    *)
(* unless the pass saw no failing /health.                                  *)
DeadlineMet ==
  ticked /\ rowStatus = "starting" /\ ~ever /\ startedAt # NoTime
  /\ clock - startedAt >= StartDeadline + 1
  => ill = clock

ReconcileIInv == ReconcileTypeOK /\ TimersRecent /\ DeadlineMet

(***************************************************************************)
(* What a pass leaves of the timers.                                        *)
(***************************************************************************)
LEMMA NoCacheReads == NoCache \in CacheReadings /\ ~NoCache.known
BY DEF NoCache, CacheReadings

LEMMA ReadingFacts ==
  ASSUME ReconcileTypeOK
  PROVE  /\ cache.known \in BOOLEAN /\ cache.active \in {"yes", "no", "unknown"}
         /\ cache.health \in BOOLEAN /\ cache.restarts \in {NoTime} \union (0..MaxRestarts)
         /\ clock \in Nat /\ dark \in 0..clock /\ ill \in 0..clock
         /\ rowStatus \in RowStatuses /\ ever \in BOOLEAN
         /\ startedAt \in {NoTime} \union (0..clock)
         /\ timers \in TimerRecs(clock)
         /\ MaxRestarts \in Nat /\ MaxClock \in Nat
BY ReconcileAssumption DEF ReconcileTypeOK, TimerRecs, Times

LEMMA TimersKept ==
  ASSUME ReconcileTypeOK, NEW reach \in BOOLEAN
  PROVE  /\ Timers(reach) \in TimerRecs(clock)
         /\ ~reach \/ cache.health =>
              Timers(reach).dead = NoTime /\ Timers(reach).unhealthy = NoTime
         /\ reach /\ ~cache.health =>
              /\ Timers(reach).dead = IF cache.active = "no"
                                      THEN IF timers.dead = NoTime THEN clock ELSE timers.dead
                                      ELSE NoTime
              /\ Timers(reach).unhealthy =
                   IF rowStatus = "running"
                   THEN IF timers.unhealthy = NoTime THEN clock ELSE timers.unhealthy
                   ELSE timers.unhealthy
<1>1. /\ clock \in Nat /\ timers \in TimerRecs(clock) /\ clock \in Times(clock)
      /\ NoTime \in Times(clock)
  BY ReadingFacts DEF Times
<1>2. /\ timers = [dead |-> timers.dead, unhealthy |-> timers.unhealthy,
                   first |-> timers.first, base |-> timers.base]
      /\ timers.dead \in Times(clock) /\ timers.unhealthy \in Times(clock)
      /\ timers.first \in Times(clock) /\ timers.base \in {NoTime} \union (0..MaxRestarts)
  BY <1>1 DEF TimerRecs
<1>3. CASE ~reach \/ cache.health
  BY <1>1, <1>2, <1>3 DEF Timers, TimerRecs
<1>4. CASE reach /\ ~cache.health
  BY <1>1, <1>2, <1>4 DEF Timers, TimerRecs
<1> QED BY <1>3, <1>4

LEMMA BasedKept ==
  ASSUME ReconcileTypeOK, NEW p \in TimerRecs(clock)
  PROVE  /\ Based(p) \in TimerRecs(clock)
         /\ Based(p).dead = p.dead /\ Based(p).unhealthy = p.unhealthy
<1>1. cache.restarts \in {NoTime} \union (0..MaxRestarts)
  BY ReadingFacts
<1> QED BY <1>1 DEF Based, TimerRecs

LEMMA PassKept ==
  ASSUME ReconcileTypeOK, NEW reach \in BOOLEAN
  PROVE  /\ TimersAfter(reach) \in TimerRecs(clock)
         /\ TimersAfter(reach).dead = Timers(reach).dead
         /\ TimersAfter(reach).unhealthy = Timers(reach).unhealthy
<1>1. Timers(reach) \in TimerRecs(clock)
  BY TimersKept
<1>2. /\ Based(Timers(reach)) \in TimerRecs(clock)
      /\ Based(Timers(reach)).dead = Timers(reach).dead
      /\ Based(Timers(reach)).unhealthy = Timers(reach).unhealthy
  BY <1>1, BasedKept
<1> QED BY <1>1, <1>2 DEF TimersAfter

LEMMA NoTimersKept ==
  ASSUME NEW c \in Nat
  PROVE  /\ NoTimers \in TimerRecs(c)
         /\ NoTimers.dead = NoTime /\ NoTimers.unhealthy = NoTime
BY DEF NoTimers, TimerRecs, Times

(***************************************************************************)
(* What a verdict says of the reading and the row.                          *)
(***************************************************************************)
LEMMA ReasonSays ==
  ASSUME ReconcileTypeOK, NEW reach \in BOOLEAN
  PROVE  /\ Reason(reach) \in {"none", "green", "unit dead", "crash loop", "deadline",
                               "health lost"}
         /\ ~reach => Reason(reach) = "none"
         /\ reach /\ cache.health =>
              Reason(reach) = IF rowStatus \in {"starting", "error"} THEN "green" ELSE "none"
         /\ reach /\ ~cache.health /\ Reason(reach) # "none" =>
              /\ rowStatus \in {"starting", "running"}
              /\ Reason(reach) # "green"
         /\ Reason(reach) = "unit dead" =>
              reach /\ ~cache.health /\ UnitDead(Timers(reach))
         /\ Reason(reach) \in {"crash loop", "deadline"} => ~ever
         /\ Reason(reach) = "health lost" =>
              /\ reach /\ ~cache.health /\ rowStatus = "running"
              /\ Sustained(Based(Timers(reach)).unhealthy, UnhealthyAfter)
         /\ reach /\ ~cache.health /\ Watched /\ PastDeadline(Based(Timers(reach))) =>
              Reason(reach) \notin {"none", "green"}
BY DEF Reason, Watched, CrashLooping, PastDeadline, HealthLost

(* decide answers what InstanceLifecycle leaves open, from any timers.      *)
LEMMA VerdictAllowed ==
  ASSUME ReconcileTypeOK
  PROVE  DecideAllowed
<1> SUFFICES ASSUME NEW reach \in BOOLEAN, NEW to,
                    to = IF Reason(reach) = "none" THEN "keep"
                         ELSE IF Reason(reach) = "green" THEN "running" ELSE "error"
             PROVE  to \in Lifecycle!Verdicts(rowStatus, ever, cache, reach)
  BY DEF DecideAllowed
<1>1. /\ rowStatus \in RowStatuses /\ ever \in BOOLEAN /\ cache.health \in BOOLEAN
      /\ cache.active \in {"yes", "no", "unknown"}
  BY ReadingFacts
<1>2. CASE ~reach
  BY <1>2, ReasonSays DEF Lifecycle!Verdicts
<1>3. CASE reach /\ cache.health
  BY <1>1, <1>3, ReasonSays DEF Lifecycle!Verdicts
<1>4. CASE reach /\ ~cache.health /\ Reason(reach) = "none"
  BY <1>4 DEF Lifecycle!Verdicts
<1>5. CASE reach /\ ~cache.health /\ Reason(reach) # "none"
  <2>1. rowStatus \in {"starting", "running"} /\ to = "error"
    BY <1>5, ReasonSays
  <2>2. Reason(reach) \in {"unit dead", "crash loop", "deadline", "health lost"}
    BY <1>5, ReasonSays
  <2>3. Reason(reach) = "unit dead" => cache.active = "no"
    <3>1. Reason(reach) = "unit dead" => Timers(reach).dead # NoTime
      BY ReasonSays DEF UnitDead, Sustained
    <3> QED BY <3>1, <1>5, TimersKept
  <2>4. cache.active = "no" \/ ~ever \/ rowStatus = "running"
    BY <2>2, <2>3, ReasonSays
  <2> QED BY <2>1, <2>4, <1>5 DEF Lifecycle!Verdicts
<1> QED BY <1>2, <1>3, <1>4, <1>5

(* A demotion is held against the row for as long as the rule asks.         *)
LEMMA DemotionIsSustained ==
  ASSUME ReconcileIInv
  PROVE  /\ Decides("unit dead")   => clock - dark >= UnitDeadAfter
         /\ Decides("health lost") => clock - ill >= UnhealthyAfter
<1>1. ReconcileTypeOK /\ TimersRecent
  BY DEF ReconcileIInv
<1>2. /\ clock \in Nat /\ dark \in 0..clock /\ ill \in 0..clock
      /\ timers.dead \in Times(clock) /\ timers.unhealthy \in Times(clock)
      /\ UnitDeadAfter \in Nat /\ UnhealthyAfter \in Nat
  BY <1>1, ReadingFacts, ReconcileAssumption DEF TimerRecs
<1>3. ASSUME Decides("unit dead") PROVE clock - dark >= UnitDeadAfter
  <2>1. PICK reach \in BOOLEAN : Reason(reach) = "unit dead"
    BY <1>3 DEF Decides
  <2>2. reach /\ ~cache.health /\ UnitDead(Timers(reach))
    BY <1>1, <2>1, ReasonSays
  <2>3. /\ Timers(reach).dead # NoTime
        /\ clock - Timers(reach).dead >= UnitDeadAfter
    BY <2>2 DEF UnitDead, Sustained
  <2>4. Timers(reach).dead \in {clock, timers.dead}
    BY <1>1, <2>2, <2>3, TimersKept
  <2>5. CASE Timers(reach).dead = clock
    BY <1>2, <2>3, <2>5
  <2>6. CASE Timers(reach).dead = timers.dead
    <3>1. dark <= timers.dead /\ timers.dead \in 0..clock
      BY <1>1, <1>2, <2>3, <2>6 DEF TimersRecent, Times
    <3> QED BY <3>1, <1>2, <2>3, <2>6
  <2> QED BY <2>4, <2>5, <2>6
<1>4. ASSUME Decides("health lost") PROVE clock - ill >= UnhealthyAfter
  <2>1. PICK reach \in BOOLEAN : Reason(reach) = "health lost"
    BY <1>4 DEF Decides
  <2>2. /\ reach /\ ~cache.health /\ rowStatus = "running"
        /\ Sustained(Based(Timers(reach)).unhealthy, UnhealthyAfter)
    BY <1>1, <2>1, ReasonSays
  <2>3. Based(Timers(reach)).unhealthy = Timers(reach).unhealthy
    BY <1>1, TimersKept, BasedKept
  <2>4. /\ Timers(reach).unhealthy # NoTime
        /\ clock - Timers(reach).unhealthy >= UnhealthyAfter
    BY <2>2, <2>3 DEF Sustained
  <2>5. Timers(reach).unhealthy \in {clock, timers.unhealthy}
    BY <1>1, <2>2, TimersKept
  <2>6. CASE Timers(reach).unhealthy = clock
    BY <1>2, <2>4, <2>6
  <2>7. CASE Timers(reach).unhealthy = timers.unhealthy
    <3>1. ill <= timers.unhealthy /\ timers.unhealthy \in 0..clock
      BY <1>1, <1>2, <2>4, <2>7 DEF TimersRecent, Times
    <3> QED BY <3>1, <1>2, <2>4, <2>7
  <2> QED BY <2>5, <2>6, <2>7
<1> QED BY <1>3, <1>4

(***************************************************************************)
(* The steps.                                                               *)
(***************************************************************************)
LEMMA ReconcileStart == ReconcileInit => ReconcileIInv
<1> SUFFICES ASSUME ReconcileInit PROVE ReconcileIInv
  OBVIOUS
<1>1. ReconcileTypeOK
  <2>1. clock = 0 /\ timers = NoTimers /\ cache \in CacheReadings
    BY NoCacheReads DEF ReconcileInit
  <2>2. timers \in TimerRecs(clock)
    BY <2>1, NoTimersKept
  <2>3. startedAt \in {NoTime} \union (0..clock)
    BY <2>1 DEF ReconcileInit
  <2>4. /\ clock \in 0..MaxClock /\ restarts \in 0..MaxRestarts /\ jobs \in 0..MaxRowJobs
        /\ reboots \in 0..MaxReboots /\ dark \in 0..clock /\ ill \in 0..clock
    BY <2>1, ReconcileAssumption DEF ReconcileInit
  <2> QED BY <2>1, <2>2, <2>3, <2>4
          DEF ReconcileInit, ReconcileTypeOK, CacheReadings, TimerRecs, Times
<1>2. TimersRecent
  BY DEF ReconcileInit, TimersRecent, NoTimers
<1>3. DeadlineMet
  BY DEF ReconcileInit, DeadlineMet
<1> QED BY <1>1, <1>2, <1>3 DEF ReconcileIInv

(* A pass that decides.                                                     *)
LEMMA DecidedKeeps ==
  ASSUME ReconcileIInv, NEW reach \in BOOLEAN, ObserverTick(reach), cache.known,
         flight = "none"
  PROVE  ReconcileIInv'
<1>1. ReconcileTypeOK /\ TimersRecent
  BY DEF ReconcileIInv
<1>2. /\ Decided(reach) /\ ticked' = TRUE
      /\ UNCHANGED <<flight, restarts, cache, clock, sampled, reconcileBounds>>
  BY DEF ObserverTick
<1>3. /\ dark' = IF ~reach \/ cache.health \/ cache.active # "no" THEN clock ELSE dark
      /\ ill' = IF ~reach \/ cache.health THEN clock ELSE ill
      /\ timers' = IF Reason(reach) = "none" THEN TimersAfter(reach) ELSE NoTimers
      /\ rowStatus' = IF Reason(reach) = "none" THEN rowStatus
                      ELSE IF Reason(reach) = "green" THEN "running" ELSE "error"
      /\ ever' = (ever \/ Reason(reach) = "green")
      /\ startedAt' = startedAt
  BY <1>2 DEF Decided
<1>4. /\ clock \in Nat /\ dark \in 0..clock /\ ill \in 0..clock /\ clock' = clock
      /\ rowStatus \in RowStatuses /\ ever \in BOOLEAN
      /\ cache' = cache /\ startedAt \in {NoTime} \union (0..clock)
  BY <1>1, <1>2, ReadingFacts
<1>5. /\ timers' \in TimerRecs(clock)
      /\ \/ timers'.dead = NoTime /\ timers'.unhealthy = NoTime
         \/ /\ timers'.dead = Timers(reach).dead
            /\ timers'.unhealthy = Timers(reach).unhealthy
  BY <1>1, <1>3, <1>4, PassKept, NoTimersKept
<1>6. ReconcileTypeOK'
  <2>1. /\ rowStatus' \in RowStatuses /\ ever' \in BOOLEAN /\ ticked' \in BOOLEAN
        /\ dark' \in 0..clock' /\ ill' \in 0..clock'
    BY <1>2, <1>3, <1>4 DEF RowStatuses
  <2>2. timers' \in TimerRecs(clock')
    BY <1>4, <1>5
  <2>3. /\ startedAt' \in {NoTime} \union (0..clock')
        /\ flight' = flight /\ restarts' = restarts /\ sampled' = sampled
        /\ jobs' = jobs /\ reboots' = reboots
    BY <1>2, <1>3, <1>4 DEF reconcileBounds
  <2> QED BY <1>1, <1>4, <2>1, <2>2, <2>3 DEF ReconcileTypeOK, TimerRecs, Times
<1>7. TimersRecent'
  <2>1. timers'.dead # NoTime => dark' <= timers'.dead
    <3> SUFFICES ASSUME timers'.dead # NoTime PROVE dark' <= timers'.dead
      OBVIOUS
    <3>1. timers'.dead = Timers(reach).dead /\ Timers(reach).dead # NoTime
      BY <1>5
    <3>2. reach /\ ~cache.health /\ cache.active = "no"
      BY <1>1, <3>1, TimersKept
    <3>3. /\ dark' = dark
          /\ timers'.dead = IF timers.dead = NoTime THEN clock ELSE timers.dead
      BY <1>1, <1>3, <3>1, <3>2, TimersKept
    <3> QED BY <1>1, <1>4, <3>3 DEF TimersRecent
  <2>2. timers'.unhealthy # NoTime => ill' <= timers'.unhealthy
    <3> SUFFICES ASSUME timers'.unhealthy # NoTime PROVE ill' <= timers'.unhealthy
      OBVIOUS
    <3>1. /\ timers'.unhealthy = Timers(reach).unhealthy
          /\ Timers(reach).unhealthy # NoTime
      BY <1>5
    <3>2. reach /\ ~cache.health
      BY <1>1, <3>1, TimersKept
    <3>3. /\ ill' = ill
          /\ timers'.unhealthy \in {clock, timers.unhealthy}
      BY <1>1, <1>3, <3>1, <3>2, TimersKept
    <3> QED BY <1>1, <1>4, <3>3 DEF TimersRecent
  <2> QED BY <1>4, <2>1, <2>2 DEF TimersRecent
<1>8. DeadlineMet'
  <2> SUFFICES ASSUME rowStatus' = "starting", ~ever', startedAt' # NoTime,
                      clock' - startedAt' >= StartDeadline + 1,
                      reach, ~cache.health
               PROVE  FALSE
    BY <1>3, <1>4 DEF DeadlineMet
  <2>1. rowStatus = "starting" /\ ~ever /\ Reason(reach) = "none"
    BY <1>3
  <2>2. clock - startedAt >= StartDeadline
    BY <1>3, <1>4, ReconcileAssumption DEF NoTime
  <2>3. PastDeadline(Based(Timers(reach))) /\ Watched
    BY <1>3, <2>1, <2>2 DEF PastDeadline, Anchor, Sustained, Watched
  <2> QED BY <1>1, <2>1, <2>3, ReasonSays
<1> QED BY <1>6, <1>7, <1>8 DEF ReconcileIInv

(* A pass that skips the row, and a restart: what was seen begins anew.     *)
LEMMA SkipKeeps ==
  ASSUME ReconcileIInv,
         dark' = clock, ill' = clock, clock' = clock,
         timers' = IF cache.known THEN NoTimers ELSE timers, cache' \in {cache, NoCache},
         cache' = NoCache => timers' = NoTimers,
         rowStatus' = rowStatus, ever' = ever, startedAt' = startedAt, restarts' = restarts,
         flight' \in {flight, "none"}, ticked' \in {ticked, TRUE}, sampled' = sampled,
         jobs' = jobs, reboots' \in 0..MaxReboots
  PROVE  ReconcileIInv'
<1>1. ReconcileTypeOK /\ TimersRecent
  BY DEF ReconcileIInv
<1>2. /\ clock \in Nat /\ timers \in TimerRecs(clock) /\ NoTimers \in TimerRecs(clock)
      /\ NoTimers.dead = NoTime /\ NoTimers.unhealthy = NoTime
  BY <1>1, ReadingFacts, NoTimersKept
<1>3. timers' = NoTimers
  BY <1>1 DEF TimersRecent
<1>4. cache' \in CacheReadings
  BY <1>1, NoCacheReads DEF ReconcileTypeOK, CacheReadings
<1>5. ReconcileTypeOK'
  <2>1. /\ timers' \in TimerRecs(clock') /\ dark' \in 0..clock' /\ ill' \in 0..clock'
    BY <1>2, <1>3
  <2>2. /\ rowStatus' \in RowStatuses /\ ever' \in BOOLEAN
        /\ startedAt' \in {NoTime} \union (0..clock')
        /\ flight' \in {"none", "start", "stop"} /\ restarts' \in 0..MaxRestarts
        /\ clock' \in 0..MaxClock /\ ticked' \in BOOLEAN /\ sampled' \in BOOLEAN
        /\ jobs' \in 0..MaxRowJobs
    BY <1>1 DEF ReconcileTypeOK
  <2> QED BY <1>4, <2>1, <2>2 DEF ReconcileTypeOK, CacheReadings, TimerRecs, Times
<1>6. TimersRecent' /\ DeadlineMet'
  BY <1>2, <1>3 DEF TimersRecent, DeadlineMet
<1> QED BY <1>5, <1>6 DEF ReconcileIInv

LEMMA TickKeeps ==
  ASSUME ReconcileIInv, NEW reach \in BOOLEAN, ObserverTick(reach)
  PROVE  ReconcileIInv'
<1>1. CASE cache.known /\ flight = "none"
  BY <1>1, DecidedKeeps
<1>2. CASE ~(cache.known /\ flight = "none")
  <2>1. /\ dark' = clock /\ ill' = clock /\ clock' = clock
        /\ timers' = IF cache.known THEN NoTimers ELSE timers
        /\ cache' = cache /\ rowStatus' = rowStatus /\ ever' = ever /\ startedAt' = startedAt
        /\ restarts' = restarts /\ flight' = flight /\ ticked' = TRUE /\ sampled' = sampled
        /\ jobs' = jobs /\ reboots' = reboots
    BY <1>2 DEF ObserverTick, rowVars, reconcileBounds
  <2>2. reboots' \in 0..MaxReboots
    BY <2>1 DEF ReconcileIInv, ReconcileTypeOK
  <2>3. cache' = NoCache => timers' = NoTimers
    BY <2>1 DEF ReconcileIInv, TimersRecent, NoCache
  <2> QED BY <2>1, <2>2, <2>3, SkipKeeps
<1> QED BY <1>1, <1>2

LEMMA BootKeeps ==
  ASSUME ReconcileIInv, ObserverBoot
  PROVE  ReconcileIInv'
<1>1. /\ dark' = clock /\ ill' = clock /\ clock' = clock /\ timers' = NoTimers
      /\ cache' = NoCache /\ rowStatus' = rowStatus /\ ever' = ever
      /\ startedAt' = startedAt /\ restarts' = restarts /\ flight' = "none"
      /\ ticked' = ticked /\ sampled' = sampled /\ jobs' = jobs
  BY DEF ObserverBoot, rowVars, time
<1>2. reboots' \in 0..MaxReboots
  BY ReconcileAssumption DEF ReconcileIInv, ReconcileTypeOK, ObserverBoot
<1>3. timers' = IF cache.known THEN NoTimers ELSE timers
  BY <1>1 DEF ReconcileIInv, TimersRecent
<1> QED BY <1>1, <1>2, <1>3, SkipKeeps

LEMMA SampleKeeps ==
  ASSUME ReconcileIInv, NEW active \in {"yes", "no", "unknown"}, NEW health \in BOOLEAN,
         NEW n \in {NoTime} \union (0..MaxRestarts), Sample(active, health, n)
  PROVE  ReconcileIInv'
<1>1. ReconcileTypeOK /\ TimersRecent /\ DeadlineMet
  BY DEF ReconcileIInv
<1>2. /\ cache' = [known |-> TRUE, active |-> active, health |-> health, restarts |-> n]
      /\ sampled' = TRUE /\ restarts' \in {restarts, restarts + 1} /\ restarts' <= MaxRestarts
      /\ rowStatus' = rowStatus /\ ever' = ever /\ startedAt' = startedAt
      /\ flight' = flight /\ timers' = timers /\ clock' = clock /\ ticked' = ticked
      /\ jobs' = jobs /\ reboots' = reboots /\ dark' = dark /\ ill' = ill
  BY DEF Sample, rowVars, reconcileBounds, lookout
<1>3. restarts' \in 0..MaxRestarts
  BY <1>1, <1>2, ReconcileAssumption DEF ReconcileTypeOK
<1>4. cache' \in CacheReadings /\ cache'.known
  BY <1>2 DEF CacheReadings
<1>5. ReconcileTypeOK'
  BY <1>1, <1>2, <1>3, <1>4 DEF ReconcileTypeOK, CacheReadings
<1>6. TimersRecent' /\ DeadlineMet'
  BY <1>1, <1>2, <1>4 DEF TimersRecent, DeadlineMet
<1> QED BY <1>5, <1>6 DEF ReconcileIInv

LEMMA SecondKeeps ==
  ASSUME ReconcileIInv, SecondPasses
  PROVE  ReconcileIInv'
<1>1. ReconcileTypeOK /\ TimersRecent
  BY DEF ReconcileIInv
<1>2. /\ clock' = clock + 1 /\ clock < MaxClock /\ ticked' = FALSE /\ sampled' = FALSE
      /\ rowStatus' = rowStatus /\ ever' = ever /\ startedAt' = startedAt
      /\ flight' = flight /\ timers' = timers /\ restarts' = restarts /\ cache' = cache
      /\ jobs' = jobs /\ reboots' = reboots /\ dark' = dark /\ ill' = ill
  BY DEF SecondPasses, rowVars, reconcileBounds, lookout
<1>3. /\ clock \in Nat /\ MaxClock \in Nat /\ dark \in 0..clock /\ ill \in 0..clock
      /\ timers \in TimerRecs(clock) /\ startedAt \in Times(clock)
  BY <1>1, ReadingFacts DEF Times
<1>4. /\ 0..clock \subseteq 0..clock' /\ Times(clock) \subseteq Times(clock')
      /\ clock' \in 0..MaxClock
  BY <1>2, <1>3 DEF Times
<1>5. timers' \in TimerRecs(clock') /\ startedAt' \in Times(clock')
  BY <1>2, <1>3, <1>4 DEF TimerRecs
<1>6. dark' \in 0..clock' /\ ill' \in 0..clock'
  BY <1>2, <1>3, <1>4
<1>7. ReconcileTypeOK'
  BY <1>1, <1>2, <1>4, <1>5, <1>6 DEF ReconcileTypeOK, TimerRecs, Times
<1>8. TimersRecent' /\ DeadlineMet'
  BY <1>1, <1>2 DEF TimersRecent, DeadlineMet
<1> QED BY <1>7, <1>8 DEF ReconcileIInv

(* The jobs move the row, and leave the observer's memory alone.            *)
LEMMA JobsKeep ==
  ASSUME ReconcileIInv, BeginStart \/ EndStart \/ BeginStop \/ EndStop
  PROVE  ReconcileIInv'
<1>1. ReconcileTypeOK /\ TimersRecent /\ DeadlineMet
  BY DEF ReconcileIInv
<1>2. /\ cache' = cache /\ timers' = timers /\ clock' = clock /\ ticked' = ticked
      /\ sampled' = sampled /\ reboots' = reboots /\ dark' = dark /\ ill' = ill
  BY DEF BeginStart, EndStart, BeginStop, EndStop, time, lookout, reconcileBounds
<1>3. /\ rowStatus' \in RowStatuses /\ ever' \in BOOLEAN
      /\ startedAt' \in {NoTime} \union (0..clock)
      /\ flight' \in {"none", "start", "stop"}
  <2>1. /\ rowStatus \in RowStatuses /\ ever \in BOOLEAN /\ clock \in 0..clock
        /\ startedAt \in {NoTime} \union (0..clock)
    BY <1>1, ReadingFacts
  <2> QED BY <2>1 DEF BeginStart, EndStart, BeginStop, EndStop, RowStatuses, rowVars
<1>4. jobs' \in 0..MaxRowJobs /\ restarts' \in 0..MaxRestarts
  BY <1>1, ReconcileAssumption
     DEF ReconcileTypeOK, BeginStart, EndStart, BeginStop, EndStop, reconcileBounds
<1>5. ReconcileTypeOK'
  BY <1>1, <1>2, <1>3, <1>4 DEF ReconcileTypeOK
<1>6. TimersRecent'
  BY <1>1, <1>2 DEF TimersRecent
<1>7. DeadlineMet'
  <2>1. CASE BeginStart
    <3>1. startedAt' = clock /\ clock \in Nat /\ StartDeadline \in Nat
      BY <1>1, <2>1, ReadingFacts, ReconcileAssumption DEF BeginStart
    <3> QED BY <1>2, <3>1 DEF DeadlineMet
  <2>2. CASE EndStart
    BY <1>1, <1>2, <2>2 DEF EndStart, DeadlineMet
  <2>3. CASE BeginStop
    BY <1>1, <1>2, <2>3 DEF BeginStop, DeadlineMet, rowVars
  <2>4. CASE EndStop
    BY <1>1, <1>2, <2>4 DEF EndStop, DeadlineMet
  <2> QED BY <2>1, <2>2, <2>3, <2>4
<1> QED BY <1>5, <1>6, <1>7 DEF ReconcileIInv

LEMMA ReconcileStep ==
  ASSUME ReconcileIInv, [ReconcileNext]_reconcileVars
  PROVE  ReconcileIInv'
<1>1. CASE ReconcileNext
  BY <1>1, TickKeeps, SampleKeeps, SecondKeeps, JobsKeep, BootKeeps DEF ReconcileNext
<1>2. CASE UNCHANGED reconcileVars
  BY <1>2 DEF reconcileVars, ReconcileIInv, ReconcileTypeOK, TimersRecent, DeadlineMet
<1> QED BY <1>1, <1>2

LEMMA ObserverIsKept == ReconcileSpec => []ReconcileIInv
BY ReconcileStart, ReconcileStep, PTL DEF ReconcileSpec

(* The observer keeps its types, and decides nothing that InstanceLifecycle *)
(* leaves no room for, from any timers (services/reconcile.py:94-200).      *)
THEOREM DecisionsAllowed == ReconcileSpec => []ReconcileInv
<1>1. ReconcileIInv => ReconcileInv
  BY VerdictAllowed DEF ReconcileIInv, ReconcileInv
<1> QED BY <1>1, ObserverIsKept, PTL

(* A dead unit or a failing /health is held against a row only for as long  *)
(* as every pass saw exactly that, whatever the periods: time spent blind   *)
(* does not count (tests/test_reconcile.py:120).                            *)
THEOREM DemotionsAreSustained == ReconcileSpec => DemotionSustained
<1>1. ReconcileIInv =>
        [/\ Decides("unit dead")   => clock - dark >= UnitDeadAfter
         /\ Decides("health lost") => clock - ill >= UnhealthyAfter]_reconcileVars
  BY DemotionIsSustained
<1> QED BY <1>1, ObserverIsKept, PTL DEF DemotionSustained

(* A row that never was healthy is `starting` past its deadline only while  *)
(* its node is out of reach, its job runs or its first pass is due, whatever*)
(* restarts of the portal there were (services/instances.py:273-275).       *)
THEOREM DeadlinesSurvive == ReconcileSpec => DeadlineSurvives
<1>1. ReconcileIInv =>
        [SecondPasses /\ rowStatus = "starting" /\ ~ever /\ startedAt # NoTime
         /\ clock - startedAt >= StartDeadline + 1
         => ill = clock]_reconcileVars
  BY DEF ReconcileIInv, DeadlineMet, SecondPasses
<1> QED BY <1>1, ObserverIsKept, PTL DEF DeadlineSurvives
-----------------------------------------------------------------------------
(* Once a tick has seen its action take effect, nothing is pending.         *)
Quieted == settled => pending = NonePending

LEMMA QuietStep == Quieted /\ [Next]_vars => Quieted'
<1> SUFFICES ASSUME Quieted, [Next]_vars, settled' PROVE pending' = NonePending
  BY DEF Quieted
<1>1. CASE TickAct
  <2> DEFINE o == Outcome(tick.open, tick.status)
             r == RetryAction(pending, tick.open, tick.status)
  <2>1. /\ pending' = o.pending /\ o.act = "none"
        /\ settled \/ TakenEffect(pending.act, tick.status)
    BY <1>1 DEF TickAct
  <2>2. o = r
    BY <2>1 DEF Outcome
  <2>3. pending = NonePending \/ Reached(pending.act, tick.status)
    BY <2>1 DEF Quieted, TakenEffect, Reached
  <2>4. r.pending = NonePending
    BY <2>3 DEF RetryAction
  <2> QED
    BY <2>1, <2>2, <2>4
<1>2. CASE TickForget \/ Boot
  BY <1>2 DEF TickForget, Boot
<1>3. CASE Wait
  BY <1>3 DEF Wait, Quieted
<1>4. CASE \/ TickRead \/ Turn \/ (\E act \in Actions : Operate(act))
           \/ StartBegins \/ StartEnds \/ StopRuns \/ Observe
           \/ UNCHANGED vars
  <2>1. UNCHANGED <<pending, settled>>
    BY <1>4 DEF TickRead, Turn, Operate, StartBegins, StartEnds, StopRuns,
                Observe, vars, memory
  <2> QED
    BY <2>1 DEF Quieted
<1> QED
  BY <1>1, <1>2, <1>3, <1>4 DEF Next

(* services/scheduler.py:8-9: once a tick has seen its action take effect,  *)
(* nothing is issued until the next edge.                                   *)
THEOREM SettledIsQuiet == Spec => SettledStays
<1>1. Init => Quieted
  BY DEF Init, Quieted
<1>2. ASSUME Quieted, [Next]_vars
      PROVE  [settled /\ ~Edge(last, tick.open)
                => ~Issues("start") /\ ~Issues("stop")]_vars
  <2> SUFFICES ASSUME settled, ~Edge(last, tick.open)
               PROVE  Outcome(tick.open, tick.status).act = "none"
    BY DEF Issues
  <2>1. Decide(last, tick.open, tick.status) = "none"
    BY DEF Decide
  <2>2. RetryAction(pending, tick.open, tick.status).act = "none"
    BY <1>2 DEF Quieted, RetryAction
  <2> QED
    BY <2>1, <2>2 DEF Outcome
<1> QED
  BY <1>1, <1>2, QuietStep, PTL DEF Spec, SettledStays
-----------------------------------------------------------------------------
LEMMA DayPart ==
  ASSUME NEW t \in Nat
  PROVE  /\ t \div Minutes \in Nat /\ t % Minutes \in 0..(Minutes - 1)
         /\ t = (t \div Minutes) * Minutes + (t % Minutes)
<1>1. Minutes \in Nat /\ Minutes > 0
  BY WindowsAssumption
<1>2. t \div Minutes \in Int /\ t % Minutes \in 0..(Minutes - 1)
  BY <1>1
<1>3. t = (t \div Minutes) * Minutes + (t % Minutes)
  BY <1>1
<1>4. t \div Minutes \in Nat
  BY <1>1
<1> QED
  BY <1>2, <1>3, <1>4

LEMMA Later ==
  ASSUME NEW a \in Nat, NEW b \in Nat, a < b, NEW m \in Nat
  PROVE  a * m \in Nat /\ b * m \in Nat /\ a * m + m <= b * m
<1>1. b * m = a * m + m + (b - a - 1) * m
  OBVIOUS
<1>2. (b - a - 1) * m >= 0
  OBVIOUS
<1> QED
  BY <1>1, <1>2

LEMMA OneWay ==
  ASSUME NEW m \in Nat, NEW a \in Nat, NEW b \in Nat, NEW r \in 0..(m - 1),
         NEW s \in 0..(m - 1), a * m + r = b * m + s
  PROVE  a = b /\ r = s
<1>1. ~(a < b)
  BY Later
<1>2. ~(b < a)
  BY Later
<1>3. a = b
  BY <1>1, <1>2
<1>4. a * m \in Nat
  OBVIOUS
<1> QED
  BY <1>3, <1>4

LEMMA DayAt ==
  ASSUME NEW d \in Nat, NEW r \in 0..(Minutes - 1)
  PROVE  /\ d * Minutes + r \in Nat
         /\ Weekday(d * Minutes + r) = d /\ TimeOfDay(d * Minutes + r) = r
<1>1. d * Minutes + r \in Nat
  BY WindowsAssumption
<1> QED
  BY <1>1, DayPart, OneWay, WindowsAssumption DEF Weekday, TimeOfDay

LEMMA SmallMod ==
  ASSUME NEW w \in Nat, NEW t \in Nat, t < w
  PROVE  t % w = t
OBVIOUS

LEMMA OnceRound ==
  ASSUME NEW w \in Nat, NEW t \in Nat, w <= t, t < 2 * w
  PROVE  t % w = t - w
OBVIOUS

(* Numbers below twice w, taken modulo w.                                   *)
LEMMA Round ==
  ASSUME NEW w \in Nat, NEW t \in 0..(2 * w - 1)
  PROVE  t % w = IF t < w THEN t ELSE t - w
<1>1. CASE t < w
  BY <1>1, SmallMod
<1>2. CASE ~(t < w)
  <2>1. t \in Nat /\ w <= t /\ t < 2 * w
    BY <1>2
  <2> QED
    BY <1>2, <2>1, OnceRound
<1> QED
  BY <1>1, <1>2

LEMMA WeekNat == Week \in Nat /\ Days \in Nat /\ Days > 1 /\ Minutes \in Nat /\ Minutes > 0
BY WindowsAssumption DEF Week

(* A moment of this week or the next, as its day and its time of day.       *)
LEMMA DayOf ==
  ASSUME NEW t \in 0..(2 * Week - 1)
  PROVE  /\ Weekday(t) \in 0..(2 * Days - 1) /\ TimeOfDay(t) \in TimesOfDay
         /\ t = Weekday(t) * Minutes + TimeOfDay(t)
         /\ t < Week <=> Weekday(t) < Days
<1> DEFINE d == Weekday(t)
           r == TimeOfDay(t)
<1>1. /\ d \in Nat /\ r \in 0..(Minutes - 1) /\ t = d * Minutes + r /\ t \in Nat
  BY DayPart, WeekNat DEF Weekday, TimeOfDay
<1> HIDE DEF d, r
<1>2. ASSUME NEW e \in Nat PROVE d < e <=> t < e * Minutes
  <2>1. d < e => d * Minutes + Minutes <= e * Minutes
    BY <1>1, Later, WeekNat
  <2>2. ~(d < e) => e * Minutes <= d * Minutes
    <3>1. CASE d = e
      BY <3>1, WeekNat
    <3>2. CASE e < d
      BY <1>1, <3>2, Later, WeekNat
    <3> QED
      BY <1>1, <3>1, <3>2
  <2>3. d * Minutes \in Nat /\ e * Minutes \in Nat
    BY <1>1, WeekNat
  <2> QED
    BY <1>1, <2>1, <2>2, <2>3, WeekNat
<1>3. d < Days <=> t < Week
  BY <1>2, WeekNat DEF Week
<1>4. d < 2 * Days
  <2>1. (2 * Days) * Minutes = 2 * Week /\ 2 * Days \in Nat
    BY WeekNat DEF Week
  <2>2. t < 2 * Week
    BY WeekNat
  <2> QED
    BY <1>2, <2>1, <2>2
<1> QED
  BY <1>1, <1>3, <1>4, WeekNat DEF d, r, TimesOfDay

(* The week closes on itself.                                               *)
LEMMA WeekRound ==
  ASSUME NEW t \in 0..(2 * Week - 1)
  PROVE  /\ t % Week \in 0..(Week - 1)
         /\ Weekday(t % Week) = IF Weekday(t) < Days THEN Weekday(t) ELSE Weekday(t) - Days
         /\ TimeOfDay(t % Week) = TimeOfDay(t)
<1>1. /\ Weekday(t) \in 0..(2 * Days - 1) /\ TimeOfDay(t) \in TimesOfDay
      /\ t = Weekday(t) * Minutes + TimeOfDay(t)
      /\ t < Week <=> Weekday(t) < Days
  BY DayOf
<1>2. t % Week = IF t < Week THEN t ELSE t - Week
  BY Round, WeekNat
<1>3. CASE t < Week
  BY <1>1, <1>2, <1>3, WeekNat
<1>4. CASE ~(t < Week)
  <2>1. t % Week = t - Week /\ t - Week \in 0..(Week - 1)
    BY <1>2, <1>4, WeekNat
  <2>2. PICK d \in Nat : d = Weekday(t) - Days
    BY <1>1, <1>4, WeekNat
  <2>3. t - Week = d * Minutes + TimeOfDay(t)
    <3>1. Weekday(t) * Minutes = d * Minutes + Days * Minutes
      BY <1>1, <2>2, WeekNat
    <3>2. d * Minutes \in Nat /\ TimeOfDay(t) \in Nat
      BY <1>1, WeekNat DEF TimesOfDay
    <3> QED
      <4>1. PICK a \in Nat : a = d * Minutes
        BY <3>2
      <4>2. Weekday(t) * Minutes = a + Week
        BY <3>1, <4>1 DEF Week
      <4>3. t = a + Week + TimeOfDay(t)
        BY <1>1, <4>2
      <4> QED
        BY <3>2, <4>1, <4>3, WeekNat
  <2>4. Weekday(t % Week) = d /\ TimeOfDay(t % Week) = TimeOfDay(t)
    BY <1>1, <2>1, <2>3, DayAt DEF TimesOfDay
  <2> QED
    BY <1>1, <1>4, <2>1, <2>2, <2>4
<1> QED
  BY <1>3, <1>4

-----------------------------------------------------------------------------
DayInWeek(d) == IF d < Days THEN d ELSE d - Days
DayBefore(d) == IF d = 0 THEN Days - 1 ELSE DayInWeek(d - 1)

(* window_active on a day of this week or the next, at a time of day.       *)
Live(s, d, r) ==
  IF s.start < s.end
  THEN DayInWeek(d) \in s.days /\ s.start <= r /\ r < s.end
  ELSE \/ DayInWeek(d) \in s.days /\ r >= s.start
       \/ DayBefore(d) \in s.days /\ r < s.end

LEMMA Yesterday ==
  ASSUME NEW d \in 0..(2 * Days - 1)
  PROVE  /\ d % Days = DayInWeek(d)
         /\ DayInWeek(d) \in Weekdays /\ DayBefore(d) \in Weekdays
         /\ (DayInWeek(d) + Days - 1) % Days = DayBefore(d)
<1>1. d % Days = DayInWeek(d)
  BY Round, WeekNat DEF DayInWeek
<1>2. DayInWeek(d) \in 0..(Days - 1) /\ DayBefore(d) \in 0..(Days - 1)
  BY WeekNat DEF DayInWeek, DayBefore
<1>3. PICK e \in 0..(2 * Days - 1) : e = DayInWeek(d) + Days - 1
  BY <1>2, WeekNat
<1>4. e % Days = IF e < Days THEN e ELSE e - Days
  BY Round, WeekNat
<1>5. (IF e < Days THEN e ELSE e - Days) = DayBefore(d)
  BY <1>2, <1>3, WeekNat DEF DayInWeek, DayBefore
<1> QED
  BY <1>1, <1>2, <1>3, <1>4, <1>5 DEF Weekdays

LEMMA ActiveIsLive ==
  ASSUME NEW t \in 0..(2 * Week - 1), NEW s
  PROVE  WindowActive(s, t % Week) <=> Live(s, Weekday(t), TimeOfDay(t))
<1>1. /\ Weekday(t % Week) = DayInWeek(Weekday(t))
      /\ TimeOfDay(t % Week) = TimeOfDay(t)
  BY WeekRound DEF DayInWeek
<1>2. Weekday(t) \in 0..(2 * Days - 1)
  BY DayOf
<1>3. (DayInWeek(Weekday(t)) + Days - 1) % Days = DayBefore(Weekday(t))
  BY <1>2, Yesterday
<1> QED
  BY <1>1, <1>3 DEF WindowActive, Live

(* A day's own time of day, or the next day's.                              *)
LEMMA Spot ==
  ASSUME NEW d \in Weekdays, NEW m \in 0..(2 * Minutes - 1)
  PROVE  /\ d * Minutes + m \in 0..(2 * Week - 1)
         /\ m < Minutes => /\ Weekday(d * Minutes + m) = d
                           /\ TimeOfDay(d * Minutes + m) = m
         /\ m >= Minutes => /\ Weekday(d * Minutes + m) = d + 1
                            /\ TimeOfDay(d * Minutes + m) = m - Minutes
<1>1. d \in Nat /\ d < Days /\ m \in Nat /\ 0 \in Nat
  BY WeekNat DEF Weekdays
<1>2. d * Minutes \in Nat /\ d * Minutes + Minutes <= Days * Minutes
  BY <1>1, Later, WeekNat
<1>3. 0 * Minutes + Minutes <= Days * Minutes
  BY <1>1, Later, WeekNat
<1>4. d * Minutes + m \in 0..(2 * Week - 1)
  <2>1. PICK a \in Nat : a = d * Minutes
    BY <1>2
  <2>2. a + Minutes <= Week /\ Minutes <= Week
    BY <1>2, <1>3, <2>1, WeekNat DEF Week
  <2>3. a + m \in 0..(2 * Week - 1)
    BY <1>1, <2>2, WeekNat
  <2> QED
    BY <2>1, <2>3
<1>5. ASSUME m < Minutes
      PROVE  Weekday(d * Minutes + m) = d /\ TimeOfDay(d * Minutes + m) = m
  <2>1. m \in 0..(Minutes - 1)
    BY <1>1, <1>5, WeekNat
  <2> QED
    BY <1>1, <2>1, DayAt
<1>6. ASSUME m >= Minutes
      PROVE  /\ Weekday(d * Minutes + m) = d + 1
             /\ TimeOfDay(d * Minutes + m) = m - Minutes
  <2>1. m - Minutes \in 0..(Minutes - 1) /\ d + 1 \in Nat
    BY <1>1, <1>6, WeekNat
  <2>2. (d + 1) * Minutes + (m - Minutes) = d * Minutes + m
    BY <1>1, <2>1, WeekNat
  <2>3. /\ Weekday((d + 1) * Minutes + (m - Minutes)) = d + 1
        /\ TimeOfDay((d + 1) * Minutes + (m - Minutes)) = m - Minutes
    BY <2>1, DayAt
  <2> QED
    BY <2>2, <2>3
<1> QED
  BY <1>4, <1>5, <1>6

ScheduleRows == [days : SUBSET Weekdays, start : TimesOfDay, end : TimesOfDay,
                 enabled : BOOLEAN]

LEMMA RowFields ==
  ASSUME NEW s \in ScheduleRows
  PROVE  /\ s.days \subseteq Weekdays
         /\ s.start \in Nat /\ s.start < Minutes /\ s.end \in Nat /\ s.end < Minutes
<1>1. s.days \subseteq Weekdays /\ s.start \in TimesOfDay /\ s.end \in TimesOfDay
  BY DEF ScheduleRows
<1> QED
  BY <1>1, WeekNat DEF TimesOfDay

LEMMA LengthFacts ==
  ASSUME NEW s \in ScheduleRows
  PROVE  /\ Length(s) \in Nat
         /\ s.start < s.end => s.start + Length(s) = s.end
         /\ ~(s.start < s.end) => s.start + Length(s) = s.end + Minutes
BY RowFields, WeekNat DEF Length

(* A window that is stretched out from its start is where it is live.       *)
LEMMA StretchIsActive ==
  ASSUME NEW s \in ScheduleRows, NEW t \in Stretch(s)
  PROVE  WindowActive(s, t)
<1>1. PICK d \in s.days, k \in 0..(Length(s) - 1) :
        t = (d * Minutes + s.start + k) % Week
  BY DEF Stretch
<1>2. /\ d \in Weekdays /\ d \in Nat /\ d < Days
  BY RowFields, WeekNat DEF Weekdays
<1>3. PICK m \in Nat : m = s.start + k
  BY RowFields
<1>4. /\ m \in 0..(2 * Minutes - 1) /\ s.start <= m
      /\ s.start < s.end => m < s.end /\ m < Minutes
      /\ ~(s.start < s.end) => m < s.end + Minutes
  BY <1>3, RowFields, LengthFacts, WeekNat
<1>5. PICK x \in {d * Minutes + m} : x = d * Minutes + m
  OBVIOUS
<1>6. t = x % Week
  <2>1. d * Minutes \in Nat
    BY <1>2, WeekNat
  <2>2. d * Minutes + s.start + k = d * Minutes + m
    BY <1>3, <2>1, RowFields
  <2> QED
    BY <1>1, <1>5, <2>2
<1>7. /\ x \in 0..(2 * Week - 1)
      /\ m < Minutes => Weekday(x) = d /\ TimeOfDay(x) = m
      /\ m >= Minutes => Weekday(x) = d + 1 /\ TimeOfDay(x) = m - Minutes
  BY <1>2, <1>4, <1>5, Spot
<1>8. WindowActive(s, t) <=> Live(s, Weekday(x), TimeOfDay(x))
  BY <1>6, <1>7, ActiveIsLive
<1>9. DayInWeek(d) = d /\ DayBefore(d + 1) = d
  BY <1>2, WeekNat DEF DayInWeek, DayBefore
<1>10. CASE m < Minutes
  <2>1. Weekday(x) = d /\ TimeOfDay(x) = m
    BY <1>7, <1>10
  <2>2. Live(s, d, m)
    BY <1>4, <1>9, <1>10 DEF Live
  <2> QED
    BY <1>8, <2>1, <2>2
<1>11. CASE m >= Minutes
  <2>1. Weekday(x) = d + 1 /\ TimeOfDay(x) = m - Minutes
    BY <1>7, <1>11
  <2>2. ~(s.start < s.end) /\ m - Minutes < s.end
    BY <1>4, <1>11, RowFields, WeekNat
  <2>3. Live(s, d + 1, m - Minutes)
    BY <1>9, <2>2 DEF Live
  <2> QED
    BY <1>8, <2>1, <2>3
<1> QED
  BY <1>4, <1>10, <1>11, WeekNat

LEMMA ActiveIsInStretch ==
  ASSUME NEW s \in ScheduleRows, NEW t \in 0..(Week - 1), WindowActive(s, t)
  PROVE  t \in Stretch(s)
<1>1. t \in 0..(2 * Week - 1) /\ t % Week = t
  BY SmallMod, WeekNat
<1>2. PICK d \in Nat, r \in Nat : d = Weekday(t) /\ r = TimeOfDay(t)
  BY <1>1, DayOf, WeekNat DEF TimesOfDay
<1>3. /\ r < Minutes /\ t = d * Minutes + r /\ d < Days /\ d * Minutes \in Nat
  BY <1>1, <1>2, DayOf, WeekNat DEF TimesOfDay
<1>4. Live(s, d, r)
  BY <1>1, <1>2, ActiveIsLive
<1>5. DayInWeek(d) = d
  BY <1>3 DEF DayInWeek
<1>6. SUFFICES \E e \in s.days, k \in 0..(Length(s) - 1) :
                 t = (e * Minutes + s.start + k) % Week
  BY DEF Stretch
<1>7. CASE d \in s.days /\ s.start <= r /\ (s.start < s.end => r < s.end)
  <2>1. PICK k \in Nat : k = r - s.start
    BY <1>7, RowFields
  <2>2. k \in 0..(Length(s) - 1)
    BY <1>3, <1>7, <2>1, RowFields, LengthFacts, WeekNat
  <2>3. d * Minutes + s.start + k = t
    BY <1>3, <2>1, RowFields
  <2> QED
    BY <1>1, <1>7, <2>2, <2>3
<1>8. CASE DayBefore(d) \in s.days /\ r < s.end /\ ~(s.start < s.end)
  <2>1. PICK k \in Nat : k = r + Minutes - s.start
    BY RowFields, WeekNat
  <2>2. k \in 0..(Length(s) - 1)
    BY <1>3, <1>8, <2>1, RowFields, LengthFacts, WeekNat
  <2>3. PICK e \in Nat : e = DayBefore(d) /\ e \in s.days
    BY <1>8, RowFields, WeekNat DEF Weekdays
  <2>4. e * Minutes \in Nat /\ e * Minutes + s.start + k = (e + 1) * Minutes + r
    <3>1. e * Minutes \in Nat /\ (e + 1) * Minutes = e * Minutes + Minutes
      BY WeekNat
    <3> QED
      BY <2>1, <3>1, RowFields, WeekNat
  <2>5. CASE d = 0
    <3>1. e + 1 = Days
      BY <2>3, <2>5, WeekNat DEF DayBefore
    <3>2. (e + 1) * Minutes = Week /\ t = r
      BY <1>3, <2>5, <3>1, WeekNat DEF Week
    <3>3. PICK y \in 0..(2 * Week - 1) : y = Week + r /\ y - Week = t /\ ~(y < Week)
      BY <3>2, WeekNat
    <3>4. y % Week = t
      BY <3>3, Round, WeekNat
    <3> QED
      BY <2>2, <2>3, <2>4, <3>2, <3>3, <3>4
  <2>6. CASE d # 0
    <3>1. e + 1 = d
      BY <1>3, <2>3, <2>6, WeekNat DEF DayBefore, DayInWeek
    <3>2. e * Minutes + s.start + k = t
      BY <1>3, <2>4, <3>1
    <3> QED
      BY <1>1, <2>2, <2>3, <3>2
  <2> QED
    BY <2>5, <2>6
<1> QED
  BY <1>4, <1>5, <1>7, <1>8 DEF Live

-----------------------------------------------------------------------------
WindowsIInv == schedules \in [Schedules -> ScheduleRows] /\ now \in 0..(Week - 1)

LEMMA ActiveHolds == WindowsIInv => ActiveIsStretch
<1> SUFFICES ASSUME WindowsIInv PROVE ActiveIsStretch
  OBVIOUS
<1>1. ASSUME NEW i \in Enabled
      PROVE  WindowActive(schedules[i], now) <=> now \in Stretch(schedules[i])
  <2>1. schedules[i] \in ScheduleRows /\ now \in 0..(Week - 1)
    BY DEF WindowsIInv, Enabled
  <2> QED
    BY <2>1, StretchIsActive, ActiveIsInStretch
<1> QED
  BY <1>1 DEF ActiveIsStretch, DesiredState

(* An opening: a day and a start time of an enabled schedule.               *)
Opens(c) == \E i \in Enabled : /\ Weekday(c) % Days \in schedules[i].days
                               /\ TimeOfDay(c) = schedules[i].start

LEMMA CandidateFacts ==
  ASSUME WindowsIInv, NEW c \in Candidates(now)
  PROVE  c \in 0..(2 * Week - 1) /\ c > now /\ Opens(c)
<1>1. PICK offset \in Offsets, i \in Enabled :
        c = (Weekday(now) + offset) * Minutes + schedules[i].start
  BY DEF Candidates
<1>2. c > now /\ Opens(c)
  BY DEF Candidates, Opens
<1>3. now \in 0..(2 * Week - 1) /\ now < Week
  BY WeekNat DEF WindowsIInv
<1>4. Weekday(now) \in Nat /\ Weekday(now) < Days
  BY <1>3, DayOf, WeekNat
<1>5. schedules[i].start \in Nat /\ schedules[i].start < Minutes
  BY RowFields DEF WindowsIInv, Enabled
<1>6. PICK e \in Nat : e = Weekday(now) + offset /\ e < 2 * Days
  BY <1>4, WeekNat DEF Offsets
<1>7. e * Minutes + Minutes <= (2 * Days) * Minutes /\ e * Minutes \in Nat
  BY <1>6, Later, WeekNat
<1>8. (2 * Days) * Minutes = 2 * Week
  BY WeekNat DEF Week
<1>9. c \in Nat /\ c < 2 * Week
  <2>1. PICK a \in Nat : a = e * Minutes
    BY <1>7
  <2>2. c = a + schedules[i].start /\ a + Minutes <= 2 * Week
    BY <1>1, <1>6, <1>7, <1>8, <2>1
  <2> QED
    BY <1>5, <2>2, WeekNat
<1> QED
  BY <1>2, <1>9, WeekNat

LEMMA OpeningIsCandidate ==
  ASSUME WindowsIInv, NEW i \in Enabled, NEW d \in 0..(2 * Days - 1),
         DayInWeek(d) \in schedules[i].days, d <= Weekday(now) + Days,
         d * Minutes + schedules[i].start > now
  PROVE  d * Minutes + schedules[i].start \in Candidates(now)
<1>1. schedules[i].start \in 0..(Minutes - 1)
  BY RowFields, WeekNat DEF WindowsIInv, Enabled
<1>2. PICK c \in Nat : c = d * Minutes + schedules[i].start
  BY <1>1, DayAt, WeekNat
<1>3. Weekday(c) = d /\ TimeOfDay(c) = schedules[i].start
  BY <1>1, <1>2, DayAt, WeekNat
<1>4. now \in 0..(2 * Week - 1) /\ now \in Nat
  BY WeekNat DEF WindowsIInv
<1>5. /\ Weekday(now) \in Nat /\ TimeOfDay(now) \in Nat /\ TimeOfDay(now) < Minutes
      /\ now = Weekday(now) * Minutes + TimeOfDay(now)
  BY <1>4, DayOf, WeekNat DEF TimesOfDay
<1>6. Weekday(now) <= d
  <2> SUFFICES ASSUME d < Weekday(now) PROVE FALSE
    BY <1>5, WeekNat
  <2>1. d * Minutes + Minutes <= Weekday(now) * Minutes /\ d * Minutes \in Nat
        /\ Weekday(now) * Minutes \in Nat
    BY <1>5, Later, WeekNat
  <2> QED
    BY <1>1, <1>5, <2>1, WeekNat
<1>7. PICK offset \in Offsets : d = Weekday(now) + offset
  <2>1. d - Weekday(now) \in Offsets /\ d = Weekday(now) + (d - Weekday(now))
    BY <1>5, <1>6, WeekNat DEF Offsets
  <2> QED
    BY <2>1
<1>8. Opens(c)
  BY <1>3, Yesterday DEF Opens
<1>9. c = (Weekday(now) + offset) * Minutes + schedules[i].start /\ c > now
  BY <1>2, <1>7
<1> QED
  BY <1>2, <1>8, <1>9 DEF Candidates, Opens

LEMMA EarliestOpening ==
  ASSUME NEW S \in SUBSET Nat, S # {}
  PROVE  \E c \in S : \A d \in S : c <= d
<1>1. PICK c \in S : \A d \in S : ~(<<d, c>> \in OpToRel(<, Nat))
  BY NatLessThanWellFounded, WFMin
<1>2. \A d \in S : ~(d < c)
  BY <1>1 DEF OpToRel
<1> QED
  BY <1>2

LEMMA NextFacts ==
  ASSUME WindowsIInv
  PROVE  /\ NextWindowOpen(now) # Unending => NextWindowOpen(now) \in Candidates(now)
         /\ \A c \in Candidates(now) : NextWindowOpen(now) <= c
<1>1. Candidates(now) \in SUBSET Nat
  BY CandidateFacts
<1>2. CASE Candidates(now) = {}
  BY <1>2 DEF NextWindowOpen
<1>3. CASE Candidates(now) # {}
  <2>1. \E c \in Candidates(now) : \A d \in Candidates(now) : c <= d
    BY <1>1, <1>3, EarliestOpening
  <2>2. NextWindowOpen(now) =
          CHOOSE c \in Candidates(now) : \A d \in Candidates(now) : c <= d
    BY <1>3 DEF NextWindowOpen
  <2>3. /\ NextWindowOpen(now) \in Candidates(now)
        /\ \A d \in Candidates(now) : NextWindowOpen(now) <= d
    BY <2>1, <2>2
  <2> QED
    BY <2>3
<1> QED
  BY <1>2, <1>3

(* What is announced is a moment the instance is live.                      *)
LEMMA OpeningIsLive ==
  ASSUME WindowsIInv, NEW c \in Candidates(now)
  PROVE  DesiredState(c % Week)
<1>1. c \in 0..(2 * Week - 1) /\ Opens(c)
  BY CandidateFacts
<1>2. PICK i \in Enabled : /\ Weekday(c) % Days \in schedules[i].days
                           /\ TimeOfDay(c) = schedules[i].start
  BY <1>1 DEF Opens
<1>3. Weekday(c) \in 0..(2 * Days - 1)
  BY <1>1, DayOf
<1>4. DayInWeek(Weekday(c)) \in schedules[i].days
  BY <1>2, <1>3, Yesterday
<1>5. schedules[i].start \in Nat /\ schedules[i].end \in Nat
  BY RowFields DEF WindowsIInv, Enabled
<1>6. Live(schedules[i], Weekday(c), TimeOfDay(c))
  BY <1>2, <1>4, <1>5 DEF Live
<1> QED
  BY <1>1, <1>6, ActiveIsLive DEF DesiredState

(* Of two moments the earlier is on an earlier day, or earlier on that day. *)
LEMMA Ordered ==
  ASSUME NEW t \in 0..(2 * Week - 1), NEW u \in 0..(2 * Week - 1), t < u
  PROVE  \/ Weekday(t) < Weekday(u)
         \/ Weekday(t) = Weekday(u) /\ TimeOfDay(t) < TimeOfDay(u)
<1>1. PICK d \in Nat, r \in Nat : d = Weekday(t) /\ r = TimeOfDay(t)
  BY DayOf, WeekNat DEF TimesOfDay
<1>2. PICK e \in Nat, s \in Nat : e = Weekday(u) /\ s = TimeOfDay(u)
  BY DayOf, WeekNat DEF TimesOfDay
<1>3. /\ t = d * Minutes + r /\ u = e * Minutes + s /\ r < Minutes /\ s < Minutes
  BY <1>1, <1>2, DayOf, WeekNat DEF TimesOfDay
<1>4. ~(e < d)
  <2> SUFFICES ASSUME e < d PROVE FALSE
    OBVIOUS
  <2>1. e * Minutes + Minutes <= d * Minutes /\ d * Minutes \in Nat
        /\ e * Minutes \in Nat
    BY Later, WeekNat
  <2> QED
    BY <1>3, <2>1, WeekNat
<1>5. e = d => r < s
  <2>1. d * Minutes \in Nat
    BY WeekNat
  <2> QED
    BY <1>3, <2>1
<1> QED
  BY <1>1, <1>2, <1>4, <1>5

(* A window that is live at a later moment is live now, or opens between.   *)
LEMMA LaterOpens ==
  ASSUME WindowsIInv, NEW t \in Nat, now < t, t <= now + Week,
         NEW i \in Enabled, Live(schedules[i], Weekday(t), TimeOfDay(t))
  PROVE  \/ Live(schedules[i], Weekday(now), TimeOfDay(now))
         \/ \E c \in Candidates(now) : c <= t
<1>1. /\ schedules[i] \in ScheduleRows /\ now \in 0..(2 * Week - 1) /\ now < Week
      /\ t \in 0..(2 * Week - 1)
  BY WeekNat DEF WindowsIInv, Enabled
<1>2. PICK s \in ScheduleRows : s = schedules[i]
  BY <1>1
<1>3. /\ s.start \in Nat /\ s.start < Minutes /\ s.end \in Nat /\ s.end < Minutes
  BY RowFields
<1>4. PICK d \in Nat, r \in Nat : d = Weekday(now) /\ r = TimeOfDay(now)
  BY <1>1, DayOf, WeekNat DEF TimesOfDay
<1>5. PICK e \in Nat, q \in Nat : e = Weekday(t) /\ q = TimeOfDay(t)
  BY <1>1, DayOf, WeekNat DEF TimesOfDay
<1>6. /\ d < Days /\ r < Minutes /\ e < 2 * Days /\ q < Minutes
      /\ now = d * Minutes + r /\ t = e * Minutes + q
      /\ d < e \/ (d = e /\ r < q)
  BY <1>1, <1>4, <1>5, DayOf, Ordered, WeekNat DEF TimesOfDay
<1>7. e <= d + Days
  <2> SUFFICES ASSUME d + Days < e PROVE FALSE
    BY <1>6, WeekNat
  <2>1. (d + Days) * Minutes + Minutes <= e * Minutes
    BY Later, WeekNat
  <2>2. PICK a \in Nat : a = d * Minutes
    BY WeekNat
  <2>3. (d + Days) * Minutes = a + Week
    BY <2>2, WeekNat DEF Week
  <2>4. e * Minutes \in Nat
    BY WeekNat
  <2> QED
    BY <1>6, <2>1, <2>2, <2>3, <2>4, WeekNat
<1>8. Live(s, e, q)
  BY <1>2, <1>5
<1>9. ASSUME NEW f \in 0..(2 * Days - 1), DayInWeek(f) \in s.days, f <= d + Days,
             f * Minutes + s.start > now, f * Minutes + s.start <= t
      PROVE  \E c \in Candidates(now) : c <= t
  BY <1>2, <1>4, <1>9, OpeningIsCandidate
<1>10. CASE DayInWeek(e) \in s.days /\ s.start <= q /\ (s.start < s.end => q < s.end)
  <2>1. e * Minutes + s.start <= t
    <3>1. e * Minutes \in Nat
      BY WeekNat
    <3> QED
      BY <1>3, <1>6, <1>10, <3>1
  <2>2. e \in 0..(2 * Days - 1)
    BY <1>6, WeekNat
  <2>3. CASE e * Minutes + s.start > now
    BY <1>7, <1>9, <1>10, <2>1, <2>2, <2>3
  <2>4. CASE ~(e * Minutes + s.start > now)
    <3>1. e = d /\ s.start <= r /\ r < q
      <4>1. d * Minutes \in Nat /\ e * Minutes \in Nat
        BY WeekNat
      <4>2. ~(d < e)
        <5> SUFFICES ASSUME d < e PROVE FALSE
          OBVIOUS
        <5>1. d * Minutes + Minutes <= e * Minutes
          BY Later, WeekNat
        <5> QED
          BY <1>3, <1>6, <2>4, <4>1, <5>1, WeekNat
      <4> QED
        BY <1>3, <1>6, <2>4, <4>1, <4>2
    <3>2. Live(s, d, r)
      BY <1>3, <1>10, <3>1 DEF Live
    <3> QED
      BY <1>2, <1>4, <3>2
  <2> QED
    BY <2>3, <2>4
<1>11. CASE DayBefore(e) \in s.days /\ q < s.end /\ ~(s.start < s.end)
  <2>1. CASE d = e
    <3>1. Live(s, d, r)
      BY <1>3, <1>6, <1>11, <2>1 DEF Live
    <3> QED
      BY <1>2, <1>4, <3>1
  <2>2. CASE d < e
    <3>1. PICK f \in Nat : e = f + 1
      BY <2>2
    <3>2. /\ f \in 0..(2 * Days - 1) /\ f <= d + Days /\ d <= f /\ DayInWeek(f) \in s.days
      BY <1>6, <1>7, <1>11, <2>2, <3>1, WeekNat DEF DayBefore
    <3>3. /\ f * Minutes \in Nat /\ e * Minutes = f * Minutes + Minutes
      BY <3>1, WeekNat
    <3>4. f * Minutes + s.start <= t
      BY <1>3, <1>6, <3>3, WeekNat
    <3>5. CASE f * Minutes + s.start > now
      BY <1>9, <3>2, <3>4, <3>5
    <3>6. CASE ~(f * Minutes + s.start > now)
      <4>1. d = f
        <5> SUFFICES ASSUME d < f PROVE FALSE
          BY <3>2
        <5>1. d * Minutes + Minutes <= f * Minutes /\ d * Minutes \in Nat
          BY Later, WeekNat
        <5> QED
          BY <1>3, <1>6, <3>3, <3>6, <5>1, WeekNat
      <4>2. s.start <= r
        BY <1>3, <1>6, <3>3, <3>6, <4>1
      <4>3. Live(s, d, r)
        BY <1>3, <1>11, <3>2, <4>1, <4>2 DEF Live
      <4> QED
        BY <1>2, <1>4, <4>3
    <3> QED
      BY <3>5, <3>6
  <2> QED
    BY <1>6, <2>1, <2>2
<1> QED
  BY <1>3, <1>8, <1>10, <1>11 DEF Live

LEMMA NextHolds == WindowsIInv => AnnouncedIsNext
<1> SUFFICES ASSUME WindowsIInv, ~DesiredState(now) PROVE
      /\ NextWindowOpen(now) # Unending => DesiredState(NextWindowOpen(now) % Week)
      /\ \A t \in now..(now + Week) : t < NextWindowOpen(now) => ~DesiredState(t % Week)
  BY DEF AnnouncedIsNext
<1>1. now \in 0..(2 * Week - 1) /\ now < Week /\ now \in Nat /\ now % Week = now
  BY SmallMod, WeekNat DEF WindowsIInv
<1>2. /\ NextWindowOpen(now) # Unending => NextWindowOpen(now) \in Candidates(now)
      /\ \A c \in Candidates(now) : NextWindowOpen(now) <= c
  BY NextFacts
<1>3. NextWindowOpen(now) # Unending => DesiredState(NextWindowOpen(now) % Week)
  BY <1>2, OpeningIsLive
<1>4. NextWindowOpen(now) \in Nat
  BY <1>2, CandidateFacts, WeekNat DEF Unending
<1>5. ASSUME NEW t \in now..(now + Week), t < NextWindowOpen(now), DesiredState(t % Week)
      PROVE  FALSE
  <2>1. t \in 0..(2 * Week - 1) /\ t \in Nat /\ now <= t /\ t <= now + Week
    BY <1>1, WeekNat
  <2>2. now < t
    BY <1>1, <1>5, <2>1
  <2>3. PICK i \in Enabled : WindowActive(schedules[i], t % Week)
    BY <1>5 DEF DesiredState
  <2>4. Live(schedules[i], Weekday(t), TimeOfDay(t))
    BY <2>1, <2>3, ActiveIsLive
  <2>5. CASE Live(schedules[i], Weekday(now), TimeOfDay(now))
    <3>1. WindowActive(schedules[i], now % Week)
      BY <1>1, <2>5, ActiveIsLive
    <3> QED
      BY <1>1, <3>1 DEF DesiredState
  <2>6. CASE \E c \in Candidates(now) : c <= t
    <3>1. PICK c \in Candidates(now) : c <= t
      BY <2>6
    <3>2. c \in Nat
      BY CandidateFacts, WeekNat
    <3> QED
      BY <1>2, <1>4, <1>5, <2>1, <3>1, <3>2
  <2> QED
    BY <2>1, <2>2, <2>4, <2>5, <2>6, LaterOpens
<1> QED
  BY <1>3, <1>5

(* For weeks of any length and days of any length, any schedules and any    *)
(* minute: window_active is membership of the window's stretch, over        *)
(* midnight and over the week's end, and what next_window_open announces is *)
(* the first live moment (services/scheduler.py:44-120).                    *)
THEOREM CalendarIsRight == WindowsSpec => []WindowsInv
<1>1. WindowsInit => WindowsIInv
  BY DEF WindowsInit, WindowsIInv, ScheduleRows
<1>2. WindowsIInv /\ [WindowsNext]_windowsVars => WindowsIInv'
  <2> SUFFICES ASSUME WindowsIInv, [WindowsNext]_windowsVars PROVE WindowsIInv'
    OBVIOUS
  <2>1. CASE MinutePasses
    <3>1. now + 1 \in 0..(2 * Week - 1)
      BY WeekNat DEF WindowsIInv
    <3>2. (now + 1) % Week \in 0..(Week - 1)
      BY <3>1, WeekRound
    <3> QED
      BY <2>1, <3>2 DEF MinutePasses, WindowsIInv
  <2>2. CASE UNCHANGED windowsVars
    BY <2>2 DEF windowsVars, WindowsIInv
  <2> QED
    BY <2>1, <2>2 DEF WindowsNext
<1>3. WindowsIInv => WindowsInv
  BY ActiveHolds, NextHolds DEF WindowsInv
<1> QED
  BY <1>1, <1>2, <1>3, PTL DEF WindowsSpec
=============================================================================
