--------------------------- MODULE GatewayProofs ---------------------------
(***************************************************************************)
(* The gateway's concurrency slots, for any finite set of requests, any     *)
(* clients, instances and limits, and requests that die on any path: the    *)
(* counter is what is in flight and what slipped, so the cap holds; no      *)
(* window sees more starts than the rate, and Retry-After is honest.  And   *)
(* what the gateway keeps in memory, for any number of keys, key routes and *)
(* failures: it accepts the enabled keys once the last reload is over, and  *)
(* it counts every request once.  And the names it routes, for any instances*)
(* and edits: an instance is reached as it was launched, the latest first.  *)
(***************************************************************************)
EXTENDS GatewaySlots, GatewayBooks, GatewayNames, FiniteSetTheorems,
        SequenceTheorems, NaturalsInduction, WellFoundedInduction, TLAPS

(* What the count rests on: the types it needs, and the count itself.       *)
SlotInv ==
  /\ req \in [Requests -> [pc : Places, client : Clients, inst : Instances,
                           limit : Limits, at : {Never} \union Nat]]
  /\ inflight \in [Clients -> [Instances -> Nat]]
  /\ clock \in Nat
  /\ limit \in [Clients -> Limits]
  /\ CountExact

LEMMA CountedFinite ==
  ASSUME NEW c, NEW i
  PROVE  /\ IsFiniteSet(Counted(c, i)) /\ IsFiniteSet(Counted(c, i)')
         /\ Cardinality(Counted(c, i)) \in Nat
<1>1. Counted(c, i) \subseteq Requests /\ Counted(c, i)' \subseteq Requests
  BY DEF Counted
<1>2. IsFiniteSet(Counted(c, i)) /\ IsFiniteSet(Counted(c, i)')
  BY <1>1, FS_Subset, GatewayAssumption
<1> QED
  BY <1>2, FS_CardinalityType

LEMMA SlotInit == Init => SlotInv
<1> SUFFICES ASSUME Init PROVE SlotInv
  OBVIOUS
<1>1. \A r \in Requests : req[r] \in Reqs /\ req[r].pc = "none"
  BY DEF Init
<1>2. \A c, i : Counted(c, i) = {}
  BY <1>1 DEF Counted, Active
<1>3. CountExact
  <2>1. ASSUME NEW c \in Clients, NEW i \in Instances
        PROVE  Cardinality(Counted(c, i)) = 0 /\ inflight[c][i] = 0
    BY <1>2, FS_EmptySet DEF Init
  <2> QED
    BY <2>1 DEF CountExact
<1>4. req \in [Requests -> Reqs]
  BY DEF Init
<1>5. Reqs \subseteq [pc : Places, client : Clients, inst : Instances,
                      limit : Limits, at : {Never} \union Nat]
  BY GatewayAssumption DEF Reqs
<1> QED
  BY <1>3, <1>4, <1>5 DEF SlotInv, Init

(* A step that neither takes nor gives back a slot changes no count.        *)
LEMMA CountKept ==
  ASSUME SlotInv, NEW r \in Requests, NEW to, UNCHANGED inflight,
         req' = [req EXCEPT ![r].pc = to],
         req[r].pc \in Active \union {"slipped"}
           <=> to \in Active \union {"slipped"}
  PROVE  CountExact'
<1>1. /\ req'[r].client = req[r].client /\ req'[r].inst = req[r].inst
      /\ req'[r].pc = to
  BY DEF SlotInv
<1>2. \A q \in Requests \ {r} : req'[q] = req[q]
  BY DEF SlotInv
<1>3. \A c, i : Counted(c, i)' = Counted(c, i)
  BY <1>1, <1>2 DEF Counted
<1> QED
  BY <1>3 DEF SlotInv, CountExact

(* An admission adds the request to its own key and one to that counter.    *)
LEMMA CountAdmit ==
  ASSUME SlotInv, NEW r \in Requests, req[r].pc = "resolved",
         req' = [req EXCEPT ![r].at = clock, ![r].pc = "sending"],
         NEW a \in Clients, NEW b \in Instances,
         req[r].client = a, req[r].inst = b,
         inflight' = [inflight EXCEPT ![a][b] = @ + 1]
  PROVE  /\ CountExact'
         /\ Cardinality(Counted(a, b)') = Cardinality(Counted(a, b)) + 1
<1>1. req'[r].client = a /\ req'[r].inst = b /\ req'[r].pc = "sending"
  BY DEF SlotInv
<1>2. \A q \in Requests \ {r} : req'[q] = req[q]
  BY DEF SlotInv
<1>4. ASSUME NEW c, NEW i
      PROVE  /\ r \notin Counted(c, i)
             /\ Counted(c, i)' = IF c = a /\ i = b
                                 THEN Counted(c, i) \union {r}
                                 ELSE Counted(c, i)
  <2>1. r \notin Counted(c, i)
    BY DEF Counted, Active
  <2>2. req'[r].pc \in Active
    BY <1>1 DEF Active
  <2> QED
    BY <1>1, <1>2, <2>1, <2>2 DEF Counted
<1>5. Counted(a, b)' = Counted(a, b) \union {r} /\ r \notin Counted(a, b)
  BY <1>4
<1>6. Cardinality(Counted(a, b)') = Cardinality(Counted(a, b)) + 1
  BY <1>5, CountedFinite, FS_AddElement
<1>7. ASSUME NEW c \in Clients, NEW i \in Instances
      PROVE  inflight'[c][i] = Cardinality(Counted(c, i)')
  <2>1. inflight[c][i] = Cardinality(Counted(c, i)) /\ inflight[c][i] \in Nat
    BY DEF SlotInv, CountExact
  <2>2. Cardinality(Counted(c, i)) \in Nat
    BY CountedFinite
  <2>3. CASE c = a /\ i = b
    <3>1. inflight'[c][i] = inflight[c][i] + 1
      BY <2>3 DEF SlotInv
    <3> QED
      BY <1>6, <2>1, <2>2, <2>3, <3>1
  <2>4. CASE ~(c = a /\ i = b)
    <3>1. inflight'[c][i] = inflight[c][i]
      BY <2>4 DEF SlotInv
    <3>2. Counted(c, i)' = Counted(c, i)
      BY <1>4, <2>4
    <3> QED
      BY <2>1, <3>1, <3>2
  <2> QED
    BY <2>3, <2>4
<1> QED
  BY <1>6, <1>7 DEF CountExact

(* A return takes one request and one count from the same key.              *)
LEMMA CountReturn ==
  ASSUME SlotInv, NEW r \in Requests, req[r].pc \in Active,
         req' = [req EXCEPT ![r].pc = "over"], inflight' = Released(r)
  PROVE  CountExact'
<1> DEFINE a == req[r].client
           b == req[r].inst
<1>1. req'[r].client = a /\ req'[r].inst = b /\ req'[r].pc = "over"
  BY DEF SlotInv
<1>2. \A q \in Requests \ {r} : req'[q] = req[q]
  BY DEF SlotInv
<1>3. a \in Clients /\ b \in Instances
  BY DEF SlotInv
<1>4. ASSUME NEW c, NEW i
      PROVE  /\ r \in Counted(c, i) <=> c = a /\ i = b
             /\ Counted(c, i)' = Counted(c, i) \ {r}
  <2>1. r \in Counted(c, i) <=> c = a /\ i = b
    BY DEF Counted
  <2>2. req'[r].pc \notin Active \union {"slipped"}
    BY <1>1 DEF Active
  <2> QED
    BY <1>1, <1>2, <2>1, <2>2 DEF Counted
<1> HIDE DEF a, b
<1>6. ASSUME NEW c \in Clients, NEW i \in Instances
      PROVE  inflight'[c][i] = Cardinality(Counted(c, i)')
  <2>1. inflight[c][i] = Cardinality(Counted(c, i)) /\ inflight[c][i] \in Nat
    BY DEF SlotInv, CountExact
  <2>2. Cardinality(Counted(c, i)) \in Nat
    BY CountedFinite
  <2>3. CASE c = a /\ i = b
    <3>1. Cardinality(Counted(c, i)') = Cardinality(Counted(c, i)) - 1
      BY <1>4, <2>3, CountedFinite, FS_RemoveElement
    <3>2. inflight[c][i] > 0
      BY <1>4, <2>1, <2>3, CountedFinite, FS_EmptySet
    <3>3. inflight'[c][i] = IF inflight[c][i] > 0
                            THEN inflight[c][i] - 1 ELSE 0
      BY <1>3, <2>3 DEF SlotInv, Released, a, b
    <3> QED
      BY <2>1, <2>2, <3>1, <3>2, <3>3
  <2>4. CASE ~(c = a /\ i = b)
    <3>1. inflight'[c][i] = inflight[c][i]
      BY <1>3, <2>4 DEF SlotInv, Released, a, b
    <3>2. Counted(c, i)' = Counted(c, i)
      BY <1>4, <2>4
    <3> QED
      BY <2>1, <3>1, <3>2
  <2> QED
    BY <2>3, <2>4
<1> QED
  BY <1>6 DEF CountExact

-----------------------------------------------------------------------------
(* The parts of the invariant other than the count.                         *)
LEMMA SlotTypes ==
  ASSUME SlotInv, [Next]_vars
  PROVE  /\ req' \in [Requests -> [pc : Places, client : Clients,
                                  inst : Instances, limit : Limits,
                                  at : {Never} \union Nat]]
         /\ inflight' \in [Clients -> [Instances -> Nat]]
         /\ clock' \in Nat
         /\ limit' \in [Clients -> Limits]
<1> DEFINE Q == [pc : Places, client : Clients, inst : Instances,
                 limit : Limits, at : {Never} \union Nat]
<1> USE DEF SlotInv
<1>1. ASSUME NEW r \in Requests, Resolve(r)
      PROVE  req' \in [Requests -> Q]
  BY <1>1 DEF Resolve, Places
<1>2. ASSUME NEW r \in Requests, NEW to \in Places,
             req' = [req EXCEPT ![r].pc = to]
      PROVE  req' \in [Requests -> Q]
  BY <1>2
<1>3. ASSUME NEW r \in Requests, Admit(r)
      PROVE  /\ req' \in [Requests -> Q]
             /\ inflight' \in [Clients -> [Instances -> Nat]]
  <2>1. CASE CapReached(r)
    BY <1>3, <2>1 DEF Admit, Places
  <2>2. CASE ~CapReached(r)
    <3>1. req' = [req EXCEPT ![r].at = clock, ![r].pc = "sending"]
      BY <1>3, <2>2 DEF Admit
    <3>2. [req[r] EXCEPT !.at = clock, !.pc = "sending"] \in Q
      BY DEF Places
    <3>3. req' \in [Requests -> Q]
      BY <3>1, <3>2
    <3>4. inflight' \in [Clients -> [Instances -> Nat]]
      BY <1>3, <2>2 DEF Admit
    <3> QED
      BY <3>3, <3>4
  <2> QED
    BY <2>1, <2>2
<1>4. ASSUME NEW r \in Requests, Return(r)
      PROVE  inflight' \in [Clients -> [Instances -> Nat]]
  <2>1. inflight' = Released(r)
    BY <1>4 DEF Return
  <2>2. inflight[req[r].client][req[r].inst] \in Nat
    OBVIOUS
  <2> QED
    BY <2>1, <2>2 DEF Released
<1>5. ASSUME NEW r \in Requests,
             TurnAway(r) \/ Answer(r) \/ Return(r) \/ Relay(r) \/ Slip(r)
      PROVE  /\ req' \in [Requests -> Q] /\ UNCHANGED <<limit, clock>>
             /\ Return(r) \/ UNCHANGED inflight
  <2>1. PICK to \in Places : req' = [req EXCEPT ![r].pc = to]
    BY <1>5 DEF TurnAway, Answer, Return, Relay, Slip, Move, Places
  <2>2. req' \in [Requests -> Q]
    BY <1>2, <2>1
  <2>3. UNCHANGED <<limit, clock>>
    BY <1>5 DEF TurnAway, Answer, Return, Relay, Slip, Move
  <2>4. Return(r) \/ UNCHANGED inflight
    BY <1>5 DEF TurnAway, Answer, Relay, Slip
  <2> QED
    BY <2>2, <2>3, <2>4
<1>6. ASSUME NEW c \in Clients, SetLimit(c)
      PROVE  limit' \in [Clients -> Limits]
             /\ UNCHANGED <<req, inflight, clock>>
  BY <1>6 DEF SetLimit
<1>7. CASE Tick
  BY <1>7 DEF Tick
<1>8. CASE UNCHANGED vars
  BY <1>8 DEF vars
<1> HIDE DEF SlotInv
<1> QED
  BY <1>1, <1>3, <1>4, <1>5, <1>6, <1>7, <1>8
     DEF Next, Resolve, Admit, SlotInv

(* Where the count goes, by the kind of step.                               *)
LEMMA SlotCount ==
  ASSUME SlotInv, [Next]_vars
  PROVE  CountExact'
<1>1. ASSUME NEW r \in Requests, Resolve(r) PROVE CountExact'
  <2>1. \A q \in Requests \ {r} : req'[q] = req[q]
    BY <1>1 DEF Resolve, SlotInv
  <2>2. req[r].pc = "none" /\ req'[r].pc = "resolved"
    BY <1>1 DEF Resolve, SlotInv
  <2>3. \A c \in Clients, i \in Instances : Counted(c, i)' = Counted(c, i)
    BY <2>1, <2>2 DEF Counted, Active
  <2> QED
    BY <1>1, <2>3 DEF Resolve, SlotInv, CountExact
<1>2. ASSUME NEW r \in Requests, TurnAway(r) \/ Answer(r) \/ Relay(r) \/ Slip(r)
      PROVE  CountExact'
  <2>1. PICK to \in Active \union {"over", "slipped"} :
          /\ req' = [req EXCEPT ![r].pc = to] /\ UNCHANGED inflight
          /\ req[r].pc \in Active <=> to # "over"
    BY <1>2 DEF TurnAway, Answer, Relay, Slip, Move, Active
  <2>2. req[r].pc \in Active \union {"slipped"}
          <=> to \in Active \union {"slipped"}
    BY <1>2, <2>1 DEF Active, TurnAway, Answer, Relay, Slip, Move
  <2> QED
    BY <2>1, <2>2, CountKept
<1>3. ASSUME NEW r \in Requests, Admit(r) PROVE CountExact'
  <2>1. CASE CapReached(r)
    <3>1. \A q \in Requests \ {r} : req'[q] = req[q]
      BY <1>3 DEF Admit, SlotInv
    <3>2. req[r].pc = "resolved" /\ req'[r].pc = "over"
      BY <1>3, <2>1 DEF Admit, SlotInv
    <3>3. \A c \in Clients, i \in Instances : Counted(c, i)' = Counted(c, i)
      BY <3>1, <3>2 DEF Counted, Active
    <3> QED
      BY <1>3, <2>1, <3>3 DEF Admit, SlotInv, CountExact
  <2>2. CASE ~CapReached(r)
    <3>1. req[r].client \in Clients /\ req[r].inst \in Instances
      BY DEF SlotInv
    <3> QED
      BY <1>3, <2>2, <3>1, CountAdmit DEF Admit
  <2> QED
    BY <2>1, <2>2
<1>4. ASSUME NEW r \in Requests, Return(r) PROVE CountExact'
  <2>1. req[r].pc \in Active /\ req' = [req EXCEPT ![r].pc = "over"]
    BY <1>4 DEF Return, Move, Active
  <2> QED
    BY <1>4, <2>1, CountReturn DEF Return
<1>5. CASE (\E c \in Clients : SetLimit(c)) \/ Tick \/ UNCHANGED vars
  <2>1. UNCHANGED <<req, inflight>>
    BY <1>5 DEF SetLimit, Tick, vars
  <2> QED
    BY <2>1 DEF SlotInv, CountExact, Counted
<1> QED
  BY <1>1, <1>2, <1>3, <1>4, <1>5 DEF Next

LEMMA SlotNext == SlotInv /\ [Next]_vars => SlotInv'
BY SlotTypes, SlotCount DEF SlotInv

(* The counter is exactly what is in flight and what died without a release,*)
(* for any number of requests, however they interleave.                     *)
THEOREM CountIsExact == Spec => []CountExact
<1>1. SlotInv => CountExact
  BY DEF SlotInv
<1> QED
  BY <1>1, SlotInit, SlotNext, PTL DEF Spec

(* An admitted request is within the limit it was judged by.                *)
LEMMA AdmitWithinCap ==
  ASSUME SlotInv, [Next]_vars, NEW r \in Requests, NEW c \in Clients,
         NEW i \in Instances, req[r].pc = "resolved",
         req'[r].pc = "sending", req[r].client = c, req[r].inst = i,
         req[r].limit > 0
  PROVE  Cardinality(Held(c, i)') <= req[r].limit
<1>1. Admit(r) /\ ~CapReached(r)
  <2>1. ASSUME NEW q \in Requests, Resolve(q) \/ Admit(q), q # r PROVE FALSE
    BY <2>1 DEF Resolve, Admit, SlotInv
  <2>2. ASSUME NEW q \in Requests,
               TurnAway(q) \/ Answer(q) \/ Return(q) \/ Relay(q) \/ Slip(q)
        PROVE  FALSE
    BY <2>2 DEF TurnAway, Answer, Return, Relay, Slip, Move, SlotInv
  <2>3. CASE (\E d \in Clients : SetLimit(d)) \/ Tick \/ UNCHANGED vars
    BY <2>3 DEF SetLimit, Tick, vars
  <2>4. ~Resolve(r)
    BY DEF Resolve
  <2>5. Admit(r)
    BY <2>1, <2>2, <2>3, <2>4 DEF Next
  <2>6. ~CapReached(r)
    BY <2>5 DEF Admit, SlotInv
  <2> QED
    BY <2>5, <2>6
<1>2. Cardinality(Counted(c, i)') = Cardinality(Counted(c, i)) + 1
  BY <1>1, CountAdmit DEF Admit
<1>3. inflight[c][i] < req[r].limit
  <2>1. req[r].limit \in Nat /\ inflight[c][i] \in Nat
    BY GatewayAssumption DEF SlotInv
  <2> QED
    BY <1>1, <2>1 DEF CapReached
<1>4. inflight[c][i] = Cardinality(Counted(c, i))
  BY DEF SlotInv, CountExact
<1>5. req[r].limit \in Nat /\ Cardinality(Counted(c, i)) \in Nat
  BY GatewayAssumption, CountedFinite DEF SlotInv
<1>6. /\ Cardinality(Held(c, i)') <= Cardinality(Counted(c, i)')
      /\ Cardinality(Held(c, i)') \in Nat
  <2>1. Held(c, i)' \subseteq Counted(c, i)'
    BY DEF Held, Counted
  <2> QED
    BY <2>1, CountedFinite, FS_Subset, FS_CardinalityType
<1> QED
  BY <1>2, <1>3, <1>4, <1>5, <1>6

(* So a client capped at N never has more than N requests against one       *)
(* instance, however limits change and requests die.                        *)
THEOREM CapAlwaysHolds == Spec => CapHolds
<1>1. SlotInv /\ [Next]_vars =>
        [\A r \in Requests, c \in Clients, i \in Instances :
           /\ req[r].pc = "resolved" /\ req'[r].pc = "sending"
           /\ req[r].client = c /\ req[r].inst = i /\ req[r].limit > 0
           => Cardinality(Held(c, i)') <= req[r].limit]_vars
  BY AdmitWithinCap
<1> QED
  BY <1>1, SlotInit, SlotNext, PTL DEF Spec, CapHolds

-----------------------------------------------------------------------------
(* A read that no commit has overtaken holds the rows as they are, and only *)
(* a read that was made can have been overtaken.  And while the memory      *)
(* differs from the rows, such a read, or one to come, is there to put it   *)
(* right.                                                                   *)
Fresh(a) == admin[a].pc = "install" /\ ~admin[a].late
ReadsFresh ==
  \A a \in Admins : /\ Fresh(a) => admin[a].snap = Live(keyRow)
                    /\ admin[a].late => admin[a].pc = "install"
Repaired ==
  \/ byDigest = Live(keyRow) \/ overtaken
  \/ \E a \in Admins : admin[a].pc = "read" \/ Fresh(a)

IdleIsEmpty == flush.pc = "idle" => flush = NoFlush

BooksIInv ==
  BooksTypeOK /\ ReadsFresh /\ Repaired /\ IdleIsEmpty /\ CountedOnce

Routes ==
  [pc : {"idle", "write", "read", "install"},
   key : Keys \union {NoKey}, op : {"none", "issue", "update", "delete"},
   was : Row, row : Row, snap : KeyMap, late : BOOLEAN]

LEMMA LiveIsMap == ASSUME keyRow \in [Keys -> Row] PROVE Live(keyRow) \in KeyMap
BY DEF Live, KeyMap, Row

LEMMA RouteTypes ==
  /\ NoRow \in Row /\ Gone \in Row /\ Nothing \in KeyMap
  /\ NoRoute \in Routes
<1>1. NoRow \in Row /\ Gone \in Row /\ Nothing \in KeyMap
  BY DEF NoRow, Gone, Nothing, Row, KeyMap
<1> QED
  BY <1>1 DEF NoRoute, Routes

LEMMA BooksStart == BooksInit => BooksIInv
<1> SUFFICES ASSUME BooksInit PROVE BooksIInv
  OBVIOUS
<1>1. BooksTypeOK
  BY RouteTypes DEF BooksInit, BooksTypeOK, NoFlush, Routes
<1>2. ReadsFresh
  BY DEF BooksInit, ReadsFresh, Fresh, NoRoute
<1>3. byDigest = Live(keyRow)
  BY DEF BooksInit, Live, NoRow, Nothing
<1>4. IdleIsEmpty /\ CountedOnce
  BY DEF BooksInit, IdleIsEmpty, CountedOnce, NoFlush
<1> QED
  BY <1>1, <1>2, <1>3, <1>4 DEF BooksIInv, Repaired

-----------------------------------------------------------------------------
(* The types, and what the counters add up to, step by step.                *)
LEMMA BeginTypes ==
  ASSUME BooksTypeOK, NEW a \in Admins, NEW k \in Keys,
         NEW op \in {"issue", "update", "delete"}, NEW want \in Row, Begin(a, k, op, want)
  PROVE  BooksTypeOK'
<1>1. keyRow[k] \in Row
  BY DEF BooksTypeOK
<1>2. [NoRoute EXCEPT !.pc = "write", !.key = k, !.op = op, !.was = keyRow[k], !.row = want]
        \in Routes
  BY <1>1, RouteTypes DEF Routes
<1> QED
  BY <1>2 DEF Begin, BooksTypeOK, counts, Routes

LEMMA MergedIsRow ==
  ASSUME NEW now \in Row, NEW was \in Row, NEW new \in Row
  PROVE  Merged(now, was, new) \in Row
BY DEF Merged, Row

LEMMA CommitTypes ==
  ASSUME BooksTypeOK, NEW a \in Admins, CommitKey(a)
  PROVE  BooksTypeOK'
<1>1. admin[a].was \in Row /\ admin[a].row \in Row
  BY DEF BooksTypeOK
<1>2. keyRow' \in [Keys -> Row]
  BY <1>1, MergedIsRow DEF BooksTypeOK, CommitKey
<1>3. admin' \in [Admins -> Routes]
  <2>1. ASSUME NEW b \in Admins
        PROVE  /\ AfterCommit(a) \in Routes
               /\ [admin[b] EXCEPT !.late = @ \/ admin[b].pc = "install"] \in Routes
    <3>1. admin[a] \in Routes /\ admin[b] \in Routes
      BY DEF BooksTypeOK, Routes
    <3>2. (admin[b].late \/ admin[b].pc = "install") \in BOOLEAN
      OBVIOUS
    <3> QED
      BY <3>1, <3>2 DEF AfterCommit, Routes
  <2> QED
    BY <2>1 DEF CommitKey
<1> QED
  BY <1>2, <1>3 DEF BooksTypeOK, CommitKey, counts, Routes

LEMMA RouteStepTypes ==
  ASSUME BooksTypeOK, NEW a \in Admins,
         UpdateRaises(a) \/ ReadKeys(a) \/ InstallKeys(a) \/ RefreshFails(a)
  PROVE  BooksTypeOK'
<1>1. Live(keyRow) \in KeyMap
  BY LiveIsMap DEF BooksTypeOK
<1>2. CASE UpdateRaises(a)
  BY <1>2, RouteTypes DEF Routes, BooksTypeOK, UpdateRaises, AfterCommit, counts
<1>3. CASE ReadKeys(a)
  <2>1. [admin[a] EXCEPT !.pc = "install", !.snap = Live(keyRow)] \in Routes
    BY <1>1 DEF BooksTypeOK, Routes
  <2>2. admin' = [admin EXCEPT ![a] = [admin[a] EXCEPT !.pc = "install", !.snap = Live(keyRow)]]
    BY <1>3 DEF ReadKeys
  <2> QED
    BY <1>3, <2>1, <2>2 DEF BooksTypeOK, ReadKeys, counts, Routes
<1>4. CASE InstallKeys(a)
  BY <1>4, RouteTypes DEF Routes, BooksTypeOK, InstallKeys, counts
<1>5. CASE RefreshFails(a)
  BY <1>5, RouteTypes DEF Routes, BooksTypeOK, RefreshFails, counts
<1> QED
  BY <1>2, <1>3, <1>4, <1>5

LEMMA CounterStepTypes ==
  ASSUME BooksTypeOK,
         \/ \E k \in Keys : Authenticate(k)
         \/ Record \/ FlushBegin \/ FlushCommit \/ FlushFails \/ BooksRestart
  PROVE  BooksTypeOK'
<1>1. CASE \E k \in Keys : Authenticate(k)
  BY <1>1 DEF Authenticate, BooksTypeOK, keyVars
<1>2. CASE Record
  BY <1>2 DEF Record, BooksTypeOK, keyVars
<1>3. CASE FlushBegin
  BY <1>3 DEF FlushBegin, Drained, BooksTypeOK, keyVars
<1>4. CASE FlushCommit
  BY <1>4 DEF FlushCommit, WindowWritten, NoFlush, BooksTypeOK, keyVars
<1>5. CASE FlushFails
  BY <1>5 DEF FlushFails, WindowWritten, NoFlush, BooksTypeOK, keyVars
<1>6. CASE BooksRestart
  <2>1. byDigest' \in KeyMap
    <3>1. Live(keyRow) \in KeyMap
      BY LiveIsMap DEF BooksTypeOK
    <3> QED
      BY <1>6, <3>1 DEF BooksRestart
  <2>2. admin' \in [Admins -> Routes]
    BY <1>6, RouteTypes DEF BooksRestart
  <2>3. /\ keyRow' \in [Keys -> Row] /\ touched' \subseteq Keys /\ used' \subseteq Keys
        /\ buckets' \in Nat /\ samples' \in Nat /\ recorded' \in Nat
        /\ flush' \in [pc : {"idle", "writing"}, window : Nat, uses : SUBSET Keys]
        /\ overtaken' \in BOOLEAN /\ keyEdits' \in Nat /\ lapses' \in Nat
    <3>1. UNCHANGED <<keyRow, used, samples, recorded, keyEdits>>
      BY <1>6 DEF BooksRestart
    <3>2. buckets' = 0 /\ touched' = {} /\ flush' = NoFlush /\ overtaken' = FALSE
      BY <1>6 DEF BooksRestart
    <3>3. lapses' \in Nat
      BY <1>6 DEF BooksRestart, BooksTypeOK
    <3>4. NoFlush \in [pc : {"idle", "writing"}, window : Nat, uses : SUBSET Keys]
      BY DEF NoFlush
    <3> QED
      BY <3>1, <3>2, <3>3, <3>4 DEF BooksTypeOK
  <2> QED
    BY <2>1, <2>2, <2>3 DEF BooksTypeOK, Routes
<1> QED
  BY <1>1, <1>2, <1>3, <1>4, <1>5, <1>6

LEMMA BooksTypes == BooksTypeOK /\ [BooksNext]_booksVars => BooksTypeOK'
<1> SUFFICES ASSUME BooksTypeOK, [BooksNext]_booksVars PROVE BooksTypeOK'
  OBVIOUS
<1>1. ASSUME NEW a \in Admins, NEW k \in Keys,
             Issue(a, k) \/ UpdateKey(a, k) \/ DeleteKey(a, k)
      PROVE  BooksTypeOK'
  <2>1. CASE Issue(a, k)
    <3>1. PICK l \in KeyLimits :
            Begin(a, k, "issue", [there |-> TRUE, enabled |-> TRUE, limit |-> l])
      BY <2>1 DEF Issue
    <3>2. [there |-> TRUE, enabled |-> TRUE, limit |-> l] \in Row
      BY DEF Row
    <3> QED
      BY <3>1, <3>2, BeginTypes
  <2>2. CASE UpdateKey(a, k)
    <3>1. PICK new \in [there : {TRUE}, enabled : BOOLEAN, limit : KeyLimits] :
            Begin(a, k, "update", new)
      BY <2>2 DEF UpdateKey
    <3>2. new \in Row
      BY DEF Row
    <3> QED
      BY <3>1, <3>2, BeginTypes
  <2>3. CASE DeleteKey(a, k)
    BY <2>3, BeginTypes, RouteTypes DEF DeleteKey
  <2> QED
    BY <1>1, <2>1, <2>2, <2>3
<1>2. CASE UNCHANGED booksVars
  BY <1>2 DEF booksVars, BooksTypeOK
<1> QED
  BY <1>1, <1>2, CommitTypes, RouteStepTypes, CounterStepTypes DEF BooksNext

-----------------------------------------------------------------------------
(* The counters.                                                            *)
LEMMA CountersAddUp ==
  ASSUME BooksTypeOK, IdleIsEmpty, CountedOnce, [BooksNext]_booksVars
  PROVE  IdleIsEmpty' /\ CountedOnce'
<1> USE DEF IdleIsEmpty, CountedOnce, NoFlush
<1>0. /\ buckets \in Nat /\ samples \in Nat /\ recorded \in Nat /\ lapses \in Nat
      /\ flush \in [pc : {"idle", "writing"}, window : Nat, uses : SUBSET Keys]
  BY DEF BooksTypeOK
<1>1. ASSUME UNCHANGED <<buckets, samples, flush, recorded, lapses>>
      PROVE  IdleIsEmpty' /\ CountedOnce'
  BY <1>1
<1>2. ASSUME NEW a \in Admins, NEW k \in Keys,
             Issue(a, k) \/ UpdateKey(a, k) \/ DeleteKey(a, k)
      PROVE  IdleIsEmpty' /\ CountedOnce'
  BY <1>1, <1>2 DEF Issue, UpdateKey, DeleteKey, Begin, counts
<1>3. ASSUME NEW a \in Admins,
             CommitKey(a) \/ UpdateRaises(a) \/ ReadKeys(a) \/ InstallKeys(a)
      PROVE  IdleIsEmpty' /\ CountedOnce'
  BY <1>1, <1>3 DEF CommitKey, UpdateRaises, ReadKeys, InstallKeys, counts
<1>4. ASSUME NEW a \in Admins, RefreshFails(a) PROVE IdleIsEmpty' /\ CountedOnce'
  BY <1>0, <1>4 DEF RefreshFails, counts
<1>5. CASE (\E k \in Keys : Authenticate(k)) \/ UNCHANGED booksVars
  BY <1>1, <1>5 DEF Authenticate, booksVars
<1>6. CASE Record
  BY <1>0, <1>6 DEF Record
<1>7. CASE FlushBegin
  BY <1>0, <1>7 DEF FlushBegin, Drained
<1>8. CASE FlushCommit
  BY <1>0, <1>8 DEF FlushCommit, WindowWritten
<1>9. CASE FlushFails
  BY <1>0, <1>9 DEF FlushFails, WindowWritten
<1>10. CASE BooksRestart
  BY <1>0, <1>10 DEF BooksRestart
<1> QED
  BY <1>2, <1>3, <1>4, <1>5, <1>6, <1>7, <1>8, <1>9, <1>10 DEF BooksNext

-----------------------------------------------------------------------------
(* The keys.  Only a commit changes the rows, and it leaves its route about *)
(* to read them and every read before it late.                              *)
LEMMA KeysAfterCommit ==
  ASSUME BooksTypeOK, ReadsFresh, NEW a \in Admins, CommitKey(a)
  PROVE  ReadsFresh' /\ Repaired'
<1>1. admin'[a] = [admin[a] EXCEPT !.pc = "read"]
  BY DEF CommitKey, AfterCommit
<1>2. admin'[a].pc = "read" /\ ~admin'[a].late
  BY <1>1 DEF BooksTypeOK, ReadsFresh, CommitKey, At
<1>3. ASSUME NEW b \in Admins, b # a
      PROVE  /\ ~Fresh(b)'
             /\ admin'[b].late => admin'[b].pc = "install"
  <2>1. admin'[b] = [admin[b] EXCEPT !.late = @ \/ admin[b].pc = "install"]
    BY <1>3 DEF CommitKey
  <2>2. admin'[b].pc = admin[b].pc
    BY <2>1 DEF BooksTypeOK
  <2>3. admin'[b].late = (admin[b].late \/ admin[b].pc = "install")
    BY <2>1 DEF BooksTypeOK
  <2> QED
    BY <2>2, <2>3 DEF Fresh, ReadsFresh
<1> QED
  BY <1>2, <1>3 DEF ReadsFresh, Repaired, Fresh

(* A step of one route that leaves the rows and the memory as they are.     *)
LEMMA KeysAfterOther ==
  ASSUME BooksTypeOK, ReadsFresh, Repaired, NEW a \in Admins, NEW r,
         admin' = [admin EXCEPT ![a] = r], UNCHANGED <<keyRow, byDigest>>,
         admin[a].pc \in {"idle", "write"}, r.pc # "install", ~r.late,
         overtaken' = overtaken
  PROVE  ReadsFresh' /\ Repaired'
<1>1. admin'[a] = r /\ \A b \in Admins : b # a => admin'[b] = admin[b]
  BY DEF BooksTypeOK
<1>2. ReadsFresh'
  BY <1>1 DEF ReadsFresh, Fresh, Live
<1>3. Repaired'
  BY <1>1 DEF Repaired, Fresh, Live
<1> QED
  BY <1>2, <1>3

LEMMA KeysNext ==
  ASSUME BooksTypeOK, ReadsFresh, Repaired, [BooksNext]_booksVars
  PROVE  ReadsFresh' /\ Repaired'
<1>1. ASSUME NEW a \in Admins, NEW k \in Keys, NEW op, NEW want, Begin(a, k, op, want)
      PROVE  ReadsFresh' /\ Repaired'
  <2>1. [NoRoute EXCEPT !.pc = "write", !.key = k, !.op = op, !.was = keyRow[k],
                        !.row = want].pc = "write"
        /\ ~[NoRoute EXCEPT !.pc = "write", !.key = k, !.op = op, !.was = keyRow[k],
                            !.row = want].late
    BY DEF NoRoute
  <2> QED
    BY <1>1, <2>1, KeysAfterOther DEF Begin, At
<1>2. ASSUME NEW a \in Admins, NEW k \in Keys,
             Issue(a, k) \/ UpdateKey(a, k) \/ DeleteKey(a, k)
      PROVE  ReadsFresh' /\ Repaired'
  BY <1>1, <1>2 DEF Issue, UpdateKey, DeleteKey
<1>3. ASSUME NEW a \in Admins, UpdateRaises(a) PROVE ReadsFresh' /\ Repaired'
  <2>1. /\ AfterCommit(a).pc = "read" /\ NoRoute.pc = "idle"
        /\ ~AfterCommit(a).late /\ ~NoRoute.late
    BY <1>3 DEF BooksTypeOK, AfterCommit, NoRoute, ReadsFresh, UpdateRaises, At
  <2> QED
    BY <1>3, <2>1, KeysAfterOther DEF UpdateRaises, At
<1>4. ASSUME NEW a \in Admins, ReadKeys(a) PROVE ReadsFresh' /\ Repaired'
  <2>1. /\ admin'[a] = [admin[a] EXCEPT !.pc = "install", !.snap = Live(keyRow)]
        /\ \A b \in Admins : b # a => admin'[b] = admin[b]
    BY <1>4 DEF ReadKeys, BooksTypeOK
  <2>2. admin'[a].snap = Live(keyRow) /\ admin'[a].pc = "install"
        /\ admin'[a].late = admin[a].late
    BY <2>1 DEF BooksTypeOK
  <2>3. Live(keyRow)' = Live(keyRow)
    BY <1>4 DEF ReadKeys, Live
  <2> QED
    BY <1>4, <2>1, <2>2, <2>3 DEF ReadKeys, ReadsFresh, Repaired, Fresh, At
<1>5. ASSUME NEW a \in Admins, InstallKeys(a) PROVE ReadsFresh' /\ Repaired'
  <2>1. admin'[a] = NoRoute /\ \A b \in Admins : b # a => admin'[b] = admin[b]
    BY <1>5 DEF InstallKeys, BooksTypeOK
  <2>2. Live(keyRow)' = Live(keyRow)
    BY <1>5 DEF InstallKeys, Live
  <2>3. ReadsFresh'
    BY <2>1, <2>2 DEF ReadsFresh, Fresh, NoRoute
  <2>4. Repaired'
    BY <1>5, <2>2 DEF InstallKeys, At, ReadsFresh, Fresh, Repaired
  <2> QED
    BY <2>3, <2>4
<1>6. ASSUME NEW a \in Admins, RefreshFails(a) PROVE ReadsFresh' /\ Repaired'
  <2>1. admin'[a] = NoRoute /\ \A b \in Admins : b # a => admin'[b] = admin[b]
    BY <1>6 DEF RefreshFails, BooksTypeOK
  <2>2. Live(keyRow)' = Live(keyRow)
    BY <1>6 DEF RefreshFails, Live, counts
  <2> QED
    BY <1>6, <2>1, <2>2 DEF RefreshFails, ReadsFresh, Repaired, Fresh, NoRoute
<1>7. CASE BooksRestart
  <2>1. Live(keyRow)' = Live(keyRow)
    BY <1>7 DEF BooksRestart, Live
  <2> QED
    BY <1>7, <2>1 DEF BooksRestart, ReadsFresh, Repaired, Fresh, NoRoute
<1>8. CASE \/ (\E k \in Keys : Authenticate(k)) \/ Record \/ FlushBegin \/ FlushCommit
           \/ FlushFails \/ UNCHANGED booksVars
  <2>1. UNCHANGED keyVars
    BY <1>8 DEF Authenticate, Record, FlushBegin, FlushCommit, FlushFails, booksVars, keyVars
  <2> QED
    BY <2>1 DEF keyVars, ReadsFresh, Repaired, Fresh, Live
<1> QED
  BY <1>2, <1>3, <1>4, <1>5, <1>6, <1>7, <1>8, KeysAfterCommit DEF BooksNext

-----------------------------------------------------------------------------
LEMMA BooksStep == BooksIInv /\ [BooksNext]_booksVars => BooksIInv'
BY BooksTypes, CountersAddUp, KeysNext DEF BooksIInv

(* What the gateway keeps in memory is right whatever routes overlap, and   *)
(* wherever they, a flush or the portal fail: the keys it accepts once the  *)
(* last reload is over, and a count of every request in one place           *)
(* (services/apikeys.py:128-144, services/gwstats.py:84-181).               *)
THEOREM BooksAreKept == BooksSpec => []BooksInv
<1>1. BooksIInv => BooksInv
  BY DEF BooksIInv, BooksInv, Repaired, KeysCurrent, Fresh
<1> QED
  BY <1>1, BooksStart, BooksStep, PTL DEF BooksSpec
-----------------------------------------------------------------------------
(* A set of naturals that is not empty has a least element.                 *)
LEMMA LeastNatural ==
  ASSUME NEW S \in SUBSET Nat, S # {}
  PROVE  \E n \in S : \A m \in S : n <= m
<1>1. PICK n \in S : \A m \in S : ~(<<m, n>> \in OpToRel(<, Nat))
  BY NatLessThanWellFounded, WFMin
<1>2. \A m \in S : ~(m < n)
  BY <1>1 DEF OpToRel
<1> QED
  BY <1>2

(* The front of the deque goes, up to the first start that is young enough. *)
LEMMA OldestIs ==
  ASSUME NEW q \in Seq(Nat), NEW t \in Int
  PROVE  /\ Oldest(q, t) \in 1..(Len(q) + 1)
         /\ \A j \in 1..(Oldest(q, t) - 1) : q[j] < t
         /\ Oldest(q, t) <= Len(q) => q[Oldest(q, t)] >= t
<1> DEFINE S == {i \in 1..(Len(q) + 1) : i <= Len(q) => q[i] >= t}
           Is(i) == /\ \A j \in 1..(i - 1) : q[j] < t
                    /\ i <= Len(q) => q[i] >= t
<1>1. Len(q) \in Nat /\ \A i \in 1..Len(q) : q[i] \in Nat
  OBVIOUS
<1>2. Len(q) + 1 \in S /\ S \in SUBSET Nat
  BY <1>1
<1>3. PICK i \in S : \A m \in S : i <= m
  BY <1>2, LeastNatural
<1>4. \A j \in 1..(i - 1) : q[j] < t
  <2> SUFFICES ASSUME NEW j \in 1..(i - 1) PROVE q[j] < t
    OBVIOUS
  <2>1. j \in 1..Len(q) /\ j \notin S /\ j \in 1..(Len(q) + 1)
    BY <1>1, <1>3
  <2> QED
    BY <1>1, <2>1
<1>5. i \in 1..(Len(q) + 1) /\ Is(i)
  BY <1>3, <1>4
<1>6. Oldest(q, t) = CHOOSE k \in 1..(Len(q) + 1) : Is(k)
  BY DEF Oldest
<1> HIDE DEF Is
<1>7. Oldest(q, t) \in 1..(Len(q) + 1) /\ Is(Oldest(q, t))
  BY <1>5, <1>6
<1> QED
  BY <1>7 DEF Is

LEMMA OldestOnly ==
  ASSUME NEW q \in Seq(Nat), NEW t \in Int, NEW i \in 1..(Len(q) + 1),
         \A j \in 1..(i - 1) : q[j] < t, i <= Len(q) => q[i] >= t
  PROVE  Oldest(q, t) = i
<1> DEFINE o == Oldest(q, t)
<1>1. /\ o \in 1..(Len(q) + 1) /\ \A j \in 1..(o - 1) : q[j] < t
      /\ o <= Len(q) => q[o] >= t
  BY OldestIs
<1>2. Len(q) \in Nat /\ \A j \in 1..Len(q) : q[j] \in Nat
  OBVIOUS
<1> HIDE DEF o
<1>3. ~(o < i)
  <2> SUFFICES ASSUME o < i PROVE FALSE
    OBVIOUS
  <2>1. o \in 1..(i - 1) /\ o <= Len(q) /\ o \in 1..Len(q)
    BY <1>1, <1>2
  <2> QED
    BY <2>1, <1>1, <1>2
<1>4. ~(i < o)
  <2> SUFFICES ASSUME i < o PROVE FALSE
    OBVIOUS
  <2>1. i \in 1..(o - 1) /\ i <= Len(q) /\ i \in 1..Len(q)
    BY <1>1, <1>2
  <2> QED
    BY <2>1, <1>1, <1>2
<1> QED
  BY <1>1, <1>2, <1>3, <1>4 DEF o

(* What is left of it: its length and its elements.                         *)
LEMMA FromIs ==
  ASSUME NEW q \in Seq(Nat), NEW t \in Int
  PROVE  /\ From(q, t) \in Seq(Nat)
         /\ Len(From(q, t)) = Len(q) + 1 - Oldest(q, t)
         /\ \A i \in 1..Len(From(q, t)) : From(q, t)[i] = q[Oldest(q, t) + i - 1]
<1> DEFINE o == Oldest(q, t)
<1>1. o \in 1..(Len(q) + 1) /\ Len(q) \in Nat
  BY OldestIs
<1> HIDE DEF o
<1>2. \A i \in o..Len(q) : q[i] \in Nat
  BY <1>1
<1>3. /\ SubSeq(q, o, Len(q)) \in Seq(Nat)
      /\ Len(SubSeq(q, o, Len(q))) = IF o <= Len(q) THEN Len(q) - o + 1 ELSE 0
      /\ \A i \in 1..(Len(q) - o + 1) : SubSeq(q, o, Len(q))[i] = q[o + i - 1]
  BY <1>1, <1>2, SubSeqProperties
<1>4. From(q, t) = SubSeq(q, o, Len(q))
  BY DEF From, o
<1>5. Len(From(q, t)) = Len(q) + 1 - o
  BY <1>1, <1>3, <1>4
<1>6. 1..Len(From(q, t)) = 1..(Len(q) - o + 1)
  BY <1>1, <1>5
<1> QED
  BY <1>3, <1>4, <1>5, <1>6 DEF o

(* Dropping from the front shortens it at most.                             *)
LEMMA DropsOnly ==
  ASSUME NEW q \in Seq(Nat), NEW t \in Int
  PROVE  /\ Len(From(q, t)) \in Nat /\ Len(q) \in Nat
         /\ Len(From(q, t)) <= Len(q)
<1>1. From(q, t) \in Seq(Nat) /\ Len(From(q, t)) = Len(q) + 1 - Oldest(q, t)
  BY FromIs
<1>2. Oldest(q, t) \in 1..(Len(q) + 1) /\ Len(q) \in Nat
  BY OldestIs
<1> QED
  BY <1>1, <1>2

(* Dropping what is older than t and then what is older than u is dropping  *)
(* what is older than u.                                                    *)
LEMMA FromFrom ==
  ASSUME NEW q \in Seq(Nat), NEW t \in Int, NEW u \in Int, t <= u
  PROVE  Len(From(From(q, t), u)) = Len(From(q, u))
<1> DEFINE p == From(q, t)
           o == Oldest(q, t)
           w == Oldest(q, u)
<1>1. /\ p \in Seq(Nat) /\ Len(p) = Len(q) + 1 - o
      /\ \A i \in 1..Len(p) : p[i] = q[o + i - 1]
  BY FromIs
<1>2. /\ o \in 1..(Len(q) + 1) /\ \A j \in 1..(o - 1) : q[j] < t
      /\ o <= Len(q) => q[o] >= t
  BY OldestIs
<1>3. /\ w \in 1..(Len(q) + 1) /\ \A j \in 1..(w - 1) : q[j] < u
      /\ w <= Len(q) => q[w] >= u
  BY OldestIs
<1>4. Len(q) \in Nat /\ \A j \in 1..Len(q) : q[j] \in Nat
  OBVIOUS
<1>5. Len(From(q, u)) = Len(q) + 1 - w
  BY FromIs
<1>6. Len(From(p, u)) = Len(p) + 1 - Oldest(p, u)
  BY <1>1, FromIs
<1> HIDE DEF p, o, w
<1>7. o <= w
  <2> SUFFICES ASSUME w < o PROVE FALSE
    BY <1>2, <1>3, <1>4
  <2>1. w \in 1..(o - 1) /\ w <= Len(q) /\ w \in 1..Len(q)
    BY <1>2, <1>3, <1>4
  <2> QED
    BY <2>1, <1>2, <1>3, <1>4
<1> DEFINE i == w - o + 1
<1>8. i \in 1..(Len(p) + 1)
  BY <1>1, <1>2, <1>3, <1>4, <1>7
<1>9. \A j \in 1..(i - 1) : p[j] < u
  <2> SUFFICES ASSUME NEW j \in 1..(i - 1) PROVE p[j] < u
    OBVIOUS
  <2>1. j \in 1..Len(p) /\ (o + j - 1) \in 1..(w - 1)
    BY <1>1, <1>2, <1>3, <1>4, <1>7
  <2> QED
    BY <2>1, <1>1, <1>3
<1>10. i <= Len(p) => p[i] >= u
  <2> SUFFICES ASSUME i <= Len(p) PROVE p[i] >= u
    OBVIOUS
  <2>1. i \in 1..Len(p) /\ o + i - 1 = w /\ w <= Len(q)
    BY <1>1, <1>2, <1>3, <1>4, <1>8
  <2> QED
    BY <2>1, <1>1, <1>3
<1>11. Oldest(p, u) = i
  BY <1>1, <1>8, <1>9, <1>10, OldestOnly
<1> QED
  BY <1>1, <1>2, <1>3, <1>4, <1>5, <1>6, <1>11 DEF p

(* A start that is young enough stays.                                      *)
LEMMA FromAppend ==
  ASSUME NEW q \in Seq(Nat), NEW n \in Nat, NEW t \in Int, t <= n
  PROVE  Len(From(Append(q, n), t)) = Len(From(q, t)) + 1
<1> DEFINE p == Append(q, n)
           o == Oldest(q, t)
<1>1. p \in Seq(Nat) /\ Len(p) = Len(q) + 1 /\ p[Len(q) + 1] = n
      /\ \A j \in 1..Len(q) : p[j] = q[j]
  BY AppendProperties
<1>2. /\ o \in 1..(Len(q) + 1) /\ \A j \in 1..(o - 1) : q[j] < t
      /\ o <= Len(q) => q[o] >= t
  BY OldestIs
<1>3. Len(q) \in Nat
  OBVIOUS
<1>4. Len(From(q, t)) = Len(q) + 1 - o /\ Len(From(p, t)) = Len(p) + 1 - Oldest(p, t)
  BY <1>1, FromIs
<1> HIDE DEF p, o
<1>5. o \in 1..(Len(p) + 1) /\ \A j \in 1..(o - 1) : p[j] < t
  <2>1. \A j \in 1..(o - 1) : j \in 1..Len(q)
    BY <1>2, <1>3
  <2>2. \A j \in 1..(o - 1) : p[j] < t
    BY <2>1, <1>1, <1>2
  <2> QED
    BY <2>2, <1>1, <1>2, <1>3
<1>6. o <= Len(p) => p[o] >= t
  <2>1. CASE o <= Len(q)
    BY <2>1, <1>1, <1>2, <1>3
  <2>2. CASE o = Len(q) + 1
    BY <2>2, <1>1
  <2> QED
    BY <2>1, <2>2, <1>2, <1>3
<1>7. Oldest(p, t) = o
  BY <1>1, <1>5, <1>6, OldestOnly
<1> QED
  BY <1>1, <1>2, <1>3, <1>4, <1>7 DEF p

(* The requests of a client that started no earlier than t.                 *)
Started(c, t) == {r \in Requests : /\ req[r].client = c
                                   /\ req[r].at # Never /\ req[r].at >= t}

(* What the rate rests on: no start is younger than the clock, and for every *)
(* instant that is still in the window, the starts from then on are in the   *)
(* part of the deque from then on.                                           *)
RateInv ==
  /\ recent \in [Clients -> Seq(Nat)]
  /\ \A r \in Requests : req[r].at <= clock
  /\ Rpm > 0 =>
       \A c \in Clients :
         /\ Len(recent[c]) <= Rpm
         /\ \A t \in Int :
              t >= clock - Window =>
                Cardinality(Started(c, t)) <= Len(From(recent[c], t))

LEMMA StartedFinite ==
  ASSUME NEW c, NEW t
  PROVE  /\ IsFiniteSet(Started(c, t)) /\ IsFiniteSet(Started(c, t)')
         /\ Cardinality(Started(c, t)) \in Nat
<1>1. Started(c, t) \subseteq Requests /\ Started(c, t)' \subseteq Requests
  BY DEF Started
<1>2. IsFiniteSet(Started(c, t)) /\ IsFiniteSet(Started(c, t)')
  BY <1>1, FS_Subset, GatewayAssumption
<1> QED
  BY <1>2, FS_CardinalityType

LEMMA RateInit == Init => RateInv
<1> SUFFICES ASSUME Init PROVE RateInv
  OBVIOUS
<1>1. \A r \in Requests : req[r].at = Never
  BY DEF Init
<1>2. recent \in [Clients -> Seq(Nat)] /\ \A c \in Clients : recent[c] = <<>>
  BY DEF Init
<1>3. ASSUME NEW c \in Clients, NEW t \in Int
      PROVE  Cardinality(Started(c, t)) <= Len(From(recent[c], t))
  <2>1. Started(c, t) = {}
    BY <1>1 DEF Started
  <2>2. From(recent[c], t) \in Seq(Nat)
    BY <1>2, FromIs
  <2>3. Len(From(recent[c], t)) \in Nat
    BY <2>2
  <2> QED
    BY <2>1, <2>3, FS_EmptySet
<1>4. \A c \in Clients : Len(recent[c]) <= Rpm
  BY <1>2, GatewayAssumption
<1>5. \A r \in Requests : req[r].at <= clock
  BY <1>1 DEF Never, Init
<1> QED
  BY <1>2, <1>3, <1>4, <1>5 DEF RateInv

(* A step that starts no request and leaves the deques alone.               *)
LEMMA RateKept ==
  ASSUME SlotInv, RateInv, UNCHANGED recent, clock' \in Nat, clock' >= clock,
         \A r \in Requests :
           req'[r].client = req[r].client /\ req'[r].at = req[r].at
  PROVE  RateInv'
<1>1. \A c, t : Started(c, t)' = Started(c, t)
  BY DEF Started
<1>2. \A r \in Requests : req'[r].at <= clock'
  <2> SUFFICES ASSUME NEW r \in Requests PROVE req'[r].at <= clock'
    OBVIOUS
  <2>1. req[r].at \in Int
    BY DEF SlotInv, Never
  <2>2. req[r].at <= clock /\ clock \in Nat
    BY DEF SlotInv, RateInv
  <2> QED
    BY <2>1, <2>2
<1>3. ASSUME Rpm > 0, NEW c \in Clients, NEW t \in Int, t >= clock' - Window
      PROVE  Cardinality(Started(c, t)') <= Len(From(recent'[c], t))
  <2>1. t >= clock - Window
    BY <1>3, GatewayAssumption DEF SlotInv
  <2> QED
    BY <1>1, <1>3, <2>1 DEF RateInv
<1> QED
  BY <1>2, <1>3 DEF RateInv

(* Turning a client away drops only what no window will ever see again.     *)
LEMMA RateTurnAway ==
  ASSUME SlotInv, RateInv, NEW r \in Requests, TurnAway(r)
  PROVE  RateInv'
<1> DEFINE a == req[r].client
<1>1. a \in Clients /\ clock \in Nat /\ Window \in Nat /\ clock - Window \in Int
  BY GatewayAssumption DEF SlotInv
<1>2. /\ \A q \in Requests : req'[q].client = req[q].client /\ req'[q].at = req[q].at
      /\ clock' = clock
  BY DEF TurnAway, SlotInv
<1>3. /\ recent \in [Clients -> Seq(Nat)]
      /\ recent' = [recent EXCEPT ![a] = From(recent[a], clock - Window)]
  BY DEF RateInv, TurnAway, InWindow
<1> HIDE DEF a
<1>4. ASSUME NEW c \in Clients
      PROVE  /\ recent[c] \in Seq(Nat)
             /\ recent'[c] = IF c = a THEN From(recent[a], clock - Window)
                             ELSE recent[c]
  BY <1>1, <1>3
<1>5. From(recent[a], clock - Window) \in Seq(Nat)
  BY <1>1, <1>4, FromIs
<1>6. recent' \in [Clients -> Seq(Nat)]
  BY <1>3, <1>5
<1>7. \A c, t : Started(c, t)' = Started(c, t)
  BY <1>2 DEF Started
<1>8. ASSUME Rpm > 0, NEW c \in Clients
      PROVE  Len(recent'[c]) <= Rpm
  <2>1. Len(recent[c]) <= Rpm /\ recent[c] \in Seq(Nat)
    BY <1>4, <1>8 DEF RateInv
  <2>2. Len(From(recent[c], clock - Window)) <= Len(recent[c])
    BY <1>1, <2>1, DropsOnly
  <2>3. Len(recent[c]) \in Nat /\ Len(From(recent[c], clock - Window)) \in Nat
    BY <1>1, <2>1, DropsOnly
  <2> QED
    BY <1>4, <2>1, <2>2, <2>3, GatewayAssumption
<1>9. ASSUME Rpm > 0, NEW c \in Clients, NEW t \in Int, t >= clock' - Window
      PROVE  Cardinality(Started(c, t)') <= Len(From(recent'[c], t))
  <2>1. Cardinality(Started(c, t)) <= Len(From(recent[c], t))
    BY <1>2, <1>9 DEF RateInv
  <2>2. Len(From(From(recent[c], clock - Window), t)) = Len(From(recent[c], t))
    BY <1>1, <1>2, <1>4, <1>9, FromFrom
  <2> QED
    BY <1>4, <1>7, <2>1, <2>2
<1>10. \A q \in Requests : req'[q].at <= clock'
  BY <1>2 DEF RateInv
<1> QED
  BY <1>6, <1>8, <1>9, <1>10 DEF RateInv

(* A start joins the deque and the requests it counts together.             *)
LEMMA RateAdmit ==
  ASSUME SlotInv, RateInv, NEW r \in Requests, Admit(r)
  PROVE  RateInv'
<1> DEFINE a == req[r].client
           d == From(recent[a], clock - Window)
<1>1. a \in Clients /\ clock \in Nat /\ Window \in Nat /\ clock - Window \in Int
  BY GatewayAssumption DEF SlotInv
<1>2. /\ \A q \in Requests \ {r} : req'[q] = req[q]
      /\ req'[r].client = a /\ req'[r].at = clock /\ clock' = clock
  BY DEF Admit, SlotInv
<1>3. recent \in [Clients -> Seq(Nat)]
  BY DEF RateInv
<1>4. recent' = IF Rpm = 0 THEN recent
                ELSE [recent EXCEPT ![a] = Append(d, clock)]
  BY DEF Admit, InWindow
<1>5. ~(Rpm > 0 /\ Len(d) >= Rpm)
  BY DEF Admit, RateExceeded, InWindow
<1> HIDE DEF a
<1>6. d \in Seq(Nat) /\ recent[a] \in Seq(Nat)
  BY <1>1, <1>3, FromIs
<1> HIDE DEF d
<1>7. /\ Append(d, clock) \in Seq(Nat)
      /\ Len(Append(d, clock)) = Len(d) + 1 /\ Len(d) \in Nat
  BY <1>1, <1>6, AppendProperties
<1>8. recent' \in [Clients -> Seq(Nat)]
  BY <1>3, <1>4, <1>7
<1>9. \A q \in Requests : req'[q].at <= clock'
  BY <1>1, <1>2 DEF RateInv
<1>10. ASSUME Rpm > 0, NEW c \in Clients
       PROVE  recent'[c] = IF c = a THEN Append(d, clock) ELSE recent[c]
  BY <1>1, <1>3, <1>4, <1>10
<1>11. ASSUME Rpm > 0, NEW c \in Clients
       PROVE  Len(recent'[c]) <= Rpm
  <2>1. CASE c = a
    <3>1. Len(d) < Rpm /\ Rpm \in Nat
      BY <1>5, <1>7, <1>11, GatewayAssumption
    <3>2. recent'[c] = Append(d, clock)
      BY <1>10, <1>11, <2>1
    <3>3. Len(recent'[c]) = Len(d) + 1
      BY <1>7, <3>2
    <3> QED
      BY <1>7, <3>1, <3>3
  <2>2. CASE c # a
    BY <1>10, <1>11, <2>2 DEF RateInv
  <2> QED
    BY <2>1, <2>2
<1>12. ASSUME Rpm > 0, NEW c \in Clients, NEW t \in Int, t >= clock' - Window
       PROVE  Cardinality(Started(c, t)') <= Len(From(recent'[c], t))
  <2>1. Cardinality(Started(c, t)) <= Len(From(recent[c], t))
    BY <1>2, <1>12 DEF RateInv
  <2>2. CASE c # a
    <3>1. Started(c, t)' \subseteq Started(c, t)
      BY <1>2, <2>2 DEF Started
    <3>2. Cardinality(Started(c, t)') <= Cardinality(Started(c, t))
      BY <3>1, StartedFinite, FS_Subset
    <3>3. Len(From(recent[c], t)) \in Nat
      BY <1>3, DropsOnly
    <3>4. Cardinality(Started(c, t)') \in Nat /\ Cardinality(Started(c, t)) \in Nat
      BY StartedFinite, FS_CardinalityType
    <3> QED
      BY <1>10, <1>12, <2>1, <2>2, <3>2, <3>3, <3>4
  <2>3. CASE c = a /\ t > clock
    <3>1. Started(c, t)' = {}
      <4> SUFFICES ASSUME NEW q \in Requests, req'[q].at # Never, req'[q].at >= t
                   PROVE  FALSE
        BY DEF Started
      <4>1. req'[q].at \in Int
        BY <1>1, <1>2 DEF SlotInv, Never
      <4>2. req'[q].at <= clock
        BY <1>2, <1>9
      <4> QED
        BY <1>1, <2>3, <4>1, <4>2
    <3>2. Cardinality(Started(c, t)') = 0
      BY <3>1, FS_EmptySet
    <3>3. Len(From(recent'[c], t)) \in Nat
      BY <1>8, DropsOnly
    <3> QED
      BY <3>2, <3>3
  <2>4. CASE c = a /\ t <= clock
    <3>1. Started(c, t)' \subseteq Started(c, t) \union {r}
      BY <1>2 DEF Started
    <3> DEFINE T == Started(c, t)
    <3>a. IsFiniteSet(T) /\ Cardinality(T) \in Nat
      BY StartedFinite
    <3> HIDE DEF T
    <3>b. IsFiniteSet(T \union {r}) /\ Cardinality(T \union {r}) <= Cardinality(T) + 1
      <4>1. /\ IsFiniteSet(T \union {r})
            /\ Cardinality(T \union {r}) = IF r \in T THEN Cardinality(T)
                                           ELSE Cardinality(T) + 1
        BY <3>a, FS_AddElement
      <4> QED
        BY <3>a, <4>1
    <3>2. /\ IsFiniteSet(Started(c, t) \union {r})
          /\ Cardinality(Started(c, t) \union {r}) <= Cardinality(Started(c, t)) + 1
      BY <3>b DEF T
    <3>3. /\ Cardinality(Started(c, t)') <= Cardinality(Started(c, t) \union {r})
          /\ Cardinality(Started(c, t)') \in Nat
          /\ Cardinality(Started(c, t) \union {r}) \in Nat
      BY <3>1, <3>2, StartedFinite, FS_Subset, FS_CardinalityType
    <3>4. Len(From(d, t)) = Len(From(recent[a], t))
      BY <1>1, <1>2, <1>6, <1>12, FromFrom DEF d
    <3>5. Len(From(Append(d, clock), t)) = Len(From(d, t)) + 1
      BY <1>1, <1>6, <2>4, FromAppend
    <3>6. Len(From(d, t)) \in Nat
      BY <1>6, DropsOnly
    <3>7. recent'[c] = Append(d, clock)
      BY <1>10, <1>12, <2>4
    <3>8. Cardinality(Started(c, t)) <= Len(From(d, t))
      BY <2>1, <2>4, <3>4
    <3>9. Cardinality(Started(c, t)) \in Nat
      BY StartedFinite
    <3> QED
      BY <3>2, <3>3, <3>5, <3>6, <3>7, <3>8, <3>9
  <2> QED
    BY <1>1, <1>12, <2>2, <2>3, <2>4
<1> QED
  BY <1>8, <1>9, <1>11, <1>12 DEF RateInv

LEMMA RateStep == SlotInv /\ RateInv /\ [Next]_vars => RateInv'
<1> SUFFICES ASSUME SlotInv, RateInv, [Next]_vars PROVE RateInv'
  OBVIOUS
<1>0. clock \in Nat /\ clock <= clock
  BY DEF SlotInv
<1>1. ASSUME NEW r \in Requests, TurnAway(r) PROVE RateInv'
  BY <1>1, RateTurnAway
<1>2. ASSUME NEW r \in Requests, Admit(r) PROVE RateInv'
  BY <1>2, RateAdmit
<1>3. ASSUME NEW r \in Requests,
             Resolve(r) \/ Answer(r) \/ Return(r) \/ Relay(r) \/ Slip(r)
      PROVE  RateInv'
  <2>1. /\ \A q \in Requests : req'[q].client = req[q].client /\ req'[q].at = req[q].at
        /\ recent' = recent /\ clock' = clock
    <3>1. CASE Resolve(r)
      BY <3>1 DEF Resolve, SlotInv
    <3>2. ASSUME NEW from, NEW to, Move(r, from, to)
          PROVE  /\ \A q \in Requests : req'[q].client = req[q].client
                                        /\ req'[q].at = req[q].at
                 /\ recent' = recent /\ clock' = clock
      BY <3>2 DEF Move, SlotInv
    <3> QED
      BY <1>3, <3>1, <3>2 DEF Answer, Return, Relay, Slip
  <2> QED
    BY <1>0, <2>1, RateKept
<1>4. ASSUME NEW c \in Clients, SetLimit(c) PROVE RateInv'
  BY <1>0, <1>4, RateKept DEF SetLimit
<1>5. CASE Tick
  <2>1. clock' \in Nat /\ clock' >= clock /\ req' = req /\ recent' = recent
    BY <1>0, <1>5 DEF Tick
  <2> QED
    BY <2>1, RateKept
<1>6. CASE UNCHANGED vars
  BY <1>0, <1>6, RateKept DEF vars
<1> QED
  BY <1>1, <1>2, <1>3, <1>4, <1>5, <1>6 DEF Next

(* However requests, answers, limit changes and the clock interleave, no    *)
(* window of Window seconds sees more than Rpm starts of one client         *)
(* (Limiter.check_rate), for any requests, clients, window and limit.       *)
THEOREM RateIsKept == Spec => []RateHolds
<1>1. RateInv /\ SlotInv => RateHolds
  <2> SUFFICES ASSUME RateInv, SlotInv, Rpm > 0, NEW c \in Clients
               PROVE  Cardinality(Started(c, clock - Window)) <= Rpm
    BY DEF RateHolds, Started
  <2>1. clock - Window \in Int /\ clock - Window >= clock - Window
    BY GatewayAssumption DEF SlotInv
  <2>2. /\ recent[c] \in Seq(Nat) /\ Len(recent[c]) <= Rpm
        /\ Cardinality(Started(c, clock - Window))
             <= Len(From(recent[c], clock - Window))
    BY <2>1 DEF RateInv
  <2>3. Len(From(recent[c], clock - Window)) <= Len(recent[c])
        /\ Len(From(recent[c], clock - Window)) \in Nat /\ Len(recent[c]) \in Nat
    BY <2>1, <2>2, DropsOnly
  <2>4. Cardinality(Started(c, clock - Window)) \in Nat
    BY StartedFinite
  <2> QED
    BY <2>2, <2>3, <2>4, GatewayAssumption
<1> QED
  BY <1>1, SlotInit, SlotNext, RateInit, RateStep, PTL DEF Spec

(* A client turned away that waits as long as its Retry-After says is not   *)
(* turned away for the same starts: by then the oldest of them has left the *)
(* window, so fewer than Rpm are left (Limiter.check_rate).                 *)
THEOREM RetryIsHonest == Spec => []RetryHonest
<1>1. RateInv /\ SlotInv => RetryHonest
  <2> SUFFICES ASSUME RateInv, SlotInv, NEW c \in Clients, RateExceeded(c)
               PROVE  Len(InWindow(recent[c], clock + RetryAfter(c))) < Rpm
    BY DEF RetryHonest
  <2> DEFINE q == recent[c]
             t == clock - Window
             k == Oldest(q, t)
             u == (clock + RetryAfter(c)) - Window
             w == Oldest(q, u)
  <2>1. clock \in Nat /\ Window \in Nat /\ Rpm \in Nat /\ t \in Int
    BY GatewayAssumption DEF SlotInv
  <2>2. q \in Seq(Nat) /\ Rpm > 0 /\ Len(q) <= Rpm /\ Len(From(q, t)) >= Rpm
    BY DEF RateInv, RateExceeded, InWindow
  <2>3. /\ k \in 1..(Len(q) + 1) /\ \A j \in 1..(k - 1) : q[j] < t
        /\ k <= Len(q) => q[k] >= t
    BY <2>1, <2>2, OldestIs
  <2>4. /\ Len(From(q, t)) = Len(q) + 1 - k
        /\ \A i \in 1..Len(From(q, t)) : From(q, t)[i] = q[k + i - 1]
    BY <2>1, <2>2, FromIs
  <2>5. RetryAfter(c) = AtLeastOne(From(q, t)[1] + Window - clock + 1)
    BY DEF RetryAfter, InWindow
  <2>6. Len(q) \in Nat /\ \A j \in 1..Len(q) : q[j] \in Nat
    BY <2>2
  <2>7. InWindow(q, clock + RetryAfter(c)) = From(q, u)
    <3>1. \A n : InWindow(q, n) = From(q, n - Window)
      BY DEF InWindow
    <3> QED
      BY <3>1
  <2> HIDE DEF q, k
  <2>8. /\ 1 \in 1..Len(From(q, t)) /\ k + 1 - 1 = k
        /\ k \in 1..Len(q) /\ k = 1 /\ Len(q) = Rpm
    BY <2>1, <2>2, <2>3, <2>4, <2>6
  <2>9. From(q, t)[1] = q[k] /\ q[k] \in Nat /\ q[k] >= t
    BY <2>3, <2>4, <2>6, <2>8
  <2>10. RetryAfter(c) = q[k] + Window - clock + 1
    BY <2>1, <2>5, <2>9 DEF AtLeastOne
  <2>11. u = q[k] + 1 /\ u \in Int
    BY <2>1, <2>9, <2>10
  <2>12. /\ w \in 1..(Len(q) + 1)
         /\ w <= Len(q) => q[w] >= u
         /\ Len(From(q, u)) = Len(q) + 1 - w
    BY <2>2, <2>11, OldestIs, FromIs
  <2> HIDE DEF t, u, w
  <2>13. w # 1
    BY <2>8, <2>9, <2>11, <2>12
  <2> QED
    BY <2>6, <2>7, <2>8, <2>12, <2>13 DEF q
<1> QED
  BY <1>1, SlotInit, SlotNext, RateInit, RateStep, PTL DEF Spec
-----------------------------------------------------------------------------
NameRows == [status : Statuses, started : Nat, set : Settings]
NameJobs == [pc : {"none", "loaded", "launching", "stopping"},
             with : Launched, since : Edits]

(* The gateway reaches with `set` and `ep` what was launched with `launch`, *)
(* unless something was edited since.                                       *)
Reached(set, ep, launch, gone) ==
  \/ "row" \in gone
  \/ set.member /\ "endpoint" \in gone
  \/ /\ Address(set, ep) = launch.at
     /\ ~set.member => OwnNames(set.names) = launch.names

(* What a start loaded is the row's and the endpoint's, but for edits since;*)
(* and so is what an up unit was launched with.                             *)
LaunchKept(r, ep, u, j, gone) ==
  /\ j.pc \in {"loaded", "launching"} => Reached(r.set, ep, j.with, j.since)
  /\ u.up => Reached(r.set, ep, u, gone)

(* A stopped instance has no unit up, nor has one being stopped.            *)
StoppedIsDown(r, u, j) ==
  /\ r.status = "stopped" => ~u.up /\ j.pc # "launching"
  /\ j.pc = "stopping" => ~u.up

(* Whoever may serve has started, no later than now; later starts have      *)
(* later turns.                                                             *)
StartsOrdered(rows, turns, m) ==
  /\ \A i \in Served : rows[i].started <= m
  /\ \A i \in Served : rows[i].status # "stopped" => rows[i].started # 0
  /\ \A i, j \in Served :
       rows[j].started # 0 /\ rows[i].started > rows[j].started => turns[i] > turns[j]

NamesIInv ==
  /\ NamesTypeOK
  /\ \A i \in Served : patch[i] \in {NotEditing, "stopped", "error"}
  /\ \A i \in Served : LaunchKept(row[i], endpoint, unit[i], job[i], passed[i])
  /\ \A i \in Served : StoppedIsDown(row[i], unit[i], job[i])
  /\ StartsOrdered(row, turn, moment)

LEMMA NameFacts ==
  ASSUME NamesTypeOK
  PROVE  /\ row \in [Served -> NameRows] /\ endpoint \in Endpoints
         /\ unit \in [Served -> Launched] /\ job \in [Served -> NameJobs]
         /\ patch \in [Served -> Statuses \union {NotEditing}]
         /\ moment \in Nat /\ turn \in [Served -> 0..MaxStarts]
         /\ passed \in [Served -> Edits] /\ changes \in 0..MaxChanges
         /\ MaxStarts \in Nat /\ MaxChanges \in Nat /\ Served \subseteq Nat \ {0}
BY NamesBounds, NamesAssumption DEF NamesTypeOK, NameRows, NameJobs, Served

LEMMA NameTyped ==
  ASSUME row \in [Served -> NameRows], endpoint \in Endpoints,
         unit \in [Served -> Launched], job \in [Served -> NameJobs],
         patch \in [Served -> Statuses \union {NotEditing}],
         moment \in 1..(MaxStarts + 1), turn \in [Served -> 0..MaxStarts],
         passed \in [Served -> Edits], changes \in 0..MaxChanges
  PROVE  NamesTypeOK
BY DEF NamesTypeOK, NameRows, NameJobs

LEMMA RowFieldsN ==
  ASSUME NEW r \in NameRows
  PROVE  /\ r.status \in Statuses /\ r.started \in Nat /\ r.set \in Settings
         /\ \A s \in Statuses : /\ [r EXCEPT !.status = s] \in NameRows
                                /\ [r EXCEPT !.status = s].status = s
                                /\ [r EXCEPT !.status = s].started = r.started
                                /\ [r EXCEPT !.status = s].set = r.set
         /\ \A s \in Settings : /\ [r EXCEPT !.set = s] \in NameRows
                                /\ [r EXCEPT !.set = s].status = r.status
                                /\ [r EXCEPT !.set = s].started = r.started
                                /\ [r EXCEPT !.set = s].set = s
BY DEF NameRows

LEMMA JobFieldsN ==
  ASSUME NEW j \in NameJobs
  PROVE  /\ j.pc \in {"none", "loaded", "launching", "stopping"} /\ j.with \in Launched
         /\ j.since \in Edits
         /\ \A p \in {"launching", "stopping"} :
              /\ [j EXCEPT !.pc = p] \in NameJobs
              /\ [j EXCEPT !.pc = p].pc = p
              /\ [j EXCEPT !.pc = p].with = j.with
              /\ [j EXCEPT !.pc = p].since = j.since
BY DEF NameJobs

LEMMA NoNames ==
  /\ NoLaunch \in Launched /\ NoLaunch.up = FALSE
  /\ NoJob \in NameJobs /\ NoJob.pc = "none"
<1>1. NoLaunch \in Launched /\ NoLaunch.up = FALSE
  BY DEF NoLaunch, Launched
<1> QED BY <1>1 DEF NoJob, NameJobs, Edits

LEMMA LaunchIs ==
  ASSUME NEW set \in Settings, NEW ep \in Endpoints
  PROVE  /\ Launch(set, ep) \in Launched
         /\ \A gone : Reached(set, ep, Launch(set, ep), gone)
<1>1. set.names \in SUBSET Names /\ set.member \in BOOLEAN /\ ep.aliases \in SUBSET Names
  BY DEF Settings, Endpoints
<1>2. Address(set, ep) \in {"own", "pinned", "sidecar"}
  BY DEF Address
<1>3. PICK names : names = IF set.member /\ ep.aliases # {} THEN ep.aliases ELSE set.names
  OBVIOUS
<1>4. names \in SUBSET Names /\ (~set.member => names = set.names)
  BY <1>1, <1>3
<1>5. OwnNames(names) \in SUBSET Names
  BY <1>4 DEF OwnNames, Names
<1>6. Launch(set, ep) = [up |-> TRUE, at |-> Address(set, ep), names |-> OwnNames(names)]
  BY <1>3 DEF Launch
<1>7. Launch(set, ep) \in Launched
  BY <1>2, <1>5, <1>6 DEF Launched
<1>8. /\ Launch(set, ep).at = Address(set, ep)
      /\ ~set.member => OwnNames(set.names) = Launch(set, ep).names
  BY <1>4, <1>6
<1> QED BY <1>7, <1>8 DEF Reached

(* An edit of the row, and one of the endpoint.                             *)
LEMMA RowEdited ==
  ASSUME NEW set, NEW ep, NEW l, NEW gone
  PROVE  Reached(set, ep, l, gone \union {"row"})
BY DEF Reached

LEMMA EndpointEdited ==
  ASSUME NEW set \in Settings, NEW ep, NEW ep2, NEW l, NEW gone, Reached(set, ep, l, gone)
  PROVE  Reached(set, ep2, l, gone \union {"endpoint"})
<1>1. set.member \in BOOLEAN
  BY DEF Settings
<1>2. CASE set.member
  BY <1>2 DEF Reached
<1>3. CASE ~set.member
  <2>1. Address(set, ep) = Address(set, ep2)
    BY <1>3 DEF Address
  <2> QED BY <1>3, <2>1 DEF Reached
<1> QED BY <1>1, <1>2, <1>3

(***************************************************************************)
(* The number of a turn, and the first in the order.                        *)
(***************************************************************************)
LEMMA TurnsGrow ==
  ASSUME NamesTypeOK
  PROVE  /\ NextTurn \in Nat
         /\ \A i \in Served : turn[i] < NextTurn
<1>1. PICK T : T = {t \in 1..MaxStarts : \E i \in Served : turn[i] >= t}
  OBVIOUS
<1>2. NextTurn = Cardinality(T) + 1 /\ T \subseteq 1..MaxStarts
  BY <1>1 DEF NextTurn
<1>3. MaxStarts \in Nat /\ turn \in [Served -> 0..MaxStarts]
  BY NameFacts
<1>4. IsFiniteSet(1..MaxStarts)
  BY <1>3, FS_Interval
<1>5. IsFiniteSet(T) /\ Cardinality(T) \in Nat
  BY <1>2, <1>4, FS_Subset, FS_CardinalityType
<1>6. ASSUME NEW i \in Served PROVE turn[i] < NextTurn
  <2>1. PICK n \in 0..MaxStarts : n = turn[i]
    BY <1>3
  <2>2. 1..n \subseteq T
    <3>1. \A t \in 1..n : t \in 1..MaxStarts /\ turn[i] >= t
      BY <1>3, <2>1
    <3> QED BY <1>1, <3>1
  <2>3. Cardinality(1..n) = n
    BY <2>1, FS_Interval
  <2>4. n <= Cardinality(T)
    BY <1>5, <2>2, <2>3, FS_Subset
  <2> QED BY <1>2, <1>5, <2>1, <2>4
<1> QED BY <1>2, <1>5, <1>6

LEMMA GreatestNatural ==
  ASSUME NEW S \in SUBSET Nat, S # {}, NEW b \in Nat, \A n \in S : n <= b
  PROVE  \E n \in S : \A m \in S : m <= n
<1>1. PICK U : U = {b - n : n \in S}
  OBVIOUS
<1>2. U \in SUBSET Nat /\ U # {}
  <2>1. \A n \in S : n \in Nat /\ n <= b
    OBVIOUS
  <2>2. \A n \in S : b - n \in Nat
    BY <2>1
  <2> QED BY <1>1, <2>2
<1>3. PICK u \in U : \A v \in U : ~(<<v, u>> \in OpToRel(<, Nat))
  BY <1>2, NatLessThanWellFounded, WFMin
<1>4. PICK n \in S : u = b - n
  BY <1>1, <1>3
<1>5. \A m \in S : m <= n
  <2> TAKE m \in S
  <2>1. b - m \in U /\ b - m \in Nat
    BY <1>1, <1>2
  <2>2. ~(b - m < u)
    BY <1>2, <1>3, <2>1 DEF OpToRel
  <2> QED BY <1>4, <2>2
<1> QED BY <1>5

LEMMA FirstExists ==
  ASSUME NamesTypeOK, NEW M \in SUBSET Served, M # {},
         \A i \in Served : row[i].started <= moment
  PROVE  \E i \in M : \A j \in M \ {i} : Before(i, j)
<1>1. /\ \A i \in Served : row[i].started \in Nat
      /\ moment \in Nat /\ Served \subseteq Nat
  BY NameFacts, RowFieldsN
<1>2. PICK S : S = {row[i].started : i \in M}
  OBVIOUS
<1>3. S \in SUBSET Nat /\ S # {} /\ \A n \in S : n <= moment
  BY <1>1, <1>2
<1>4. PICK top \in S : \A n \in S : n <= top
  BY <1>1, <1>3, GreatestNatural
<1>5. PICK L : L = {i \in M : row[i].started = top}
  OBVIOUS
<1>6. L \in SUBSET Nat /\ L # {} /\ NumInstances \in Nat /\ \A n \in L : n <= NumInstances
  <2>1. L \subseteq Served /\ L \subseteq M
    BY <1>5
  <2>2. L # {}
    BY <1>2, <1>4, <1>5
  <2>3. \A n \in L : n \in Nat /\ n <= NumInstances
    BY <2>1, NamesAssumption DEF Served
  <2> QED BY <2>2, <2>3, NamesAssumption
<1>7. PICK i \in L : \A j \in L : j <= i
  BY <1>6, GreatestNatural
<1>8. i \in M /\ row[i].started = top
  BY <1>5
<1>9. ASSUME NEW j \in M \ {i} PROVE Before(i, j)
  <2>1. row[j].started <= top /\ row[j].started \in Nat /\ top \in Nat
    BY <1>1, <1>2, <1>3, <1>4
  <2>2. CASE row[j].started = top
    <3>1. j <= i /\ i # j /\ i \in Nat /\ j \in Nat
      BY <1>1, <1>5, <1>7, <1>8, <2>2
    <3> QED BY <1>8, <2>2, <3>1 DEF Before
  <2>3. CASE row[j].started < top
    BY <1>8, <2>1, <2>3 DEF Before
  <2> QED BY <2>1, <2>2, <2>3
<1> QED BY <1>8, <1>9

(* The order puts the latest first.                                         *)
LEMMA LatestIsFirst ==
  ASSUME NamesIInv
  PROVE  LatestTakesOver
<1> SUFFICES ASSUME NEW n \in Names, Matches(n) # {}, NEW j \in Matches(n) \ {Resolved(n)}
             PROVE  /\ n \in Collisions
                    /\ \/ turn[Resolved(n)] > turn[j]
                       \/ row[Resolved(n)].started = row[j].started
  BY DEF LatestTakesOver
<1>1. NamesTypeOK /\ StartsOrdered(row, turn, moment)
  BY DEF NamesIInv
<1>2. Matches(n) \in SUBSET Served /\ \A i \in Matches(n) : row[i].status = "running"
  BY DEF Matches, Running
<1>3. \E i \in Matches(n) : \A k \in Matches(n) \ {i} : Before(i, k)
  BY <1>1, <1>2, FirstExists DEF StartsOrdered
<1>4. PICK f : f = Resolved(n)
  OBVIOUS
<1>5. f \in Matches(n) /\ \A k \in Matches(n) \ {f} : Before(f, k)
  BY <1>3, <1>4 DEF Resolved
<1>6. n \in Collisions
  BY <1>4, <1>5 DEF Collisions
<1>7. Before(f, j) /\ f \in Served /\ j \in Served
  BY <1>2, <1>4, <1>5
<1>8. row[f].started # 0 /\ row[j].started # 0
  BY <1>1, <1>2, <1>5, <1>7 DEF StartsOrdered
<1>9. turn[f] > turn[j] \/ row[f].started = row[j].started
  BY <1>1, <1>7, <1>8 DEF Before, StartsOrdered
<1> QED BY <1>4, <1>6, <1>9

LEMMA ReachedIs ==
  ASSUME NamesIInv
  PROVE  ReachedAsLaunched
<1> SUFFICES ASSUME NEW i \in Running, unit[i].up
             PROVE  \/ "row" \in passed[i]
                    \/ row[i].set.member /\ "endpoint" \in passed[i]
                    \/ /\ Address(row[i].set, endpoint) = unit[i].at
                       /\ ~row[i].set.member => ServedNames(i) = unit[i].names
  BY DEF ReachedAsLaunched
<1>1. i \in Served
  BY DEF Running
<1>2. Reached(row[i].set, endpoint, unit[i], passed[i])
  BY <1>1 DEF NamesIInv, LaunchKept
<1> QED BY <1>2 DEF Reached, ServedNames

(***************************************************************************)
(* The steps.                                                               *)
(***************************************************************************)
LEMMA NamesStart == NamesInit => NamesIInv
<1> SUFFICES ASSUME NamesInit PROVE NamesIInv
  OBVIOUS
<1>1. PICK m \in BOOLEAN :
        row = [i \in Served |-> [status |-> "stopped", started |-> 0,
                                 set |-> [NoSetting EXCEPT !.member = m, !.tls = m]]]
  BY DEF NamesInit
<1>2. PICK set : set = [NoSetting EXCEPT !.member = m, !.tls = m]
  OBVIOUS
<1>3. set \in Settings
  BY <1>2 DEF Settings, NoSetting
<1>4. PICK r : r = [status |-> "stopped", started |-> 0, set |-> set]
  OBVIOUS
<1>5. r \in NameRows /\ r.status = "stopped" /\ r.started = 0
  BY <1>3, <1>4 DEF NameRows, Statuses
<1>6. \A i \in Served : row[i] = r
  BY <1>1, <1>2, <1>4
<1>7. row \in [Served -> NameRows]
  BY <1>1, <1>5, <1>6
<1>8. /\ endpoint \in Endpoints
  BY DEF NamesInit, Endpoints, Names
<1>9. /\ \A i \in Served : unit[i] = NoLaunch /\ job[i] = NoJob /\ passed[i] = {}
      /\ \A i \in Served : patch[i] = NotEditing /\ turn[i] = 0
      /\ moment = 1 /\ changes = 0
  BY DEF NamesInit
<1>10. /\ unit \in [Served -> Launched] /\ job \in [Served -> NameJobs]
       /\ patch \in [Served -> Statuses \union {NotEditing}]
       /\ turn \in [Served -> 0..MaxStarts] /\ passed \in [Served -> Edits]
       /\ moment \in 1..(MaxStarts + 1) /\ changes \in 0..MaxChanges
  BY NoNames, NamesBounds DEF NamesInit, Edits
<1>11. NamesTypeOK
  BY <1>7, <1>8, <1>10, NameTyped
<1>12. StartsOrdered(row, turn, moment)
  BY <1>5, <1>6, <1>9 DEF StartsOrdered
<1>13. ASSUME NEW i \in Served
       PROVE  /\ LaunchKept(row[i], endpoint, unit[i], job[i], passed[i])
              /\ StoppedIsDown(row[i], unit[i], job[i])
  BY <1>9, NoNames DEF LaunchKept, StoppedIsDown
<1> QED BY <1>9, <1>11, <1>12, <1>13 DEF NamesIInv

(* A step that changes instance k, and nothing of the others.               *)
LEMMA OneInstance ==
  ASSUME NamesIInv, NEW k \in Served, NEW r \in NameRows, NEW u \in Launched,
         NEW j \in NameJobs, NEW p \in {NotEditing, "stopped", "error"}, NEW g \in Edits,
         row' = [row EXCEPT ![k] = r], unit' = [unit EXCEPT ![k] = u],
         job' = [job EXCEPT ![k] = j], patch' = [patch EXCEPT ![k] = p],
         passed' = [passed EXCEPT ![k] = g], endpoint' = endpoint,
         moment' \in 1..(MaxStarts + 1), turn' \in [Served -> 0..MaxStarts],
         changes' \in 0..MaxChanges,
         LaunchKept(r, endpoint, u, j, g), StoppedIsDown(r, u, j),
         StartsOrdered(row', turn', moment')
  PROVE  NamesIInv'
<1>1. NamesTypeOK
  BY DEF NamesIInv
<1>2. /\ row \in [Served -> NameRows] /\ endpoint \in Endpoints
      /\ unit \in [Served -> Launched] /\ job \in [Served -> NameJobs]
      /\ patch \in [Served -> Statuses \union {NotEditing}] /\ passed \in [Served -> Edits]
  BY <1>1, NameFacts
<1>3. /\ row' \in [Served -> NameRows] /\ endpoint' \in Endpoints
      /\ unit' \in [Served -> Launched] /\ job' \in [Served -> NameJobs]
      /\ patch' \in [Served -> Statuses \union {NotEditing}] /\ passed' \in [Served -> Edits]
  BY <1>2 DEF Statuses
<1>4. NamesTypeOK'
  BY <1>3 DEF NamesTypeOK, NameRows, NameJobs
<1>5. ASSUME NEW i \in Served
      PROVE  /\ patch'[i] \in {NotEditing, "stopped", "error"}
             /\ LaunchKept(row'[i], endpoint', unit'[i], job'[i], passed'[i])
             /\ StoppedIsDown(row'[i], unit'[i], job'[i])
  <2>1. CASE i = k
    BY <1>2, <2>1
  <2>2. CASE i # k
    <3>1. /\ row'[i] = row[i] /\ unit'[i] = unit[i] /\ job'[i] = job[i]
          /\ patch'[i] = patch[i] /\ passed'[i] = passed[i]
      BY <1>2, <2>2
    <3>2. /\ patch[i] \in {NotEditing, "stopped", "error"}
          /\ LaunchKept(row[i], endpoint, unit[i], job[i], passed[i])
          /\ StoppedIsDown(row[i], unit[i], job[i])
      BY DEF NamesIInv
    <3> QED BY <3>1, <3>2
  <2> QED BY <2>1, <2>2
<1> QED BY <1>4, <1>5 DEF NamesIInv

(* What is the same, written as a change of k.                              *)
LEMMA Unmoved ==
  ASSUME NamesTypeOK, NEW k \in Served
  PROVE  /\ row = [row EXCEPT ![k] = row[k]] /\ unit = [unit EXCEPT ![k] = unit[k]]
         /\ job = [job EXCEPT ![k] = job[k]] /\ patch = [patch EXCEPT ![k] = patch[k]]
         /\ passed = [passed EXCEPT ![k] = passed[k]]
         /\ row[k] \in NameRows /\ unit[k] \in Launched /\ job[k] \in NameJobs
         /\ passed[k] \in Edits
         /\ moment \in 1..(MaxStarts + 1) /\ turn \in [Served -> 0..MaxStarts]
         /\ changes \in 0..MaxChanges
<1>1. /\ row \in [Served -> NameRows] /\ unit \in [Served -> Launched]
      /\ job \in [Served -> NameJobs] /\ patch \in [Served -> Statuses \union {NotEditing}]
      /\ passed \in [Served -> Edits]
  BY NameFacts
<1> QED BY <1>1 DEF NamesTypeOK

(* A row keeps its place in the order, or leaves it.                        *)
LEMMA OrderKept ==
  ASSUME NamesIInv, NEW k \in Served, NEW r \in NameRows,
         \/ r.started = row[k].started /\ (r.status = "stopped" <=> row[k].status = "stopped")
         \/ r.started = row[k].started /\ row[k].started # 0
         \/ r.started = 0 /\ r.status = "stopped"
  PROVE  StartsOrdered([row EXCEPT ![k] = r], turn, moment)
<1>1. StartsOrdered(row, turn, moment) /\ row \in [Served -> NameRows] /\ moment \in Nat
  BY NameFacts DEF NamesIInv
<1>2. PICK rows : rows = [row EXCEPT ![k] = r]
  OBVIOUS
<1>3. rows[k] = r /\ \A i \in Served \ {k} : rows[i] = row[i]
  BY <1>1, <1>2
<1>4. \A i \in Served : row[i].started \in Nat
  BY <1>1, RowFieldsN
<1>5. \A i \in Served : rows[i].started <= moment
  BY <1>1, <1>3, <1>4 DEF StartsOrdered
<1>6. \A i \in Served : rows[i].status # "stopped" => rows[i].started # 0
  BY <1>1, <1>3 DEF StartsOrdered
<1>7. \A i \in Served : rows[i].started = row[i].started \/ rows[i].started = 0
  BY <1>3
<1>8. \A i, j \in Served :
        rows[j].started # 0 /\ rows[i].started > rows[j].started => turn[i] > turn[j]
  BY <1>1, <1>4, <1>7 DEF StartsOrdered
<1>9. StartsOrdered(rows, turn, moment)
  BY <1>5, <1>6, <1>8 DEF StartsOrdered
<1> QED BY <1>2, <1>9

LEMMA PatchBeginKeeps ==
  ASSUME NamesIInv, NEW k \in Served, PatchBegin(k)
  PROVE  NamesIInv'
<1>1. /\ patch' = [patch EXCEPT ![k] = row[k].status] /\ row[k].status \in {"stopped", "error"}
      /\ changes < MaxChanges /\ changes' = changes + 1
      /\ UNCHANGED <<row, endpoint, unit, job, moment, turn, passed>>
  BY DEF PatchBegin, Editable, AtRest
<1>2. NamesTypeOK /\ StartsOrdered(row, turn, moment)
      /\ LaunchKept(row[k], endpoint, unit[k], job[k], passed[k])
      /\ StoppedIsDown(row[k], unit[k], job[k])
  BY DEF NamesIInv
<1>3. changes' \in 0..MaxChanges
  BY <1>1, <1>2, NameFacts
<1>4. StartsOrdered(row', turn', moment')
  BY <1>1, <1>2
<1>5. PICK r \in NameRows, u \in Launched, j \in NameJobs, g \in Edits,
           p \in {row[k].status} :
        r = row[k] /\ u = unit[k] /\ j = job[k] /\ g = passed[k]
  BY <1>2, Unmoved
<1>6. /\ row' = [row EXCEPT ![k] = r] /\ unit' = [unit EXCEPT ![k] = u]
      /\ job' = [job EXCEPT ![k] = j] /\ patch' = [patch EXCEPT ![k] = p]
      /\ passed' = [passed EXCEPT ![k] = g] /\ endpoint' = endpoint
      /\ moment' \in 1..(MaxStarts + 1) /\ turn' \in [Served -> 0..MaxStarts]
  BY <1>1, <1>2, <1>5, Unmoved
<1>7. p \in {NotEditing, "stopped", "error"} /\ LaunchKept(r, endpoint, u, j, g)
      /\ StoppedIsDown(r, u, j)
  BY <1>1, <1>2, <1>5
<1> QED BY <1>3, <1>4, <1>6, <1>7, OneInstance

(* The row is edited: what was loaded, and what is up, is of the row before.*)
LEMMA PatchCommitKeeps ==
  ASSUME NamesIInv, NEW k \in Served, PatchCommit(k)
  PROVE  NamesIInv'
<1>1. PICK s \in [names : {{}} \union {{a} : a \in Aliases}, tls : BOOLEAN,
                  member : BOOLEAN] :
        row' = [row EXCEPT ![k].set = s]
  BY DEF PatchCommit
<1>2. /\ patch[k] # NotEditing
      /\ passed' = IF patch[k] = "error" \/ row[k].status # patch[k]
                   THEN [passed EXCEPT ![k] = @ \union {"row"}] ELSE passed
      /\ job' = IF Starting(k) THEN [job EXCEPT ![k].since = @ \union {"row"}] ELSE job
      /\ patch' = [patch EXCEPT ![k] = NotEditing]
      /\ UNCHANGED <<endpoint, unit, moment, turn, changes>>
  BY DEF PatchCommit
<1>3. NamesTypeOK /\ StartsOrdered(row, turn, moment)
      /\ LaunchKept(row[k], endpoint, unit[k], job[k], passed[k])
      /\ StoppedIsDown(row[k], unit[k], job[k])
      /\ patch[k] \in {NotEditing, "stopped", "error"}
  BY DEF NamesIInv
<1>4. s \in Settings
  BY <1>1 DEF Settings, Names
<1>5. PICK r0 \in NameRows, u \in Launched, j0 \in NameJobs, g0 \in Edits,
           p \in {patch[k]} :
        r0 = row[k] /\ u = unit[k] /\ j0 = job[k] /\ g0 = passed[k]
  BY <1>3, Unmoved
<1>6. PICK r : r = [r0 EXCEPT !.set = s]
  OBVIOUS
<1>7. r \in NameRows /\ r.status = r0.status /\ r.started = r0.started /\ r.set = s
  BY <1>4, <1>6, RowFieldsN
<1>8. PICK g : g = IF p = "error" \/ r0.status # p THEN g0 \union {"row"} ELSE g0
  OBVIOUS
<1>9. g \in Edits
  BY <1>8 DEF Edits
<1>10. PICK j : j = IF j0.pc \in {"loaded", "launching"}
                    THEN [j0 EXCEPT !.since = j0.since \union {"row"}] ELSE j0
  OBVIOUS
<1>11. j0.since \union {"row"} \in Edits
  BY JobFieldsN DEF Edits
<1>12. /\ j \in NameJobs /\ j.pc = j0.pc
       /\ j.pc \in {"loaded", "launching"} => j.since = j0.since \union {"row"}
  <2>1. PICK e \in Edits : e = j0.since \union {"row"}
    BY <1>11
  <2>2. [j0 EXCEPT !.since = e] \in NameJobs /\ [j0 EXCEPT !.since = e].pc = j0.pc
        /\ [j0 EXCEPT !.since = e].since = e
    BY DEF NameJobs
  <2> QED BY <1>10, <2>1, <2>2
<1>13. row' = [row EXCEPT ![k] = r]
  BY <1>1, <1>5, <1>6
<1>14. passed' = [passed EXCEPT ![k] = g]
  <2>1. CASE p = "error" \/ r0.status # p
    BY <1>2, <1>5, <1>8, <2>1
  <2>2. CASE ~(p = "error" \/ r0.status # p)
    <3>1. passed' = passed /\ g = passed[k]
      BY <1>2, <1>5, <1>8, <2>2
    <3> QED BY <3>1, <1>3, Unmoved
  <2> QED BY <2>1, <2>2
<1>15. job' = [job EXCEPT ![k] = j]
  <2>1. CASE Starting(k)
    BY <1>2, <1>5, <1>10, <2>1 DEF Starting
  <2>2. CASE ~Starting(k)
    <3>1. job' = job /\ j = job[k]
      BY <1>2, <1>5, <1>10, <2>2 DEF Starting
    <3> QED BY <3>1, <1>3, Unmoved
  <2> QED BY <2>1, <2>2
<1>16. unit' = [unit EXCEPT ![k] = u]
  BY <1>2, <1>3, <1>5, Unmoved
<1>17. LaunchKept(r, endpoint, u, j, g)
  <2>1. j.pc \in {"loaded", "launching"} => Reached(r.set, endpoint, j.with, j.since)
    BY <1>12, RowEdited
  <2>2. ASSUME u.up PROVE Reached(r.set, endpoint, u, g)
    <3>1. r0.status # "stopped"
      BY <1>3, <1>5, <2>2 DEF StoppedIsDown
    <3>2. p = "error" \/ r0.status # p
      BY <1>2, <1>3, <1>5, <3>1
    <3> QED BY <1>8, <3>2, RowEdited
  <2> QED BY <2>1, <2>2 DEF LaunchKept
<1>18. StoppedIsDown(r, u, j)
  BY <1>3, <1>5, <1>7, <1>12 DEF StoppedIsDown
<1>19. StartsOrdered(row', turn', moment')
  BY <1>2, <1>5, <1>7, <1>13, OrderKept
<1>20. /\ moment' \in 1..(MaxStarts + 1) /\ turn' \in [Served -> 0..MaxStarts]
       /\ changes' \in 0..MaxChanges /\ endpoint' = endpoint
  BY <1>2, <1>3, Unmoved
<1>21. PICK none \in {NotEditing, "stopped", "error"} : none = NotEditing
  OBVIOUS
<1>22. patch' = [patch EXCEPT ![k] = none]
  BY <1>2, <1>21
<1> QED
  BY <1>7, <1>9, <1>12, <1>13, <1>14, <1>15, <1>16, <1>17, <1>18, <1>19, <1>20, <1>22,
     OneInstance

(* The endpoint is edited, under every instance.                            *)
LEMMA EditEndpointKeeps ==
  ASSUME NamesIInv, EditEndpoint
  PROVE  NamesIInv'
<1>1. /\ changes < MaxChanges /\ changes' = changes + 1
      /\ endpoint' \in Endpoints
      /\ passed' = [i \in Served |-> IF unit[i].up THEN passed[i] \union {"endpoint"}
                                     ELSE passed[i]]
      /\ job' = [i \in Served |-> IF Starting(i)
                                  THEN [job[i] EXCEPT !.since = @ \union {"endpoint"}]
                                  ELSE job[i]]
      /\ UNCHANGED <<row, unit, patch, moment, turn>>
  BY DEF EditEndpoint
<1>2. NamesTypeOK /\ StartsOrdered(row, turn, moment)
  BY DEF NamesIInv
<1>3. /\ row \in [Served -> NameRows] /\ unit \in [Served -> Launched]
      /\ job \in [Served -> NameJobs] /\ passed \in [Served -> Edits]
      /\ changes \in 0..MaxChanges /\ MaxChanges \in Nat
  BY <1>2, NameFacts
<1>4. ASSUME NEW i \in Served
      PROVE  /\ passed'[i] \in Edits /\ job'[i] \in NameJobs
             /\ LaunchKept(row[i], endpoint', unit[i], job'[i], passed'[i])
             /\ StoppedIsDown(row[i], unit[i], job'[i])
  <2>1. PICK r \in NameRows, u \in Launched, j0 \in NameJobs, g0 \in Edits,
             e \in {endpoint}, e2 \in {endpoint'} :
          r = row[i] /\ u = unit[i] /\ j0 = job[i] /\ g0 = passed[i]
    BY <1>3
  <2>2. LaunchKept(r, e, u, j0, g0) /\ StoppedIsDown(r, u, j0) /\ r.set \in Settings
    BY <2>1, RowFieldsN DEF NamesIInv
  <2>3. PICK g : g = IF u.up THEN g0 \union {"endpoint"} ELSE g0
    OBVIOUS
  <2>4. passed'[i] = g /\ g \in Edits
    BY <1>1, <2>1, <2>3 DEF Edits
  <2>5. j0.since \union {"endpoint"} \in Edits
    BY JobFieldsN DEF Edits
  <2>6. PICK j : j = IF j0.pc \in {"loaded", "launching"}
                     THEN [j0 EXCEPT !.since = j0.since \union {"endpoint"}] ELSE j0
    OBVIOUS
  <2>7. job'[i] = j
    BY <1>1, <2>1, <2>6 DEF Starting
  <2>8. /\ j \in NameJobs /\ j.pc = j0.pc /\ j.with = j0.with
        /\ j.pc \in {"loaded", "launching"} => j.since = j0.since \union {"endpoint"}
    <3>1. PICK d \in Edits : d = j0.since \union {"endpoint"}
      BY <2>5
    <3>2. /\ [j0 EXCEPT !.since = d] \in NameJobs /\ [j0 EXCEPT !.since = d].pc = j0.pc
          /\ [j0 EXCEPT !.since = d].with = j0.with /\ [j0 EXCEPT !.since = d].since = d
      BY DEF NameJobs
    <3> QED BY <2>6, <3>1, <3>2
  <2>9. LaunchKept(r, e2, u, j, g)
    <3>1. ASSUME j.pc \in {"loaded", "launching"}
          PROVE  Reached(r.set, e2, j.with, j.since)
      <4>1. Reached(r.set, e, j0.with, j0.since)
        BY <2>2, <2>8, <3>1 DEF LaunchKept
      <4>2. Reached(r.set, e2, j0.with, j0.since \union {"endpoint"})
        BY <2>2, <4>1, EndpointEdited
      <4> QED BY <2>8, <3>1, <4>2
    <3>2. ASSUME u.up PROVE Reached(r.set, e2, u, g)
      <4>1. Reached(r.set, e, u, g0)
        BY <2>2, <3>2 DEF LaunchKept
      <4>2. Reached(r.set, e2, u, g0 \union {"endpoint"})
        BY <2>2, <4>1, EndpointEdited
      <4> QED BY <2>3, <3>2, <4>2
    <3> QED BY <3>1, <3>2 DEF LaunchKept
  <2>10. StoppedIsDown(r, u, j)
    BY <2>2, <2>8 DEF StoppedIsDown
  <2> QED BY <2>1, <2>4, <2>7, <2>8, <2>9, <2>10
<1>5. job' \in [Served -> NameJobs] /\ passed' \in [Served -> Edits]
  <2>1. DOMAIN job' = Served /\ DOMAIN passed' = Served
    BY <1>1
  <2>2. job' = [i \in Served |-> job'[i]] /\ passed' = [i \in Served |-> passed'[i]]
    BY <1>1
  <2> QED BY <1>4, <2>2
<1>6. changes' \in 0..MaxChanges
  BY <1>1, <1>3
<1>7. NamesTypeOK'
  BY <1>1, <1>2, <1>5, <1>6 DEF NamesTypeOK, NameJobs
<1>8. \A i \in Served : patch'[i] \in {NotEditing, "stopped", "error"}
  BY <1>1 DEF NamesIInv
<1>9. StartsOrdered(row', turn', moment')
  BY <1>1, <1>2
<1>10. \A i \in Served : /\ LaunchKept(row'[i], endpoint', unit'[i], job'[i], passed'[i])
                         /\ StoppedIsDown(row'[i], unit'[i], job'[i])
  BY <1>1, <1>4
<1> QED BY <1>7, <1>8, <1>9, <1>10 DEF NamesIInv

(* A job, a probe or a stop moves the row's status, the unit or the job, and*)
(* leaves the settings.                                                     *)
LEMMA InstanceMoves ==
  ASSUME NamesIInv, NEW k \in Served, NEW r \in NameRows, NEW u \in Launched,
         NEW j \in NameJobs, NEW g \in Edits,
         row' = [row EXCEPT ![k] = r], unit' = [unit EXCEPT ![k] = u],
         job' = [job EXCEPT ![k] = j], passed' = [passed EXCEPT ![k] = g],
         UNCHANGED <<endpoint, patch, moment, turn, changes>>,
         LaunchKept(r, endpoint, u, j, g), StoppedIsDown(r, u, j),
         \/ r.started = row[k].started /\ (r.status = "stopped" <=> row[k].status = "stopped")
         \/ r.started = row[k].started /\ row[k].started # 0
         \/ r.started = 0 /\ r.status = "stopped"
  PROVE  NamesIInv'
<1>1. NamesTypeOK /\ patch[k] \in {NotEditing, "stopped", "error"}
  BY DEF NamesIInv
<1>2. PICK p \in {NotEditing, "stopped", "error"} : p = patch[k]
  BY <1>1
<1>3. patch' = [patch EXCEPT ![k] = p]
  BY <1>1, <1>2, Unmoved
<1>4. StartsOrdered(row', turn', moment')
  <2>1. StartsOrdered([row EXCEPT ![k] = r], turn, moment)
    BY OrderKept
  <2> QED BY <2>1
<1>5. /\ moment' \in 1..(MaxStarts + 1) /\ turn' \in [Served -> 0..MaxStarts]
      /\ changes' \in 0..MaxChanges /\ endpoint' = endpoint
  BY <1>1, Unmoved
<1> QED BY <1>3, <1>4, <1>5, OneInstance

LEMMA InstanceIs ==
  ASSUME NamesIInv, NEW k \in Served
  PROVE  \E r \in NameRows, u \in Launched, j \in NameJobs, g \in Edits :
           /\ r = row[k] /\ u = unit[k] /\ j = job[k] /\ g = passed[k]
           /\ LaunchKept(r, endpoint, u, j, g) /\ StoppedIsDown(r, u, j)
           /\ r.status # "stopped" => r.started # 0
           /\ row = [row EXCEPT ![k] = r] /\ unit = [unit EXCEPT ![k] = u]
           /\ job = [job EXCEPT ![k] = j] /\ passed = [passed EXCEPT ![k] = g]
<1>1. NamesTypeOK /\ StartsOrdered(row, turn, moment)
      /\ LaunchKept(row[k], endpoint, unit[k], job[k], passed[k])
      /\ StoppedIsDown(row[k], unit[k], job[k])
  BY DEF NamesIInv
<1>2. row[k].status # "stopped" => row[k].started # 0
  BY <1>1 DEF StartsOrdered
<1> QED BY <1>1, <1>2, Unmoved

LEMMA StartLoadKeeps ==
  ASSUME NamesIInv, NEW k \in Served, StartLoad(k)
  PROVE  NamesIInv'
<1>1. PICK r \in NameRows, u \in Launched, j0 \in NameJobs, g \in Edits :
        /\ r = row[k] /\ u = unit[k] /\ j0 = job[k] /\ g = passed[k]
        /\ LaunchKept(r, endpoint, u, j0, g) /\ StoppedIsDown(r, u, j0)
        /\ row = [row EXCEPT ![k] = r] /\ unit = [unit EXCEPT ![k] = u]
        /\ passed = [passed EXCEPT ![k] = g]
  BY InstanceIs
<1>2. PICK l : l = Launch(r.set, endpoint)
  OBVIOUS
<1>3. PICK j : j = [pc |-> "loaded", with |-> l, since |-> {}]
  OBVIOUS
<1>4. /\ job' = [job EXCEPT ![k] = j]
      /\ UNCHANGED <<row, endpoint, unit, patch, moment, turn, passed, changes>>
  BY <1>1, <1>2, <1>3 DEF StartLoad
<1>5. l \in Launched /\ Reached(r.set, endpoint, l, {})
  <2>1. r.set \in Settings /\ endpoint \in Endpoints
    BY RowFieldsN, NameFacts DEF NamesIInv
  <2> QED BY <1>2, <2>1, LaunchIs
<1>6. j \in NameJobs /\ j.pc = "loaded" /\ j.with = l /\ j.since = {}
  BY <1>3, <1>5 DEF NameJobs, Edits
<1>7. LaunchKept(r, endpoint, u, j, g) /\ StoppedIsDown(r, u, j)
  BY <1>1, <1>5, <1>6 DEF LaunchKept, StoppedIsDown
<1>8. /\ row' = [row EXCEPT ![k] = r] /\ unit' = [unit EXCEPT ![k] = u]
      /\ passed' = [passed EXCEPT ![k] = g]
  BY <1>1, <1>4
<1> QED BY <1>1, <1>4, <1>6, <1>7, <1>8, InstanceMoves

LEMMA StartCommitKeeps ==
  ASSUME NamesIInv, NEW k \in Served, StartCommit(k)
  PROVE  NamesIInv'
<1>1. PICK r0 \in NameRows, u \in Launched, j0 \in NameJobs, g \in Edits :
        /\ r0 = row[k] /\ u = unit[k] /\ j0 = job[k] /\ g = passed[k]
        /\ LaunchKept(r0, endpoint, u, j0, g) /\ StoppedIsDown(r0, u, j0)
        /\ row = [row EXCEPT ![k] = r0] /\ unit = [unit EXCEPT ![k] = u]
        /\ passed = [passed EXCEPT ![k] = g]
  BY InstanceIs
<1>2. PICK now : now = moment'
  OBVIOUS
<1>3. PICK number : number = NextTurn
  OBVIOUS
<1>4. PICK r : r = [r0 EXCEPT !.status = "starting", !.started = now]
  OBVIOUS
<1>5. PICK j : j = [j0 EXCEPT !.pc = "launching"]
  OBVIOUS
<1>6. /\ j0.pc = "loaded" /\ number <= MaxStarts
      /\ now \in {moment, moment + 1} /\ now <= MaxStarts
      /\ turn' = [turn EXCEPT ![k] = number]
      /\ UNCHANGED <<endpoint, unit, patch, passed, changes>>
  BY <1>1, <1>2, <1>3 DEF StartCommit
<1>7. row' = [row EXCEPT ![k] = r]
  BY <1>1, <1>2, <1>4 DEF StartCommit
<1>8. job' = [job EXCEPT ![k] = j]
  BY <1>1, <1>5 DEF StartCommit
<1>9. NamesTypeOK /\ StartsOrdered(row, turn, moment)
      /\ patch[k] \in {NotEditing, "stopped", "error"}
  BY DEF NamesIInv
<1>10. /\ MaxStarts \in Nat /\ turn \in [Served -> 0..MaxStarts] /\ moment \in 1..(MaxStarts + 1)
       /\ row \in [Served -> NameRows] /\ \A i \in Served : row[i].started \in Nat
  BY <1>9, NameFacts, RowFieldsN DEF NamesTypeOK
<1>11. number \in Nat /\ \A i \in Served : turn[i] < number
  BY <1>3, <1>9, TurnsGrow
<1>12. now \in Nat /\ now # 0 /\ now \in 1..(MaxStarts + 1) /\ moment <= now
  BY <1>6, <1>10
<1>13. r = [status |-> "starting", started |-> now, set |-> r0.set]
  BY <1>4 DEF NameRows
<1>14. r \in NameRows /\ r.status = "starting" /\ r.started = now /\ r.set = r0.set
  BY <1>12, <1>13, RowFieldsN DEF NameRows, Statuses
<1>15. j \in NameJobs /\ j.pc = "launching" /\ j.with = j0.with /\ j.since = j0.since
  BY <1>5, JobFieldsN
<1>16. turn' \in [Served -> 0..MaxStarts]
  BY <1>6, <1>10, <1>11
<1>17. PICK rows : rows = row'
  OBVIOUS
<1>18. PICK turns : turns = turn'
  OBVIOUS
<1>19. /\ rows[k] = r /\ \A i \in Served \ {k} : rows[i] = row[i]
       /\ turns[k] = number /\ \A i \in Served \ {k} : turns[i] = turn[i]
  BY <1>6, <1>7, <1>10, <1>17, <1>18
<1>20. StartsOrdered(rows, turns, now)
  <2>1. \A i \in Served : rows[i].started <= now
    BY <1>9, <1>10, <1>12, <1>14, <1>19 DEF StartsOrdered
  <2>2. \A i \in Served : rows[i].status # "stopped" => rows[i].started # 0
    BY <1>9, <1>12, <1>14, <1>19 DEF StartsOrdered
  <2>3. ASSUME NEW a \in Served, NEW b \in Served, rows[b].started # 0,
               rows[a].started > rows[b].started
        PROVE  turns[a] > turns[b]
    <3>1. CASE a = k /\ b # k
      <4>1. turns[a] = number /\ turns[b] = turn[b] /\ turn[b] \in Nat
        BY <1>10, <1>19, <3>1
      <4>2. turn[b] < number
        BY <1>11
      <4> QED BY <1>11, <4>1, <4>2
    <3>2. CASE a # k /\ b = k
      <4>1. rows[a].started <= now /\ rows[b].started = now /\ rows[a].started \in Nat
        BY <1>10, <1>14, <1>19, <2>1, <3>2
      <4> QED BY <1>12, <2>3, <4>1
    <3>3. CASE a # k /\ b # k
      BY <1>9, <1>19, <2>3, <3>3 DEF StartsOrdered
    <3>4. CASE a = k /\ b = k
      BY <1>12, <1>14, <1>19, <2>3, <3>4
    <3> QED BY <3>1, <3>2, <3>3, <3>4
  <2> QED BY <2>1, <2>2, <2>3 DEF StartsOrdered
<1>21. StartsOrdered(row', turn', moment')
  BY <1>2, <1>17, <1>18, <1>20
<1>22. LaunchKept(r, endpoint, u, j, g) /\ StoppedIsDown(r, u, j)
  BY <1>1, <1>6, <1>14, <1>15 DEF LaunchKept, StoppedIsDown
<1>23. PICK p \in {NotEditing, "stopped", "error"} : p = patch[k]
  BY <1>9
<1>24. patch' = [patch EXCEPT ![k] = p]
  BY <1>6, <1>9, <1>23, Unmoved
<1>25. /\ unit' = [unit EXCEPT ![k] = u] /\ passed' = [passed EXCEPT ![k] = g]
       /\ endpoint' = endpoint /\ changes' \in 0..MaxChanges
       /\ moment' \in 1..(MaxStarts + 1)
  BY <1>1, <1>2, <1>6, <1>9, <1>12 DEF NamesTypeOK
<1> QED
  BY <1>7, <1>8, <1>14, <1>15, <1>16, <1>21, <1>22, <1>24, <1>25, OneInstance

LEMMA StartEndKeeps ==
  ASSUME NamesIInv, NEW k \in Served, Installed(k) \/ StartRaises(k)
  PROVE  NamesIInv'
<1>1. PICK r0 \in NameRows, u0 \in Launched, j0 \in NameJobs, g0 \in Edits :
        /\ r0 = row[k] /\ u0 = unit[k] /\ j0 = job[k] /\ g0 = passed[k]
        /\ LaunchKept(r0, endpoint, u0, j0, g0) /\ StoppedIsDown(r0, u0, j0)
        /\ r0.status # "stopped" => r0.started # 0
        /\ row = [row EXCEPT ![k] = r0] /\ unit = [unit EXCEPT ![k] = u0]
        /\ passed = [passed EXCEPT ![k] = g0]
  BY InstanceIs
<1>2. PICK r1 : r1 = [r0 EXCEPT !.status = "error"]
  OBVIOUS
<1>3. PICK r \in {r0, r1} : row' = [row EXCEPT ![k] = r]
  <2>1. [row EXCEPT ![k].status = "error"] = [row EXCEPT ![k] = r1]
    BY <1>1, <1>2
  <2> QED BY <1>1, <2>1 DEF Installed, StartRaises
<1>4. PICK j \in NameJobs : j = NoJob
  BY NoNames
<1>5. /\ j0.pc = "launching" /\ job' = [job EXCEPT ![k] = j]
      /\ UNCHANGED <<endpoint, patch, moment, turn, changes>>
  BY <1>1, <1>4 DEF Installed, StartRaises
<1>6. r0.status # "stopped" /\ r0.started # 0
  BY <1>1, <1>5 DEF StoppedIsDown
<1>7. /\ r \in NameRows /\ r.status # "stopped" /\ r.started = r0.started
      /\ r.set = r0.set
  <2>1. /\ r1 \in NameRows /\ r1.status = "error" /\ r1.started = r0.started
        /\ r1.set = r0.set
    BY <1>2, RowFieldsN DEF Statuses
  <2> QED BY <1>3, <1>6, <2>1
<1>8. j.pc = "none"
  BY <1>4, NoNames
<1>9. CASE Installed(k)
  <2>1. PICK u \in Launched, g \in Edits : u = j0.with /\ g = j0.since
    BY JobFieldsN
  <2>2. unit' = [unit EXCEPT ![k] = u] /\ passed' = [passed EXCEPT ![k] = g]
    BY <1>1, <1>9, <2>1 DEF Installed
  <2>3. LaunchKept(r, endpoint, u, j, g) /\ StoppedIsDown(r, u, j)
    BY <1>1, <1>5, <1>7, <1>8, <2>1 DEF LaunchKept, StoppedIsDown
  <2> QED BY <1>1, <1>3, <1>5, <1>6, <1>7, <2>2, <2>3, InstanceMoves
<1>10. CASE StartRaises(k)
  <2>1. unit' = [unit EXCEPT ![k] = u0] /\ passed' = [passed EXCEPT ![k] = g0]
    BY <1>1, <1>10 DEF StartRaises
  <2>2. LaunchKept(r, endpoint, u0, j, g0) /\ StoppedIsDown(r, u0, j)
    BY <1>1, <1>7, <1>8 DEF LaunchKept, StoppedIsDown
  <2> QED BY <1>1, <1>3, <1>5, <1>6, <1>7, <2>1, <2>2, InstanceMoves
<1> QED BY <1>9, <1>10

LEMMA ObserveKeeps ==
  ASSUME NamesIInv, NEW k \in Served, Observe(k)
  PROVE  NamesIInv'
<1>1. PICK r0 \in NameRows, u \in Launched, j \in NameJobs, g \in Edits :
        /\ r0 = row[k] /\ u = unit[k] /\ j = job[k] /\ g = passed[k]
        /\ LaunchKept(r0, endpoint, u, j, g) /\ StoppedIsDown(r0, u, j)
        /\ r0.status # "stopped" => r0.started # 0
        /\ row = [row EXCEPT ![k] = r0] /\ unit = [unit EXCEPT ![k] = u]
        /\ job = [job EXCEPT ![k] = j] /\ passed = [passed EXCEPT ![k] = g]
  BY InstanceIs
<1>2. PICK s \in {"running", "error"} : row' = [row EXCEPT ![k].status = s]
  BY DEF Observe
<1>3. PICK r : r = [r0 EXCEPT !.status = s]
  OBVIOUS
<1>4. /\ r \in NameRows /\ r.status = s /\ r.started = r0.started /\ r.set = r0.set
  <2>1. s \in Statuses
    BY DEF Statuses
  <2> QED BY <1>3, <2>1, RowFieldsN
<1>5. row' = [row EXCEPT ![k] = r]
  BY <1>1, <1>2, <1>3
<1>6. /\ r0.status # "stopped"
      /\ UNCHANGED <<endpoint, unit, job, patch, moment, turn, passed, changes>>
  BY <1>1 DEF Observe
<1>7. LaunchKept(r, endpoint, u, j, g) /\ StoppedIsDown(r, u, j)
  BY <1>1, <1>2, <1>4 DEF LaunchKept, StoppedIsDown
<1>8. /\ unit' = [unit EXCEPT ![k] = u] /\ job' = [job EXCEPT ![k] = j]
      /\ passed' = [passed EXCEPT ![k] = g]
  BY <1>1, <1>6
<1> QED BY <1>1, <1>4, <1>5, <1>6, <1>7, <1>8, InstanceMoves

LEMMA StopKeeps ==
  ASSUME NamesIInv, NEW k \in Served, StopUnit(k) \/ StopDone(k)
  PROVE  NamesIInv'
<1>1. PICK r0 \in NameRows, u0 \in Launched, j0 \in NameJobs, g \in Edits :
        /\ r0 = row[k] /\ u0 = unit[k] /\ j0 = job[k] /\ g = passed[k]
        /\ LaunchKept(r0, endpoint, u0, j0, g) /\ StoppedIsDown(r0, u0, j0)
        /\ row = [row EXCEPT ![k] = r0] /\ unit = [unit EXCEPT ![k] = u0]
        /\ job = [job EXCEPT ![k] = j0] /\ passed = [passed EXCEPT ![k] = g]
  BY InstanceIs
<1>2. CASE StopUnit(k)
  <2>1. PICK u \in Launched : u = NoLaunch /\ ~u.up
    BY NoNames
  <2>2. PICK j : j = [j0 EXCEPT !.pc = "stopping"]
    OBVIOUS
  <2>3. j \in NameJobs /\ j.pc = "stopping"
    BY <2>2, JobFieldsN
  <2>4. /\ job' = [job EXCEPT ![k] = j] /\ unit' = [unit EXCEPT ![k] = u]
        /\ UNCHANGED <<row, endpoint, patch, moment, turn, passed, changes>>
    BY <1>1, <1>2, <2>1, <2>2 DEF StopUnit
  <2>5. LaunchKept(r0, endpoint, u, j, g) /\ StoppedIsDown(r0, u, j)
    BY <2>1, <2>3 DEF LaunchKept, StoppedIsDown
  <2>6. row' = [row EXCEPT ![k] = r0] /\ passed' = [passed EXCEPT ![k] = g]
    BY <1>1, <2>4
  <2> QED BY <1>1, <2>3, <2>4, <2>5, <2>6, InstanceMoves
<1>3. CASE StopDone(k)
  <2>1. PICK r1 : r1 = [r0 EXCEPT !.status = "stopped", !.started = 0]
    OBVIOUS
  <2>2. r1 = [status |-> "stopped", started |-> 0, set |-> r0.set]
    BY <2>1 DEF NameRows
  <2>3. r1 \in NameRows /\ r1.status = "stopped" /\ r1.started = 0 /\ r1.set = r0.set
    BY <2>2, RowFieldsN DEF NameRows, Statuses
  <2>4. PICK r \in {r0, r1} : row' = [row EXCEPT ![k] = r]
    <3>1. [row EXCEPT ![k].status = "stopped", ![k].started = 0] = [row EXCEPT ![k] = r1]
      <4>1. row \in [Served -> NameRows]
        BY NameFacts DEF NamesIInv
      <4> QED BY <1>1, <2>1, <4>1
    <3> QED BY <1>1, <1>3, <3>1 DEF StopDone
  <2>5. PICK j \in NameJobs : j = NoJob /\ j.pc = "none"
    BY NoNames
  <2>6. /\ job' = [job EXCEPT ![k] = j] /\ j0.pc = "stopping"
        /\ UNCHANGED <<endpoint, unit, patch, moment, turn, passed, changes>>
    BY <1>1, <1>3, <2>5 DEF StopDone
  <2>7. LaunchKept(r, endpoint, u0, j, g) /\ StoppedIsDown(r, u0, j)
    BY <1>1, <2>3, <2>4, <2>5, <2>6 DEF LaunchKept, StoppedIsDown
  <2>8. unit' = [unit EXCEPT ![k] = u0] /\ passed' = [passed EXCEPT ![k] = g]
    BY <1>1, <2>6
  <2>9. CASE r = r0
    BY <1>1, <2>4, <2>5, <2>6, <2>7, <2>8, <2>9, InstanceMoves
  <2>10. CASE r = r1
    BY <1>1, <2>3, <2>4, <2>5, <2>6, <2>7, <2>8, <2>10, InstanceMoves
  <2> QED BY <2>4, <2>9, <2>10
<1> QED BY <1>2, <1>3

LEMMA NamesStep ==
  ASSUME NamesIInv, [NamesNext]_namesVars
  PROVE  NamesIInv'
<1>1. CASE UNCHANGED namesVars
  BY <1>1 DEF namesVars, NamesIInv, NamesTypeOK, StartsOrdered, LaunchKept, StoppedIsDown,
              Reached, Address
<1> QED
  BY <1>1, EditEndpointKeeps, PatchBeginKeeps, PatchCommitKeeps, StartLoadKeeps,
     StartCommitKeeps, StartEndKeeps, ObserveKeeps, StopKeeps DEF NamesNext

(* For any instances, aliases, starts and edits: a running instance whose   *)
(* unit is up is reached where and as it was launched, unless something was *)
(* edited past the guards since, and of those that carry a name the one     *)
(* started last gets the requests (routers/gateway.py:134-217).             *)
THEOREM NamesReach == NamesSpec => []NamesInv
<1>1. NamesIInv => NamesInv
  BY ReachedIs, LatestIsFirst DEF NamesIInv, NamesInv
<1> QED BY <1>1, NamesStart, NamesStep, PTL DEF NamesSpec
=============================================================================
