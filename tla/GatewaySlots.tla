---------------------------- MODULE GatewaySlots ----------------------------
(***************************************************************************)
(* The /v1 gateway's limits (services/ratelimit.py) and the request handler *)
(* that takes and returns their slots (routers/gateway.py, _proxy): a       *)
(* concurrency slot per client and instance, held from admission until the  *)
(* answer has been relayed, and a sliding window of request starts per      *)
(* client.                                                                  *)
(***************************************************************************)
EXTENDS Integers, Sequences, FiniteSets

CONSTANTS
  Requests,   \* ids of the requests of one run
  Clients, Instances,
  Limits,     \* values an operator gives max_concurrent; 0 is "unlimited"
  Rpm,        \* max_rpm; 0 is "no limit"
  Window,     \* its window (60 seconds in the code)
  MaxClock    \* bound on the clock

ASSUME GatewayAssumption ==
  /\ IsFiniteSet(Requests)
  /\ Limits \subseteq Nat /\ Limits # {}
  /\ Rpm \in Nat /\ Window \in Nat \ {0} /\ MaxClock \in Nat

VARIABLES
  limit,     \* max_concurrent of each client's key, as the cache has it
  req,       \* each request: its place, what it resolved to, when it started
  inflight,  \* Limiter._inflight
  recent,    \* Limiter._recent
  clock

vars == <<limit, req, inflight, recent, clock>>

Never  == -1
Places == {"none", "resolved", "sending", "reading", "relaying", "streaming",
           "closing", "over", "slipped"}
Active == {"sending", "reading", "relaying", "streaming", "closing"}

Reqs == [pc : Places, client : Clients, inst : Instances, limit : Limits,
         at : {Never} \union (0..MaxClock)]

Held(c, i) == {r \in Requests : /\ req[r].pc \in Active
                                /\ req[r].client = c /\ req[r].inst = i}

(* The requests that took a slot and have not given it back.                *)
Counted(c, i) == {r \in Requests : /\ req[r].pc \in Active \union {"slipped"}
                                   /\ req[r].client = c /\ req[r].inst = i}

TypeOK ==
  /\ limit \in [Clients -> Limits]
  /\ req \in [Requests -> Reqs]
  /\ inflight \in [Clients -> [Instances -> Nat]]
  /\ \A c \in Clients :
       recent[c] \in Seq(0..clock) /\ (Rpm > 0 => Len(recent[c]) <= Rpm)
  /\ clock \in 0..MaxClock

Init ==
  /\ limit \in [Clients -> Limits]
  /\ req \in [Requests -> {q \in Reqs : q.pc = "none" /\ q.at = Never
                                        /\ q.limit = limit[q.client]}]
  /\ inflight = [c \in Clients |-> [i \in Instances |-> 0]]
  /\ recent = [c \in Clients |-> <<>>]
  /\ clock = 0

-----------------------------------------------------------------------------
(* Limiter.check_rate: starts that have left the window are dropped from    *)
(* the front of the deque, then the rest are counted.                       *)
Oldest(q, since) ==
  CHOOSE i \in 1..(Len(q) + 1) : /\ \A j \in 1..(i - 1) : q[j] < since
                                 /\ i <= Len(q) => q[i] >= since
From(q, since) == SubSeq(q, Oldest(q, since), Len(q))

BugInWindow(q, now) == From(q, now - Window + 1)
InWindow(q, now)    == From(q, now - Window)

RateExceeded(c) == Rpm > 0 /\ Len(InWindow(recent[c], clock)) >= Rpm

(* The Retry-After it answers with.                                         *)
AtLeastOne(n) == IF n > 1 THEN n ELSE 1
BugRetryAfter(c) ==
  AtLeastOne(InWindow(recent[c], clock)[1] + Window - clock)
RetryAfter(c) ==
  AtLeastOne(InWindow(recent[c], clock)[1] + Window - clock + 1)

(* Limiter.acquire's condition, and release: never below zero.              *)
CapReached(r) ==
  /\ req[r].limit > 0
  /\ inflight[req[r].client][req[r].inst] >= req[r].limit

Released(r) ==
  [inflight EXCEPT ![req[r].client][req[r].inst] =
     IF @ > 0 THEN @ - 1 ELSE 0]

(* _gateway_auth and _resolve: who asks, for which running instance, under  *)
(* which limit; all three are the request's own from here on.               *)
Resolve(r) ==
  /\ req[r].pc = "none"
  /\ req' = [req EXCEPT ![r].pc = "resolved",
                        ![r].limit = limit[req[r].client]]
  /\ UNCHANGED <<limit, inflight, recent, clock>>

(* A client that has started Rpm requests in the window is turned away.     *)
TurnAway(r) ==
  /\ req[r].pc = "resolved" /\ RateExceeded(req[r].client)
  /\ req' = [req EXCEPT ![r].pc = "over"]
  /\ recent' = [recent EXCEPT ![req[r].client] = InWindow(@, clock)]
  /\ UNCHANGED <<limit, inflight, clock>>

(* check_rate and acquire, with no await between them.  The start counts    *)
(* against the rate even when there is no slot.                             *)
Admit(r) ==
  /\ req[r].pc = "resolved" /\ ~RateExceeded(req[r].client)
  /\ recent' = IF Rpm = 0 THEN recent
               ELSE [recent EXCEPT ![req[r].client] =
                       Append(InWindow(@, clock), clock)]
  /\ req' = [req EXCEPT ![r].at = clock,
                        ![r].pc = IF CapReached(r) THEN "over" ELSE "sending"]
  /\ inflight' = IF CapReached(r) THEN inflight
                 ELSE [inflight EXCEPT ![req[r].client][req[r].inst] = @ + 1]
  /\ UNCHANGED <<limit, clock>>

Move(r, from, to) ==
  /\ req[r].pc = from
  /\ req' = [req EXCEPT ![r].pc = to]
  /\ UNCHANGED <<limit, recent, clock>>

(* The upstream answers: a stream to relay, or a body to read.              *)
Answer(r) ==
  /\ Move(r, "sending", "relaying") \/ Move(r, "sending", "reading")
  /\ UNCHANGED inflight

(* _release: the send fails with an httpx.HTTPError, the body has been      *)
(* read, or relay's finally has closed the upstream.                        *)
BugReturn(r) ==
  /\ \E from \in {"sending", "reading", "closing"} : Move(r, from, "over")
  /\ inflight' = IF req[r].pc = "sending" THEN inflight ELSE Released(r)

Return(r) ==
  /\ \E from \in {"sending", "reading", "closing"} : Move(r, from, "over")
  /\ inflight' = Released(r)

(* relay's generator gets its first step, and later leaves its loop.        *)
Relay(r) ==
  /\ Move(r, "relaying", "streaming") \/ Move(r, "streaming", "closing")
  /\ UNCHANGED inflight

(* The paths without a _release: the send raises something else or is       *)
(* cancelled, reading the body raises, the response is dropped before its   *)
(* generator has started, closing the upstream raises or is cancelled.      *)
Slip(r) ==
  /\ \E from \in {"sending", "reading", "relaying", "closing"} :
       Move(r, from, "slipped")
  /\ UNCHANGED inflight

(* PATCH /api/gateway/keys: the new limit is in the cache before it returns.*)
SetLimit(c) ==
  /\ \E l \in Limits \ {limit[c]} : limit' = [limit EXCEPT ![c] = l]
  /\ UNCHANGED <<req, inflight, recent, clock>>

Tick ==
  /\ clock < MaxClock
  /\ clock' = clock + 1
  /\ UNCHANGED <<limit, req, inflight, recent>>

Next ==
  \/ \E r \in Requests : \/ Resolve(r) \/ TurnAway(r) \/ Admit(r)
                         \/ Answer(r) \/ Return(r) \/ Relay(r) \/ Slip(r)
  \/ \E c \in Clients : SetLimit(c)
  \/ Tick

Spec == Init /\ [][Next]_vars
-----------------------------------------------------------------------------
(* The counter counts the requests in flight and those that died on a path  *)
(* without a release, and nothing else, however they interleave: it leaks   *)
(* one slot for each of the latter and none otherwise, and it never says    *)
(* less than is in flight.                                                  *)
CountExact ==
  \A c \in Clients, i \in Instances :
    inflight[c][i] = Cardinality(Counted(c, i))

(* services/ratelimit.py:10-13: "capped at N, a client can never hold more  *)
(* than N" against one instance: an admission never takes it past the limit *)
(* the request was judged by, though limits change while requests run.      *)
CapHolds ==
  [][\A r \in Requests, c \in Clients, i \in Instances :
       /\ req[r].pc = "resolved" /\ req'[r].pc = "sending"
       /\ req[r].client = c /\ req[r].inst = i /\ req[r].limit > 0
       => Cardinality(Held(c, i)') <= req[r].limit]_vars

(* No window of Window seconds, both ends included, sees more than Rpm      *)
(* requests of one client start, counting those refused a slot.             *)
RateHolds ==
  Rpm > 0 =>
    \A c \in Clients :
      Cardinality({r \in Requests : /\ req[r].client = c
                                    /\ req[r].at # Never
                                    /\ req[r].at >= clock - Window}) <= Rpm

(* A client that waits as long as Retry-After says is not turned away for   *)
(* the starts it was turned away for.                                       *)
RetryHonest ==
  \A c \in Clients :
    RateExceeded(c) =>
      Len(InWindow(recent[c], clock + RetryAfter(c))) < Rpm

(* routers/gateway.py:345: a slot "is held and MUST be released on every    *)
(* path".                                                                   *)
SlotsReturned ==
  \A c \in Clients, i \in Instances :
    Held(c, i) = {} => inflight[c][i] = 0
=============================================================================
