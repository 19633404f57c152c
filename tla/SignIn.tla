------------------------------- MODULE SignIn -------------------------------
(***************************************************************************)
(* Single sign-on (services/oidc.py, the callback of routers/auth.py): the  *)
(* provider's metadata and signing keys as the portal caches them.  The     *)
(* callbacks that run at once share one lock around a refresh; each read    *)
(* the clock before it waited for it.  The provider may be out of reach,    *)
(* and adds and withdraws keys as it likes.                                 *)
(***************************************************************************)
EXTENDS Integers, FiniteSets

CONSTANTS
  Callbacks,   \* the slots of _exchange_slots, each with the callback it serves
  KeyTtl,      \* oidc_jwks_ttl_seconds, in ticks
  MaxStale,    \* oidc_jwks_max_stale_seconds
  RefreshGap,  \* _JWKS_MIN_REFRESH_SECONDS
  MaxSignKeys, \* bound on keys the provider ever has
  MaxMoment    \* bound on the clock

ASSUME SignInAssumption ==
  /\ {KeyTtl, MaxStale, MaxSignKeys, MaxMoment} \subseteq Nat \ {0}
  /\ RefreshGap \in Nat /\ RefreshGap > 1
  /\ IsFiniteSet(Callbacks)

VARIABLES
  instant,   \* the clock, from 1
  newest,    \* the provider's keys are 1..newest
  withdrawn, \* when it withdrew each, 0 if it has not
  document,  \* _caches.discovery: when it was fetched, 0 for never
  jwks,      \* _caches.jwks: keys, fetched_at (0: no cache) and last_attempt
  callback,  \* each callback: its place, the token's key, its `now`, `force`
  accepted,  \* history: the last sign-in accepted, and by which keys
  requests   \* history: key requests since the first that was answered, and its `now`

signInVars == <<instant, newest, withdrawn, document, jwks, callback, accepted, requests>>
provider   == <<newest, withdrawn>>

SignKeys  == 1..MaxSignKeys
Moments   == 0..MaxMoment
NoKeys    == [keys |-> {}, at |-> 0, tried |-> 0]
NoSignIn  == [pc |-> "idle", kid |-> 0, now |-> 0, force |-> FALSE, since |-> 0]
NotYet    == [key |-> 0, at |-> 0, tried |-> FALSE, past |-> FALSE]

SignInTypeOK ==
  /\ instant \in Moments /\ newest \in SignKeys
  /\ withdrawn \in [SignKeys -> Moments] /\ document \in Moments
  /\ jwks \in [keys : SUBSET SignKeys, at : Moments, tried : Moments]
  /\ callback \in [Callbacks -> [pc : {"idle", "lock", "document", "keys"},
       kid : 0..MaxSignKeys, now : Moments, force : BOOLEAN, since : Moments]]
  /\ accepted \in [key : 0..MaxSignKeys, at : Moments, tried : BOOLEAN, past : BOOLEAN]
  /\ requests \in [count : Nat, first : Moments]

SignInInit ==
  /\ instant = 1 /\ newest = 1 /\ withdrawn = [k \in SignKeys |-> 0]
  /\ document = 0 /\ jwks = NoKeys
  /\ callback = [c \in Callbacks |-> NoSignIn]
  /\ accepted = NotYet /\ requests = [count |-> 0, first |-> 0]

-----------------------------------------------------------------------------
Published == {k \in 1..newest : withdrawn[k] = 0}
CallbackAt(c, place) == callback[c].pc = place
Refreshing == {c \in Callbacks : callback[c].pc \in {"document", "keys"}}
Cached == jwks.at # 0

DocumentFresh == document # 0 /\ instant < document + KeyTtl

(* A request is answered or given up within a tick, and a lock that is free *)
(* is taken.                                                                *)
ClockTicks ==
  /\ instant < MaxMoment /\ instant' = instant + 1
  /\ \A c \in Refreshing : callback[c].since = instant
  /\ Refreshing # {} \/ \A c \in Callbacks : ~CallbackAt(c, "lock")
  /\ UNCHANGED <<provider, document, jwks, callback, accepted, requests>>

AddKey ==
  /\ newest < MaxSignKeys /\ newest' = newest + 1
  /\ UNCHANGED <<instant, withdrawn, document, jwks, callback, accepted, requests>>

WithdrawKey(k) ==
  /\ k \in Published /\ Published # {k}
  /\ withdrawn' = [withdrawn EXCEPT ![k] = instant]
  /\ UNCHANGED <<instant, newest, document, jwks, callback, accepted, requests>>

-----------------------------------------------------------------------------
Refuse(c) == callback' = [callback EXCEPT ![c] = NoSignIn] /\ UNCHANGED accepted

(* A key is asked for anew: `now` is read, and then the lock waited for.    *)
Ask(c, kid, force) ==
  /\ callback' = [callback EXCEPT ![c] =
       [pc |-> "lock", kid |-> kid, now |-> instant, force |-> force, since |-> 0]]
  /\ UNCHANGED accepted

(* _signing_key with the keys it was handed: one forced refresh if the      *)
(* token's is not there.                                                    *)
ResolveKey(c, kid, cache, forced, past) ==
  IF kid \in cache.keys
  THEN /\ accepted' = [key |-> kid, at |-> instant, tried |-> cache.tried # cache.at,
                       past |-> past]
       /\ callback' = [callback EXCEPT ![c] = NoSignIn]
  ELSE IF forced THEN Refuse(c) ELSE Ask(c, kid, TRUE)

Fresh(now) == Cached /\ now < jwks.at + KeyTtl

(* exchange_code: metadata if the cached has expired, then the token, signed*)
(* with any key the provider ever had; the first look for that key, without *)
(* a lock.                                                                  *)
Exchange(c) ==
  /\ CallbackAt(c, "idle")
  /\ \/ /\ document' = IF DocumentFresh THEN document ELSE instant
        /\ \E kid \in 1..newest :
             IF Fresh(instant) THEN ResolveKey(c, kid, jwks, FALSE, FALSE)
             ELSE Ask(c, kid, FALSE)
     \/ document' \in {document, IF DocumentFresh THEN document ELSE instant} /\ Refuse(c)
  /\ UNCHANGED <<instant, provider, jwks, requests>>

(* The lock goes to who has waited longest. Inside: another may have        *)
(* refreshed, or tried to a moment ago.                                     *)
TooSoon(now) == Cached /\ now < jwks.tried + RefreshGap

EnterLock(c) ==
  LET me == callback[c] IN
  /\ CallbackAt(c, "lock") /\ Refreshing = {}
  /\ \A d \in Callbacks : CallbackAt(d, "lock") => me.now <= callback[d].now
  /\ IF (Fresh(me.now) /\ ~me.force) \/ TooSoon(me.now)
     THEN ResolveKey(c, me.kid, jwks, me.force, me.now > jwks.at + MaxStale)
     ELSE /\ callback' = [callback EXCEPT ![c].since = instant,
               ![c].pc = IF DocumentFresh THEN "keys" ELSE "document"]
          /\ UNCHANGED accepted
  /\ UNCHANGED <<instant, provider, document, jwks, requests>>

(* The metadata, whose failure is not taken for one of the keys.            *)
FetchDocument(c) ==
  /\ CallbackAt(c, "document")
  /\ \/ /\ document' = instant
        /\ callback' = [callback EXCEPT ![c].pc = "keys"] /\ UNCHANGED accepted
     \/ Refuse(c) /\ UNCHANGED document
  /\ UNCHANGED <<instant, provider, jwks, requests>>

Counted(now) ==
  requests' = IF Cached THEN [requests EXCEPT !.count = @ + 1] ELSE [count |-> 1, first |-> now]

KeysFetched(c) ==
  LET me == callback[c]
      new == [keys |-> Published, at |-> me.now, tried |-> me.now]
  IN /\ CallbackAt(c, "keys")
     /\ jwks' = new /\ Counted(me.now)
     /\ ResolveKey(c, me.kid, new, me.force, FALSE)
     /\ UNCHANGED <<instant, provider, document>>

(* Mutant: only a refresh that succeeds counts as an attempt.               *)
BugKeysFail(c) ==
  LET me == callback[c] IN
  /\ CallbackAt(c, "keys")
  /\ IF ~Cached THEN Refuse(c) /\ UNCHANGED <<jwks, requests>>
     ELSE /\ jwks' = jwks /\ Counted(me.now)
          /\ IF me.now > jwks.at + MaxStale THEN Refuse(c)
             ELSE ResolveKey(c, me.kid, jwks', me.force, FALSE)
  /\ UNCHANGED <<instant, provider, document>>

(* Mutant: stale keys are served however old they are.                      *)
BugStale(c) ==
  LET me == callback[c] IN
  /\ CallbackAt(c, "keys")
  /\ IF ~Cached THEN Refuse(c) /\ UNCHANGED <<jwks, requests>>
     ELSE /\ jwks' = [jwks EXCEPT !.tried = me.now] /\ Counted(me.now)
          /\ ResolveKey(c, me.kid, jwks', me.force, FALSE)
  /\ UNCHANGED <<instant, provider, document>>

(* The provider is out of reach: the cached keys go on up to the ceiling.   *)
KeysFail(c) ==
  LET me == callback[c] IN
  /\ CallbackAt(c, "keys")
  /\ IF ~Cached THEN Refuse(c) /\ UNCHANGED <<jwks, requests>>
     ELSE /\ jwks' = [jwks EXCEPT !.tried = me.now] /\ Counted(me.now)
          /\ IF me.now > jwks.at + MaxStale THEN Refuse(c)
             ELSE ResolveKey(c, me.kid, jwks', me.force, FALSE)
  /\ UNCHANGED <<instant, provider, document>>

SignInNext ==
  \/ ClockTicks \/ AddKey \/ \E k \in SignKeys : WithdrawKey(k)
  \/ \E c \in Callbacks : \/ Exchange(c) \/ EnterLock(c) \/ FetchDocument(c)
                          \/ KeysFetched(c) \/ KeysFail(c)

SignInSpec == SignInInit /\ [][SignInNext]_signInVars

-----------------------------------------------------------------------------
(* How long a callback's `now` lies back at most: it waits for the refreshes*)
(* of the others, each of which takes a tick, and then for its own.         *)
Delay == Cardinality(Callbacks)

(* A key the provider withdrew signs nobody in for longer than cached keys  *)
(* are fresh, or are not asked for again, or than the ceiling if a refresh  *)
(* failed since; but that keys past the ceiling are served again for        *)
(* RefreshGap after a refresh failed (services/oidc.py:206-248).            *)
Spans == {KeyTtl, RefreshGap} \union (IF accepted.tried THEN {MaxStale} ELSE {})
TrustEnds ==
  LET k == accepted.key IN
  k # 0 /\ ~accepted.past =>
    \/ withdrawn[k] = 0
    \/ \E span \in Spans : accepted.at <= withdrawn[k] + Delay + span

(* However many sign-ins come, and whether the provider answers or not, the *)
(* keys are asked for once in RefreshGap, from the first time they were got *)
(* (services/oidc.py:218-221, 238).                                         *)
RequestsSpread ==
  requests.count > 0 => (requests.count - 1) * RefreshGap <= instant - requests.first

(* What single sign-on keeps: the types, an end to trust in a key, and      *)
(* requests that are spread (services/oidc.py:206-248).                     *)
SignInInv == SignInTypeOK /\ TrustEnds /\ RequestsSpread
=============================================================================
