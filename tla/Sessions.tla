------------------------------ MODULE Sessions ------------------------------
(***************************************************************************)
(* Portal sessions and how they end (services/sessions.py, the session part *)
(* of services/auth.py, routers/sessions.py, the logout of routers/auth.py).*)
(* A session is a cookie nobody keeps a list of; ending one is a row in a   *)
(* table and an entry in a memory map, written in that order with an await  *)
(* in between.  The wall clock may be set back; a restart reloads the maps. *)
(***************************************************************************)
EXTENDS Integers, FiniteSets

CONSTANTS
  Users,
  Jtis,        \* the ids of the sessions of a run
  Revokers,    \* requests that end sessions
  Lifetime,    \* session_seconds
  MaxTime,     \* bound on the clock
  MaxSetBacks, \* bound on backward steps of the clock
  MaxBoots     \* bound on restarts

Everyone == "everyone"   \* GLOBAL_SUBJECT
ASSUME SessionsAssumption ==
  Everyone \notin Users /\ "none" \notin Jtis /\ Lifetime \in Nat \ {0}
ASSUME SessionsBounds == MaxTime \in Nat /\ MaxSetBacks \in Nat /\ MaxBoots \in Nat

VARIABLES
  now,      \* time.time()
  latest,   \* history: the latest the clock has shown
  cookie,   \* each session: user, iat, exp and config fingerprint
  epochs,   \* _EPOCHS
  revoked,  \* _REVOKED: jti -> expiry, -1 when absent
  loaded,   \* _loaded
  epochRow, \* SessionRevocation: the latest epoch row of each subject
  jtiRow,   \* ... and the jti rows, as revoked
  config,   \* what config_fingerprint is computed from
  revoker,  \* each request: its place and the row it writes
  dead,     \* history: sessions is_revoked has said yes to
  spared,   \* history: sessions no revocation has touched since their login
  setBacks, boots

sessionsVars == <<now, latest, cookie, epochs, revoked, loaded, epochRow, jtiRow,
                  config, revoker, dead, spared, setBacks, boots>>
stored == <<epochRow, jtiRow>>
sessionClock  == <<now, latest, setBacks>>

NotRevoked    == 0 - 1
Times    == 0 .. MaxTime + 1
Expiries == Times \union {t + Lifetime : t \in Times}
Subjects == Users \union {Everyone}
NotIssued == [user |-> Everyone, iat |-> 0, exp |-> 0, cfg |-> 0]
NoRevoker == [pc |-> "idle", subject |-> Everyone, jti |-> "none", cut |-> 0, now |-> 0]

SessionsTypeOK ==
  /\ now \in 0..MaxTime /\ latest \in 0..MaxTime
  /\ cookie \in [Jtis -> [user : Subjects, iat : Times, exp : Expiries, cfg : 0..MaxBoots]]
  /\ epochs \in [Subjects -> Times]
  /\ revoked \in [Jtis -> Expiries \union {NotRevoked}]
  /\ loaded \in BOOLEAN
  /\ epochRow \in [Subjects -> Times]
  /\ jtiRow \in [Jtis -> Expiries \union {NotRevoked}]
  /\ config \in 0..MaxBoots
  /\ revoker \in [Revokers -> [pc : {"idle", "writing", "committed"}, subject : Subjects,
       jti : Jtis \union {"none"}, cut : Expiries, now : Times]]
  /\ dead \subseteq Jtis /\ spared \subseteq Jtis
  /\ setBacks \in 0..MaxSetBacks /\ boots \in 0..MaxBoots

SessionsInit ==
  /\ now = 0 /\ latest = 0
  /\ cookie = [j \in Jtis |-> NotIssued]
  /\ epochs = [u \in Subjects |-> 0]
  /\ revoked = [j \in Jtis |-> NotRevoked]
  /\ loaded = TRUE /\ config = 0
  /\ epochRow = epochs /\ jtiRow = revoked
  /\ revoker = [r \in Revokers |-> NoRevoker]
  /\ dead = {} /\ spared = {} /\ setBacks = 0 /\ boots = 0

-----------------------------------------------------------------------------
Issued(j) == cookie[j] # NotIssued
Later(a, b) == IF a >= b THEN a ELSE b

IsRevoked(j) ==
  \/ ~loaded
  \/ revoked[j] # NotRevoked
  \/ cookie[j].iat < epochs[Everyone]
  \/ cookie[j].iat < epochs[cookie[j].user]

(* session_claims: what a request that presents the cookie gets.            *)
Accepted(j) ==
  /\ Issued(j) /\ cookie[j].exp >= now /\ cookie[j].cfg = config
  /\ ~IsRevoked(j)

(* Mutant: a session is dated with the clock alone.                         *)
BugIssuedAt(u) == now
IssuedAt(u) == Later(now, Later(epochs[u], epochs[Everyone]) + 1)

Aims(r, u) == revoker[r].subject \in {u, Everyone} /\ revoker[r].jti = "none"

CreateSession(j, u) ==
  /\ loaded /\ ~Issued(j)
  /\ IssuedAt(u) \in Times
  /\ cookie' = [cookie EXCEPT ![j] = [user |-> u, iat |-> IssuedAt(u),
       exp |-> IssuedAt(u) + Lifetime, cfg |-> config]]
  /\ spared' = IF \E r \in Revokers : revoker[r].pc # "idle" /\ Aims(r, u)
               THEN spared ELSE spared \union {j}
  /\ UNCHANGED <<sessionClock, epochs, revoked, loaded, stored, config, revoker, dead, boots>>

-----------------------------------------------------------------------------
(* logout: the cookie tells its id and its expiry.                          *)
RevokeJti(r, j) ==
  /\ revoker[r].pc = "idle" /\ Accepted(j)
  /\ revoker' = [revoker EXCEPT ![r] = [NoRevoker EXCEPT !.pc = "writing", !.jti = j,
                                        !.cut = cookie[j].exp, !.now = now]]
  /\ spared' = spared \ {j}
  /\ UNCHANGED <<sessionClock, cookie, epochs, revoked, loaded, stored, config, dead, boots>>

NotBefore(u) == Later(now, epochs[u])

(* revoke_user and revoke_everyone.                                         *)
RevokeUser(r, u) ==
  /\ loaded /\ revoker[r].pc = "idle"
  /\ revoker' = [revoker EXCEPT ![r] = [NoRevoker EXCEPT !.pc = "writing", !.subject = u,
                                        !.cut = NotBefore(u), !.now = now]]
  /\ spared' = {j \in spared : u # Everyone /\ cookie[j].user # u}
  /\ UNCHANGED <<sessionClock, cookie, epochs, revoked, loaded, stored, config, dead, boots>>

(* What is left of a list of revoked ids when the expired ones are swept.   *)
Unswept(list, at) == [j \in Jtis |->
  IF 0 < list[j] /\ list[j] <= at THEN NotRevoked ELSE list[j]]

WithEpoch(r, list) ==
  IF revoker[r].jti # "none" THEN list
  ELSE [list EXCEPT ![revoker[r].subject] = Later(@, revoker[r].cut)]
WithJti(r, list) ==
  Unswept([j \in Jtis |-> IF j = revoker[r].jti THEN revoker[r].cut ELSE list[j]],
          revoker[r].now)

(* _write up to its commit, which may fail: the request ends with an error. *)
CommitRevocation(r) ==
  /\ revoker[r].pc = "writing"
  /\ \/ /\ epochRow' = WithEpoch(r, epochRow) /\ jtiRow' = WithJti(r, jtiRow)
        /\ revoker' = [revoker EXCEPT ![r].pc = "committed"]
     \/ revoker' = [revoker EXCEPT ![r] = NoRevoker] /\ UNCHANGED stored
  /\ UNCHANGED <<sessionClock, cookie, epochs, revoked, loaded, config, dead, spared, boots>>

(* Mutant: memory is updated while the commit is still under way.           *)
BugRemember(r) ==
  /\ revoker[r].pc = "writing"
  /\ epochs' = WithEpoch(r, epochs) /\ revoked' = WithJti(r, revoked)
  /\ UNCHANGED <<sessionClock, cookie, loaded, stored, config, revoker, spared, boots>>
  /\ dead' = dead \union {j \in Jtis : Issued(j) /\ IsRevoked(j)'}

(* ... and what follows it.                                                 *)
Remember(r) ==
  /\ revoker[r].pc = "committed"
  /\ epochs' = WithEpoch(r, epochs) /\ revoked' = WithJti(r, revoked)
  /\ revoker' = [revoker EXCEPT ![r] = NoRevoker]
  /\ UNCHANGED <<sessionClock, cookie, loaded, stored, config, spared, boots>>
  /\ dead' = dead \union {j \in Jtis : Issued(j) /\ IsRevoked(j)'}

-----------------------------------------------------------------------------
(* The process dies; the next one may have other credentials configured.    *)
PortalDies ==
  /\ boots < MaxBoots /\ boots' = boots + 1
  /\ loaded' = FALSE
  /\ epochs' = [u \in Subjects |-> 0] /\ revoked' = [j \in Jtis |-> NotRevoked]
  /\ revoker' = [r \in Revokers |-> NoRevoker]
  /\ config' \in {config, boots + 1}
  /\ UNCHANGED <<sessionClock, cookie, stored, dead, spared>>

(* load, before the first request is served.                                *)
LoadRevocations ==
  /\ ~loaded /\ loaded' = TRUE
  /\ jtiRow' = Unswept(jtiRow, now)
  /\ epochs' = epochRow /\ revoked' = jtiRow'
  /\ UNCHANGED <<sessionClock, cookie, epochRow, config, revoker, spared, boots>>
  /\ dead' = dead \union {j \in Jtis : Issued(j) /\ IsRevoked(j)'}

TimePasses ==
  /\ now < MaxTime /\ now' = now + 1 /\ latest' = Later(latest, now')
  /\ UNCHANGED <<cookie, epochs, revoked, loaded, stored, config, revoker, dead,
                 spared, setBacks, boots>>

ClockSetBack ==
  /\ setBacks < MaxSetBacks /\ setBacks' = setBacks + 1
  /\ now' \in 0 .. now - 1
  /\ UNCHANGED <<latest, cookie, epochs, revoked, loaded, stored, config, revoker, dead,
                 spared, boots>>

SessionsNext ==
  \/ \E j \in Jtis, u \in Users : CreateSession(j, u)
  \/ \E r \in Revokers : \/ \E j \in Jtis : RevokeJti(r, j)
                         \/ \E u \in Subjects : RevokeUser(r, u)
                         \/ CommitRevocation(r) \/ Remember(r)
  \/ PortalDies \/ LoadRevocations \/ TimePasses \/ ClockSetBack

SessionsSpec == SessionsInit /\ [][SessionsNext]_sessionsVars

-----------------------------------------------------------------------------
(* A session that was once refused as revoked is refused ever after, over   *)
(* restarts, failed commits and a clock that is set back, up to the moment  *)
(* the clock first shows its expiry: then its row may have been swept       *)
(* (services/sessions.py:135-139, 85-92, 176-178).                          *)
EndedStaysEnded ==
  \A j \in dead : latest < cookie[j].exp => ~Accepted(j)

(* A session that no revocation was under way for when it was issued, and   *)
(* none was asked for since, is accepted until it expires, whatever was     *)
(* revoked before and wherever the clock was set (services/auth.py:81-86).  *)
LoginLives ==
  \A j \in spared : loaded /\ now <= cookie[j].exp /\ cookie[j].cfg = config
                      => Accepted(j)

(* What revocation keeps: the types, ended sessions ended, and the other    *)
(* ones alive (services/sessions.py:56-180).                                *)
SessionsInv == SessionsTypeOK /\ EndedStaysEnded /\ LoginLives
=============================================================================
