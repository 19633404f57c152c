----------------------------- MODULE PortalProofs ------------------------------
(***************************************************************************)
(* The parts of the portal behind its own pages.  The end of sessions, for  *)
(* any number of users, sessions, requests and restarts, and any clock:     *)
(* what was ended stays ended, and nobody else is signed out.  Single sign- *)
(* on, for any callbacks and spans: requests for keys are spread, and trust *)
(* in a withdrawn key ends.  Evaluations, for any jobs and runs: a live run *)
(* has a job behind it.  Backups, for any rows: a restore is whole.  Ports, *)
(* for any rows and requests: what was compared binds apart.                *)
(***************************************************************************)
EXTENDS Sessions, SignIn, Evals, Backup, Ports, FiniteSetTheorems, SequenceTheorems, TLAPS

(* Whether a list of revoked ids and a map of epochs end a session.         *)
Struck(list, map, j) ==
  \/ list[j] # NotRevoked
  \/ cookie[j].iat < map[Everyone]
  \/ cookie[j].iat < map[cookie[j].user]

Busy(r) == revoker[r].pc # "idle"
Done(r) == revoker[r].pc = "committed"

(* No clock ever showed more than `latest`, and requests run in a portal    *)
(* that has loaded its maps.                                                *)
ClockInv ==
  /\ now <= latest
  /\ \A r \in Revokers : Busy(r) => loaded /\ revoker[r].now <= latest

(* A revoked id is that of a session, with its expiry; an epoch is a time   *)
(* the clock can show.                                                      *)
IdsInv ==
  /\ \A r \in Revokers : revoker[r].jti = "none" => revoker[r].cut \in Times
  /\ \A r \in Revokers : Busy(r) /\ revoker[r].jti # "none" =>
       Issued(revoker[r].jti) /\ revoker[r].cut = cookie[revoker[r].jti].exp
  /\ \A j \in Jtis : /\ revoked[j] # NotRevoked => Issued(j) /\ revoked[j] = cookie[j].exp
                     /\ jtiRow[j] # NotRevoked => Issued(j) /\ jtiRow[j] = cookie[j].exp

(* Memory is behind the table by what is committed and not remembered; and  *)
(* what is in memory is in the table, but for expired ids.                  *)
EpochsInv ==
  \A s \in Subjects :
    /\ epochs[s] <= epochRow[s]
    /\ loaded => \/ epochs[s] = epochRow[s]
                 \/ \E r \in Revokers : /\ Done(r) /\ revoker[r].jti = "none"
                                        /\ revoker[r].subject = s
                                        /\ revoker[r].cut = epochRow[s]
StoredInv ==
  /\ \A j \in Jtis : revoked[j] # NotRevoked => revoked[j] <= latest \/ jtiRow[j] = revoked[j]
  /\ \A r \in Revokers : Done(r) =>
       IF revoker[r].jti = "none" THEN revoker[r].cut <= epochRow[revoker[r].subject]
       ELSE \/ revoker[r].cut <= latest
            \/ jtiRow[revoker[r].jti] = revoker[r].cut

(* An ended session is ended in the table, and in the memory once loaded.   *)
EndedInv ==
  \A j \in dead :
    /\ Issued(j)
    /\ latest < cookie[j].exp =>
         Struck(jtiRow, epochRow, j) /\ (loaded => Struck(revoked, epochs, j))

(* A session that was spared is ended by neither, nor by what is under way. *)
SparedInv ==
  \A j \in spared :
    /\ Issued(j)
    /\ ~Struck(revoked, epochs, j) /\ ~Struck(jtiRow, epochRow, j)
    /\ \A r \in Revokers : Busy(r) => revoker[r].jti # j /\ ~Aims(r, cookie[j].user)

SessIInv ==
  /\ SessionsTypeOK /\ ClockInv /\ IdsInv /\ EpochsInv /\ StoredInv
  /\ EndedInv /\ SparedInv

Requests == [pc : {"idle", "writing", "committed"}, subject : Subjects,
             jti : Jtis \union {"none"}, cut : Expiries, now : Times]

(* The types, value by value.                                               *)
LEMMA Numbers ==
  /\ MaxTime \in Nat /\ Lifetime \in Nat /\ Lifetime > 0
  /\ Times \subseteq Nat /\ Expiries \subseteq Nat /\ Times \subseteq Expiries
  /\ 0 \in Times /\ 0 \in Expiries /\ NotRevoked = -1 /\ NotRevoked \notin Nat
  /\ \A t \in 0..MaxTime : t \in Times
  /\ \A t \in Times : t + Lifetime \in Expiries
BY SessionsAssumption, SessionsBounds DEF Times, Expiries, NotRevoked

LEMMA Values ==
  ASSUME SessionsTypeOK
  PROVE  /\ now \in Nat /\ latest \in Nat
         /\ \A j \in Jtis : /\ cookie[j].iat \in Nat /\ cookie[j].exp \in Nat
                            /\ cookie[j].user \in Subjects
                            /\ revoked[j] \in Nat \union {NotRevoked}
                            /\ jtiRow[j] \in Nat \union {NotRevoked}
         /\ \A s \in Subjects : epochs[s] \in Nat /\ epochRow[s] \in Nat
         /\ \A r \in Revokers : /\ revoker[r] \in Requests
                                /\ revoker[r].cut \in Nat /\ revoker[r].now \in Nat
                                /\ revoker[r].subject \in Subjects
                                /\ revoker[r].jti \in Jtis \union {"none"}
         /\ Everyone \in Subjects
<1> USE Numbers
<1>1. now \in Nat /\ latest \in Nat /\ Everyone \in Subjects
  BY DEF SessionsTypeOK, Subjects
<1>2. ASSUME NEW j \in Jtis
      PROVE  /\ cookie[j].iat \in Nat /\ cookie[j].exp \in Nat /\ cookie[j].user \in Subjects
             /\ revoked[j] \in Nat \union {NotRevoked}
             /\ jtiRow[j] \in Nat \union {NotRevoked}
  BY DEF SessionsTypeOK
<1>3. \A s \in Subjects : epochs[s] \in Nat /\ epochRow[s] \in Nat
  BY DEF SessionsTypeOK
<1>4. ASSUME NEW r \in Revokers
      PROVE  /\ revoker[r] \in Requests
             /\ revoker[r].cut \in Nat /\ revoker[r].now \in Nat
             /\ revoker[r].subject \in Subjects /\ revoker[r].jti \in Jtis \union {"none"}
  <2>1. revoker[r] \in Requests
    BY DEF SessionsTypeOK, Requests
  <2> QED
    BY <2>1 DEF Requests
<1> QED
  BY <1>1, <1>2, <1>3, <1>4

LEMMA NoRequest == NoRevoker \in Requests /\ NoRevoker.pc = "idle"
BY Numbers DEF NoRevoker, Requests, Subjects

(* Sweeping takes no id that has not expired, and adds none.                *)
LEMMA Sweep ==
  ASSUME NEW list, NEW at \in Nat, NEW j \in Jtis, list[j] \in Nat \union {NotRevoked}
  PROVE  /\ Unswept(list, at)[j] \in {list[j], NotRevoked}
         /\ list[j] = NotRevoked => Unswept(list, at)[j] = NotRevoked
         /\ list[j] > at => Unswept(list, at)[j] = list[j]
         /\ Unswept(list, at)[j] = NotRevoked /\ list[j] # NotRevoked => list[j] <= at
BY Numbers DEF Unswept

LEMMA SessStart == SessionsInit => SessIInv
<1> SUFFICES ASSUME SessionsInit PROVE SessIInv
  OBVIOUS
<1>1. SessionsTypeOK
  <2>1. NotIssued \in [user : Subjects, iat : Times, exp : Expiries, cfg : 0..MaxBoots]
    BY Numbers, SessionsBounds DEF NotIssued, Subjects
  <2> QED
    BY <2>1, NoRequest, Numbers, SessionsBounds DEF SessionsInit, SessionsTypeOK, Requests
<1>2. \A j \in Jtis : revoked[j] = NotRevoked /\ jtiRow[j] = NotRevoked
  BY DEF SessionsInit
<1>3. \A s \in Subjects : epochs[s] = 0 /\ epochRow[s] = 0
  BY DEF SessionsInit
<1>4. \A r \in Revokers : ~Busy(r) /\ ~Done(r)
  BY NoRequest DEF SessionsInit, Busy, Done
<1>5. \A r \in Revokers : revoker[r].cut = 0
  BY DEF SessionsInit, NoRevoker
<1> QED
  BY <1>1, <1>2, <1>3, <1>4, <1>5, Numbers DEF SessionsInit, SessIInv, ClockInv, IdsInv, EpochsInv,
     StoredInv, EndedInv, SparedInv

-----------------------------------------------------------------------------
(* The types.                                                               *)
LEMMA LaterIs ==
  ASSUME NEW a \in Nat, NEW b \in Nat
  PROVE  /\ Later(a, b) \in {a, b} /\ Later(a, b) >= a /\ Later(a, b) >= b
BY DEF Later

LEMMA CreateTypes ==
  ASSUME SessionsTypeOK, NEW j \in Jtis, NEW u \in Users, CreateSession(j, u)
  PROVE  SessionsTypeOK'
<1>1. [user |-> u, iat |-> IssuedAt(u), exp |-> IssuedAt(u) + Lifetime, cfg |-> config]
        \in [user : Subjects, iat : Times, exp : Expiries, cfg : 0..MaxBoots]
  BY Numbers DEF CreateSession, SessionsTypeOK, Subjects
<1> QED
  BY <1>1 DEF CreateSession, SessionsTypeOK, sessionClock, stored

LEMMA RequestTypes ==
  ASSUME SessionsTypeOK, NEW r \in Revokers,
         \/ \E j \in Jtis : RevokeJti(r, j)
         \/ \E u \in Subjects : RevokeUser(r, u)
  PROVE  SessionsTypeOK'
<1>1. now \in Times
  BY Numbers DEF SessionsTypeOK
<1>2. ASSUME NEW j \in Jtis, RevokeJti(r, j) PROVE SessionsTypeOK'
  <2>1. cookie[j].exp \in Expiries
    BY DEF SessionsTypeOK
  <2>2. [NoRevoker EXCEPT !.pc = "writing", !.jti = j, !.cut = cookie[j].exp, !.now = now]
          \in Requests
    BY <1>1, <2>1, NoRequest DEF Requests
  <2> QED
    BY <1>2, <2>2 DEF RevokeJti, SessionsTypeOK, Requests, sessionClock, stored
<1>3. ASSUME NEW u \in Subjects, RevokeUser(r, u) PROVE SessionsTypeOK'
  <2>1. NotBefore(u) \in Expiries
    <3>1. epochs[u] \in Times /\ now \in Nat /\ epochs[u] \in Nat
      BY <1>1, Numbers DEF SessionsTypeOK
    <3> QED
      BY <1>1, <3>1, LaterIs, Numbers DEF NotBefore
  <2>2. [NoRevoker EXCEPT !.pc = "writing", !.subject = u, !.cut = NotBefore(u), !.now = now]
          \in Requests
    BY <1>1, <2>1, NoRequest DEF Requests
  <2> QED
    BY <1>3, <2>2 DEF RevokeUser, SessionsTypeOK, Requests, sessionClock, stored
<1> QED
  BY <1>2, <1>3

(* What a request writes to either copy of the two maps.                    *)
LEMMA WithTypes ==
  ASSUME SessionsTypeOK, NEW r \in Revokers,
         revoker[r].jti = "none" => revoker[r].cut \in Times,
         NEW map \in [Subjects -> Times], NEW list \in [Jtis -> Expiries \union {NotRevoked}]
  PROVE  /\ WithEpoch(r, map) \in [Subjects -> Times]
         /\ WithJti(r, list) \in [Jtis -> Expiries \union {NotRevoked}]
<1>1. \A s \in Subjects : map[s] \in Times /\ map[s] \in Nat
  BY Numbers
<1>2. revoker[r].cut \in Nat /\ revoker[r].cut \in Expiries
  BY Values DEF Requests
<1>3. WithEpoch(r, map) \in [Subjects -> Times]
  <2>1. \A s \in Subjects : Later(map[s], revoker[r].cut) \in {map[s], revoker[r].cut}
    BY <1>1, <1>2, LaterIs
  <2> QED
    BY <1>1, <2>1 DEF WithEpoch
<1>4. WithJti(r, list) \in [Jtis -> Expiries \union {NotRevoked}]
  BY <1>2 DEF WithJti, Unswept
<1> QED
  BY <1>3, <1>4

LEMMA WriteTypes ==
  ASSUME SessionsTypeOK, IdsInv, NEW r \in Revokers, CommitRevocation(r) \/ Remember(r)
  PROVE  SessionsTypeOK'
<1>1. /\ WithEpoch(r, epochRow) \in [Subjects -> Times]
      /\ WithJti(r, jtiRow) \in [Jtis -> Expiries \union {NotRevoked}]
      /\ WithEpoch(r, epochs) \in [Subjects -> Times]
      /\ WithJti(r, revoked) \in [Jtis -> Expiries \union {NotRevoked}]
  BY WithTypes DEF SessionsTypeOK, IdsInv
<1>2. [revoker[r] EXCEPT !.pc = "committed"] \in Requests /\ NoRevoker \in Requests
  BY Values, NoRequest DEF Requests
<1>3. CASE CommitRevocation(r)
  <2>1. revoker' \in [Revokers -> Requests]
    BY <1>2, <1>3 DEF CommitRevocation, SessionsTypeOK, Requests
  <2>2. /\ epochRow' \in [Subjects -> Times]
        /\ jtiRow' \in [Jtis -> Expiries \union {NotRevoked}]
    BY <1>1, <1>3 DEF CommitRevocation, SessionsTypeOK, stored
  <2> QED
    BY <1>3, <2>1, <2>2 DEF CommitRevocation, SessionsTypeOK, Requests, sessionClock
<1>4. CASE Remember(r)
  <2>1. revoker' \in [Revokers -> Requests]
    BY <1>2, <1>4 DEF Remember, SessionsTypeOK, Requests
  <2>2. dead' \subseteq Jtis
    BY <1>4 DEF Remember, SessionsTypeOK
  <2> QED
    BY <1>1, <1>4, <2>1, <2>2 DEF Remember, SessionsTypeOK, Requests, sessionClock, stored
<1> QED
  BY <1>3, <1>4

LEMMA PortalTypes ==
  ASSUME SessionsTypeOK, PortalDies \/ LoadRevocations \/ TimePasses \/ ClockSetBack
  PROVE  SessionsTypeOK'
<1>1. CASE PortalDies
  <2>1. config' \in 0..MaxBoots /\ boots' \in 0..MaxBoots
    BY <1>1, SessionsBounds DEF PortalDies, SessionsTypeOK
  <2> QED
    BY <1>1, <2>1, NoRequest, Numbers
       DEF PortalDies, SessionsTypeOK, Requests, sessionClock, stored
<1>2. CASE LoadRevocations
  <2>1. jtiRow' \in [Jtis -> Expiries \union {NotRevoked}]
    BY <1>2 DEF LoadRevocations, Unswept, SessionsTypeOK
  <2>2. dead' \subseteq Jtis
    BY <1>2 DEF LoadRevocations, SessionsTypeOK
  <2> QED
    BY <1>2, <2>1, <2>2 DEF LoadRevocations, SessionsTypeOK, sessionClock
<1>3. CASE TimePasses
  <2>1. now' \in 0..MaxTime /\ latest \in Nat /\ now' \in Nat
    BY <1>3, SessionsBounds DEF TimePasses, SessionsTypeOK
  <2>2. latest' \in 0..MaxTime
    BY <1>3, <2>1, LaterIs DEF TimePasses, SessionsTypeOK
  <2> QED
    BY <1>3, <2>1, <2>2 DEF TimePasses, SessionsTypeOK, stored
<1>4. CASE ClockSetBack
  <2>1. now' \in 0..MaxTime /\ setBacks' \in 0..MaxSetBacks
    BY <1>4, SessionsBounds DEF ClockSetBack, SessionsTypeOK
  <2> QED
    BY <1>4, <2>1 DEF ClockSetBack, SessionsTypeOK, stored
<1> QED
  BY <1>1, <1>2, <1>3, <1>4

-----------------------------------------------------------------------------
(* A login is dated after every epoch that is in memory, so neither what is *)
(* in memory nor what has reached the table ends it, unless a request that  *)
(* aims at its user is under way.                                           *)
LEMMA CreateKeeps ==
  ASSUME SessIInv, NEW j \in Jtis, NEW u \in Users, CreateSession(j, u)
  PROVE  SessIInv'
<1> USE DEF SessIInv
<1>1. SessionsTypeOK'
  BY CreateTypes
<1>2. /\ UNCHANGED <<now, latest, epochs, revoked, loaded, epochRow, jtiRow, config,
                      revoker, dead>>
      /\ loaded /\ ~Issued(j)
      /\ \A i \in Jtis : i # j => cookie'[i] = cookie[i]
      /\ cookie'[j].user = u /\ cookie'[j].iat = IssuedAt(u)
      /\ cookie'[j].exp = IssuedAt(u) + Lifetime
  BY DEF CreateSession, sessionClock, stored, SessionsTypeOK
<1>3. u \in Subjects /\ u # Everyone
  BY SessionsAssumption DEF Subjects
<1>4. /\ IssuedAt(u) > epochs[u] /\ IssuedAt(u) > epochs[Everyone] /\ IssuedAt(u) \in Nat
  BY <1>3, Values, LaterIs DEF IssuedAt
<1>5. Issued(j)' /\ \A i \in Jtis : Issued(i) => i # j /\ Issued(i)'
  <2>1. NotIssued.exp = 0
    BY DEF NotIssued
  <2>2. cookie'[j] # NotIssued
    BY <1>2, <1>4, <2>1, Numbers
  <2> QED
    BY <1>2, <2>2 DEF Issued
<1>6. ClockInv' /\ EpochsInv' /\ StoredInv'
  BY <1>2 DEF ClockInv, EpochsInv, StoredInv, Busy, Done
<1>7. IdsInv'
  BY <1>2, <1>5, Values DEF IdsInv, Busy
<1>8. EndedInv'
  BY <1>2, <1>5 DEF EndedInv, Struck, SessionsTypeOK
<1>9. ASSUME NEW i \in spared, i # j
      PROVE  /\ Issued(i)'
             /\ ~Struck(revoked, epochs, i)' /\ ~Struck(jtiRow, epochRow, i)'
             /\ \A r \in Revokers : Busy(r)' => revoker'[r].jti # i /\ ~Aims(r, cookie[i].user)'
  BY <1>2, <1>5, <1>9 DEF SparedInv, Struck, SessionsTypeOK, Busy, Aims
<1>10. ASSUME \A r \in Revokers : Busy(r) => ~Aims(r, u)
       PROVE  /\ ~Struck(revoked, epochs, j)' /\ ~Struck(jtiRow, epochRow, j)'
              /\ \A r \in Revokers : Busy(r)' => revoker'[r].jti # j /\ ~Aims(r, cookie[j].user)'
  <2>1. revoked[j] = NotRevoked /\ jtiRow[j] = NotRevoked
    BY <1>2 DEF IdsInv
  <2>2. ASSUME NEW s \in {u, Everyone} PROVE epochRow[s] = epochs[s]
    <3>1. \A r \in Revokers : Done(r) => Busy(r)
      BY DEF Done, Busy
    <3>2. s \in Subjects
      BY <1>3, Values
    <3> QED
      BY <1>2, <1>10, <3>1, <3>2 DEF EpochsInv, Aims
  <2>3. /\ ~Struck(revoked, epochs, j)' /\ ~Struck(jtiRow, epochRow, j)'
    BY <1>2, <1>3, <1>4, <2>1, <2>2, Values DEF Struck
  <2>4. \A r \in Revokers : Busy(r) => revoker[r].jti # j
    BY <1>2, SessionsAssumption DEF IdsInv
  <2> QED
    BY <1>2, <1>10, <2>3, <2>4 DEF Busy, Aims
<1>11. SparedInv'
  <2>1. \/ spared' = spared
        \/ spared' = spared \union {j} /\ \A r \in Revokers : Busy(r) => ~Aims(r, u)
    BY DEF CreateSession, Busy
  <2>2. j \notin spared
    BY <1>2 DEF SparedInv
  <2> QED
    BY <1>2, <1>5, <1>9, <1>10, <2>1, <2>2 DEF SparedInv
<1> QED
  BY <1>1, <1>6, <1>7, <1>8, <1>11

(* A request begins: the sessions it aims at are no longer spared.          *)
LEMMA RequestKeeps ==
  ASSUME SessIInv, NEW r \in Revokers,
         \/ \E j \in Jtis : RevokeJti(r, j)
         \/ \E u \in Subjects : RevokeUser(r, u)
  PROVE  SessIInv'
<1> USE DEF SessIInv
<1>1. SessionsTypeOK'
  BY RequestTypes
<1>2. /\ UNCHANGED <<now, latest, cookie, epochs, revoked, loaded, epochRow, jtiRow, dead>>
      /\ loaded /\ ~Busy(r) /\ ~Done(r) /\ ~Done(r)'
      /\ revoker'[r].now = now /\ revoker'[r].pc = "writing"
      /\ \A q \in Revokers : q # r => revoker'[q] = revoker[q]
      /\ spared' \subseteq spared
  <2>1. /\ revoker'[r].now = now /\ revoker'[r].pc = "writing"
        /\ \A q \in Revokers : q # r => revoker'[q] = revoker[q]
    <3>1. ASSUME NEW j \in Jtis, RevokeJti(r, j)
          PROVE  /\ revoker'[r].now = now /\ revoker'[r].pc = "writing"
                 /\ \A q \in Revokers : q # r => revoker'[q] = revoker[q]
      BY <3>1 DEF RevokeJti, NoRevoker, SessionsTypeOK
    <3>2. ASSUME NEW u \in Subjects, RevokeUser(r, u)
          PROVE  /\ revoker'[r].now = now /\ revoker'[r].pc = "writing"
                 /\ \A q \in Revokers : q # r => revoker'[q] = revoker[q]
      BY <3>2 DEF RevokeUser, NoRevoker, SessionsTypeOK
    <3> QED
      BY <3>1, <3>2
  <2>2. /\ UNCHANGED <<now, latest, cookie, epochs, revoked, loaded, epochRow, jtiRow, dead>>
        /\ spared' \subseteq spared /\ revoker[r].pc = "idle"
    BY DEF RevokeJti, RevokeUser, sessionClock, stored
  <2>3. loaded
    BY DEF RevokeJti, RevokeUser, Accepted, IsRevoked
  <2> QED
    BY <2>1, <2>2, <2>3 DEF Busy, Done
<1>3. \A q \in Revokers : Done(q)' <=> Done(q)
  BY <1>2 DEF Done
<1>4. \A q \in Revokers : Done(q) => q # r /\ revoker'[q] = revoker[q]
  BY <1>2
<1>5. ClockInv' /\ EpochsInv' /\ StoredInv' /\ EndedInv'
  <2>1. ClockInv'
    BY <1>2 DEF ClockInv, Busy
  <2>2. EpochsInv' /\ StoredInv'
    BY <1>2, <1>3, <1>4 DEF EpochsInv, StoredInv
  <2>3. EndedInv'
    BY <1>2 DEF EndedInv, Struck, Issued
  <2> QED
    BY <2>1, <2>2, <2>3
<1>6. ASSUME NEW j \in Jtis, RevokeJti(r, j) PROVE IdsInv' /\ SparedInv'
  <2>1. /\ revoker'[r].jti = j /\ revoker'[r].cut = cookie[j].exp
        /\ spared' = spared \ {j} /\ Issued(j) /\ j # "none"
    BY <1>6, SessionsAssumption DEF RevokeJti, NoRevoker, SessionsTypeOK, Accepted
  <2>2. IdsInv'
    BY <1>2, <2>1 DEF IdsInv, Busy, Issued
  <2>3. SparedInv'
    BY <1>2, <2>1 DEF SparedInv, Busy, Aims, Issued, Struck
  <2> QED
    BY <2>2, <2>3
<1>7. ASSUME NEW u \in Subjects, RevokeUser(r, u) PROVE IdsInv' /\ SparedInv'
  <2>1. /\ revoker'[r].jti = "none" /\ revoker'[r].subject = u
        /\ revoker'[r].cut = NotBefore(u)
        /\ spared' = {j \in spared : u # Everyone /\ cookie[j].user # u}
    BY <1>7 DEF RevokeUser, NoRevoker, SessionsTypeOK
  <2>2. NotBefore(u) \in Times
    <3>1. epochs[u] \in Times /\ now \in Times
      BY Numbers DEF SessionsTypeOK
    <3> QED
      BY <3>1, LaterIs, Numbers DEF NotBefore
  <2>3. IdsInv'
    BY <1>2, <2>1, <2>2 DEF IdsInv, Busy, Issued
  <2>4. ASSUME NEW j \in spared'
        PROVE  \A q \in Revokers : Busy(q)' => revoker'[q].jti # j /\ ~Aims(q, cookie[j].user)'
    <3>1. j # "none" /\ u \notin {cookie[j].user, Everyone} /\ j \in spared
      BY <2>1, <2>4, SessionsAssumption DEF SessionsTypeOK
    <3>2. ASSUME NEW q \in Revokers, q # r, Busy(q)'
          PROVE  revoker'[q].jti # j /\ ~Aims(q, cookie[j].user)'
      BY <1>2, <3>1, <3>2 DEF SparedInv, Busy, Aims
    <3> QED
      BY <1>2, <2>1, <3>1, <3>2 DEF Aims
  <2>5. SparedInv'
    BY <1>2, <2>4 DEF SparedInv, Issued, Struck
  <2> QED
    BY <2>3, <2>5
<1> QED
  BY <1>1, <1>5, <1>6, <1>7

(* What a request that is written does to a table or a map: an epoch only   *)
(* moves on, an id that has not expired stays, and only what the request    *)
(* aims at is ended.                                                        *)
LEMMA Writing ==
  ASSUME SessIInv, NEW r \in Revokers, Busy(r),
         NEW map \in [Subjects -> Times], NEW list \in [Jtis -> Expiries \union {NotRevoked}],
         \A j \in Jtis : list[j] # NotRevoked => Issued(j) /\ list[j] = cookie[j].exp
  PROVE  LET m == WithEpoch(r, map)  l == WithJti(r, list) IN
         /\ \A s \in Subjects : /\ m[s] >= map[s]
                                /\ s # revoker[r].subject \/ revoker[r].jti # "none"
                                     => m[s] = map[s]
         /\ revoker[r].jti = "none" =>
              m[revoker[r].subject] \in {map[revoker[r].subject], revoker[r].cut}
              /\ m[revoker[r].subject] >= revoker[r].cut
         /\ \A j \in Jtis :
              /\ l[j] # NotRevoked => Issued(j) /\ l[j] = cookie[j].exp
              /\ list[j] # NotRevoked /\ cookie[j].exp > latest => l[j] = cookie[j].exp
              /\ j # revoker[r].jti /\ list[j] = NotRevoked => l[j] = NotRevoked
              /\ j = revoker[r].jti /\ cookie[j].exp > latest => l[j] = cookie[j].exp
<1> USE DEF SessIInv
<1>1. /\ revoker[r].cut \in Nat /\ revoker[r].now \in Nat /\ revoker[r].now <= latest
      /\ revoker[r].subject \in Subjects /\ latest \in Nat
  BY Values DEF ClockInv
<1>2. \A s \in Subjects : map[s] \in Nat
  BY Numbers
<1>3. ASSUME NEW s \in Subjects
      PROVE  /\ WithEpoch(r, map)[s] >= map[s]
             /\ s # revoker[r].subject \/ revoker[r].jti # "none" => WithEpoch(r, map)[s] = map[s]
             /\ s = revoker[r].subject /\ revoker[r].jti = "none" =>
                  WithEpoch(r, map)[s] \in {map[s], revoker[r].cut}
                  /\ WithEpoch(r, map)[s] >= revoker[r].cut
  BY <1>1, <1>2, LaterIs DEF WithEpoch
<1>4. ASSUME NEW j \in Jtis
      PROVE  LET l == WithJti(r, list) IN
             /\ l[j] # NotRevoked => Issued(j) /\ l[j] = cookie[j].exp
             /\ list[j] # NotRevoked /\ cookie[j].exp > latest => l[j] = cookie[j].exp
             /\ j # revoker[r].jti /\ list[j] = NotRevoked => l[j] = NotRevoked
             /\ j = revoker[r].jti /\ cookie[j].exp > latest => l[j] = cookie[j].exp
  <2> DEFINE put == [i \in Jtis |-> IF i = revoker[r].jti THEN revoker[r].cut ELSE list[i]]
  <2>1. cookie[j].exp \in Nat /\ list[j] \in Nat \union {NotRevoked} /\ j # "none"
    BY Values, Numbers, SessionsAssumption
  <2>2. /\ put[j] \in Nat \union {NotRevoked}
        /\ put[j] # NotRevoked => Issued(j) /\ put[j] = cookie[j].exp
        /\ j = revoker[r].jti => put[j] = cookie[j].exp
        /\ j # revoker[r].jti => put[j] = list[j]
    BY <1>1, <2>1 DEF IdsInv
  <2>3. WithJti(r, list)[j] = Unswept(put, revoker[r].now)[j]
    BY DEF WithJti
  <2> HIDE DEF put
  <2>4. /\ Unswept(put, revoker[r].now)[j] \in {put[j], NotRevoked}
        /\ put[j] = NotRevoked => Unswept(put, revoker[r].now)[j] = NotRevoked
        /\ put[j] > revoker[r].now => Unswept(put, revoker[r].now)[j] = put[j]
    BY <1>1, <2>2, Sweep
  <2> QED
    BY <1>1, <2>1, <2>2, <2>3, <2>4, Numbers
<1> QED
  BY <1>1, <1>3, <1>4

LEMMA CommitKeeps ==
  ASSUME SessIInv, NEW r \in Revokers, CommitRevocation(r)
  PROVE  SessIInv'
<1> USE DEF SessIInv
<1>1. SessionsTypeOK'
  BY WriteTypes
<1>2. /\ UNCHANGED <<now, latest, cookie, epochs, revoked, loaded, config, dead, spared>>
      /\ revoker[r].pc = "writing" /\ Busy(r) /\ ~Done(r) /\ loaded
      /\ \A q \in Revokers : q # r => revoker'[q] = revoker[q]
      /\ \A q \in Revokers : Done(q) => q # r
      /\ revoker \in [Revokers -> Requests]
  BY DEF CommitRevocation, Busy, Done, ClockInv, SessionsTypeOK, sessionClock, Requests
<1>3. CASE revoker' = [revoker EXCEPT ![r] = NoRevoker] /\ UNCHANGED stored
  <2>1. revoker'[r] = NoRevoker /\ ~Busy(r)' /\ ~Done(r)'
    BY <1>2, <1>3, NoRequest DEF Busy, Done
  <2>2. ClockInv' /\ IdsInv'
    BY <1>2, <1>3, <2>1, Numbers DEF ClockInv, IdsInv, Busy, Issued, stored, NoRevoker
  <2>3. EpochsInv' /\ StoredInv'
    BY <1>2, <1>3, <2>1 DEF EpochsInv, StoredInv, Done, stored
  <2>4. EndedInv' /\ SparedInv'
    BY <1>2, <1>3, <2>1 DEF EndedInv, SparedInv, Issued, Struck, Busy, Aims, stored
  <2> QED
    BY <1>1, <2>2, <2>3, <2>4
<1>4. CASE /\ epochRow' = WithEpoch(r, epochRow) /\ jtiRow' = WithJti(r, jtiRow)
           /\ revoker' = [revoker EXCEPT ![r].pc = "committed"]
  <2> DEFINE s == revoker[r].subject  i == revoker[r].jti
  <2>1. /\ revoker'[r].pc = "committed" /\ Done(r)' /\ Busy(r)'
        /\ revoker'[r].subject = s /\ revoker'[r].jti = i
        /\ revoker'[r].cut = revoker[r].cut /\ revoker'[r].now = revoker[r].now
    BY <1>2, <1>4 DEF Done, Busy, Requests
  <2>2. /\ \A q \in Revokers : /\ revoker'[q].subject = revoker[q].subject
                               /\ revoker'[q].jti = revoker[q].jti
                               /\ revoker'[q].cut = revoker[q].cut
                               /\ revoker'[q].now = revoker[q].now
                               /\ Busy(q)' <=> Busy(q)
                               /\ Done(q)' <=> Done(q) \/ q = r
    BY <1>2, <2>1 DEF Busy, Done
  <2>3. /\ \A u \in Subjects : /\ epochRow'[u] >= epochRow[u]
                               /\ u # s \/ i # "none" => epochRow'[u] = epochRow[u]
        /\ i = "none" => epochRow'[s] \in {epochRow[s], revoker[r].cut}
                         /\ epochRow'[s] >= revoker[r].cut
        /\ \A j \in Jtis :
              /\ jtiRow'[j] # NotRevoked => Issued(j) /\ jtiRow'[j] = cookie[j].exp
              /\ jtiRow[j] # NotRevoked /\ cookie[j].exp > latest => jtiRow'[j] = cookie[j].exp
              /\ j # i /\ jtiRow[j] = NotRevoked => jtiRow'[j] = NotRevoked
              /\ j = i /\ cookie[j].exp > latest => jtiRow'[j] = cookie[j].exp
    <3>1. /\ epochRow \in [Subjects -> Times]
          /\ jtiRow \in [Jtis -> Expiries \union {NotRevoked}]
          /\ \A j \in Jtis : jtiRow[j] # NotRevoked => Issued(j) /\ jtiRow[j] = cookie[j].exp
      BY DEF SessionsTypeOK, IdsInv
    <3> QED
      BY <1>2, <1>4, <3>1, Writing
  <2> HIDE DEF s, i
  <2>4. /\ s \in Subjects /\ i \in Jtis \union {"none"} /\ revoker[r].cut \in Nat
        /\ latest \in Nat
        /\ \A u \in Subjects : epochs[u] \in Nat /\ epochRow[u] \in Nat /\ epochRow'[u] \in Nat
        /\ \A j \in Jtis : /\ cookie[j].exp \in Nat /\ cookie[j].iat \in Nat
                           /\ cookie[j].user \in Subjects
                           /\ revoked[j] \in Nat \union {NotRevoked}
        /\ Everyone \in Subjects
    <3>1. \A u \in Subjects : epochRow'[u] \in Nat
      BY <1>1, Numbers DEF SessionsTypeOK
    <3> QED
      BY <3>1, Values DEF s, i
  <2>5. ClockInv'
    BY <1>2, <2>2 DEF ClockInv
  <2>6. IdsInv'
    BY <1>2, <2>2, <2>3 DEF IdsInv, Issued
  <2>7. EpochsInv'
    <3>1. ASSUME NEW u \in Subjects
          PROVE  /\ epochs'[u] <= epochRow'[u]
                 /\ \/ epochs'[u] = epochRow'[u]
                    \/ \E q \in Revokers : /\ Done(q)' /\ revoker'[q].jti = "none"
                                           /\ revoker'[q].subject = u
                                           /\ revoker'[q].cut = epochRow'[u]
      <4>1. epochs'[u] <= epochRow'[u]
        BY <1>2, <2>3, <2>4 DEF EpochsInv
      <4>2. CASE epochRow'[u] = epochRow[u]
        BY <1>2, <2>2, <4>1, <4>2 DEF EpochsInv
      <4>3. CASE epochRow'[u] # epochRow[u]
        <5>1. u = s /\ i = "none" /\ epochRow'[u] = revoker[r].cut
          BY <2>3, <4>3
        <5> QED
          BY <2>1, <4>1, <5>1
      <4> QED
        BY <4>2, <4>3
    <3> QED
      BY <3>1 DEF EpochsInv
  <2>8. StoredInv'
    <3>1. ASSUME NEW j \in Jtis, revoked[j] # NotRevoked
          PROVE  revoked[j] <= latest \/ jtiRow'[j] = revoked[j]
      BY <2>3, <2>4, <3>1, Numbers DEF StoredInv, IdsInv
    <3>2. ASSUME NEW q \in Revokers, Done(q)'
          PROVE  IF revoker[q].jti = "none" THEN revoker[q].cut <= epochRow'[revoker[q].subject]
                 ELSE revoker[q].cut <= latest \/ jtiRow'[revoker[q].jti] = revoker[q].cut
      <4>1. /\ revoker[q].subject \in Subjects /\ revoker[q].jti \in Jtis \union {"none"}
            /\ revoker[q].cut \in Nat
        BY Values
      <4>2. CASE q = r
        BY <1>2, <2>3, <2>4, <4>1, <4>2 DEF s, i, IdsInv
      <4>3. CASE q # r
        <5>1. Done(q) /\ Busy(q)
          BY <2>2, <3>2, <4>3 DEF Done, Busy
        <5>2. CASE revoker[q].jti = "none"
          BY <2>3, <2>4, <4>1, <5>1, <5>2 DEF StoredInv
        <5>3. CASE revoker[q].jti # "none"
          <6>1. revoker[q].cut = cookie[revoker[q].jti].exp
            BY <5>1, <5>3 DEF IdsInv
          <6> QED
            BY <2>3, <2>4, <4>1, <5>1, <5>3, <6>1, Numbers DEF StoredInv
        <5> QED
          BY <5>2, <5>3
      <4> QED
        BY <4>2, <4>3
    <3> QED
      BY <1>2, <2>2, <3>1, <3>2 DEF StoredInv
  <2>9. EndedInv'
    <3>1. ASSUME NEW j \in dead, latest < cookie[j].exp PROVE Struck(jtiRow, epochRow, j)'
      <4>1. j \in Jtis /\ Struck(jtiRow, epochRow, j)
        BY <3>1 DEF EndedInv, SessionsTypeOK
      <4>2. CASE jtiRow[j] # NotRevoked
        BY <1>2, <2>3, <2>4, <3>1, <4>1, <4>2, Numbers DEF Struck
      <4>3. CASE jtiRow[j] = NotRevoked
        BY <1>2, <2>3, <2>4, <4>1, <4>3 DEF Struck
      <4> QED
        BY <4>2, <4>3
    <3> QED
      BY <1>2, <3>1 DEF EndedInv, Struck, Issued
  <2>10. SparedInv'
    <3>1. ASSUME NEW j \in spared PROVE ~Struck(jtiRow, epochRow, j)'
      <4>1. j \in Jtis /\ ~Struck(jtiRow, epochRow, j) /\ i # j /\ ~Aims(r, cookie[j].user)
        BY <1>2 DEF SparedInv, SessionsTypeOK, i
      <4>2. \/ i # "none"
            \/ s \notin {cookie[j].user, Everyone}
        BY <4>1 DEF Aims, s, i
      <4> QED
        BY <1>2, <2>3, <2>4, <4>1, <4>2 DEF Struck
    <3> QED
      BY <1>2, <2>2, <3>1 DEF SparedInv, Struck, Issued, Aims
  <2> QED
    BY <1>1, <2>5, <2>6, <2>7, <2>8, <2>9, <2>10
<1> QED
  BY <1>3, <1>4 DEF CommitRevocation

LEMMA RememberKeeps ==
  ASSUME SessIInv, NEW r \in Revokers, Remember(r)
  PROVE  SessIInv'
<1> USE DEF SessIInv
<1> DEFINE s == revoker[r].subject  i == revoker[r].jti
<1>1. SessionsTypeOK'
  BY WriteTypes
<1>2. /\ UNCHANGED <<now, latest, cookie, epochRow, jtiRow, loaded, config, spared>>
      /\ Busy(r) /\ Done(r) /\ loaded
      /\ \A q \in Revokers : q # r => revoker'[q] = revoker[q]
      /\ revoker'[r] = NoRevoker /\ ~Busy(r)' /\ ~Done(r)'
  <2>1. /\ \A q \in Revokers : q # r => revoker'[q] = revoker[q]
        /\ revoker'[r] = NoRevoker /\ ~Busy(r)' /\ ~Done(r)'
    BY NoRequest DEF Remember, SessionsTypeOK, Busy, Done
  <2>2. Busy(r) /\ Done(r) /\ loaded
    BY DEF Remember, Busy, Done, ClockInv
  <2> QED
    BY <2>1, <2>2 DEF Remember, sessionClock, stored
<1>3. /\ \A u \in Subjects : /\ epochs'[u] >= epochs[u]
                             /\ u # s \/ i # "none" => epochs'[u] = epochs[u]
      /\ i = "none" => epochs'[s] \in {epochs[s], revoker[r].cut}
                       /\ epochs'[s] >= revoker[r].cut
      /\ \A j \in Jtis :
            /\ revoked'[j] # NotRevoked => Issued(j) /\ revoked'[j] = cookie[j].exp
            /\ revoked[j] # NotRevoked /\ cookie[j].exp > latest => revoked'[j] = cookie[j].exp
            /\ j # i /\ revoked[j] = NotRevoked => revoked'[j] = NotRevoked
            /\ j = i /\ cookie[j].exp > latest => revoked'[j] = cookie[j].exp
  <2>1. /\ epochs \in [Subjects -> Times]
        /\ revoked \in [Jtis -> Expiries \union {NotRevoked}]
        /\ \A j \in Jtis : revoked[j] # NotRevoked => Issued(j) /\ revoked[j] = cookie[j].exp
    BY DEF SessionsTypeOK, IdsInv
  <2>2. epochs' = WithEpoch(r, epochs) /\ revoked' = WithJti(r, revoked)
    BY DEF Remember
  <2> QED
    BY <1>2, <2>1, <2>2, Writing
<1> HIDE DEF s, i
<1>4. /\ s \in Subjects /\ i \in Jtis \union {"none"} /\ revoker[r].cut \in Nat
      /\ latest \in Nat
      /\ \A u \in Subjects : epochs[u] \in Nat /\ epochRow[u] \in Nat /\ epochs'[u] \in Nat
      /\ \A j \in Jtis : /\ cookie[j].exp \in Nat /\ cookie[j].iat \in Nat
                         /\ cookie[j].user \in Subjects
                         /\ revoked'[j] \in Nat \union {NotRevoked}
      /\ Everyone \in Subjects
  <2>1. \A u \in Subjects : epochs'[u] \in Nat
    BY <1>1, Numbers DEF SessionsTypeOK
  <2>2. \A j \in Jtis : revoked'[j] \in Nat \union {NotRevoked}
    BY <1>1, Numbers DEF SessionsTypeOK
  <2> QED
    BY <2>1, <2>2, Values DEF s, i
<1>5. ClockInv' /\ IdsInv'
  BY <1>2, <1>3, Numbers DEF ClockInv, IdsInv, Busy, Issued, NoRevoker
<1>6. EpochsInv'
  <2>1. ASSUME NEW u \in Subjects
        PROVE  /\ epochs'[u] <= epochRow[u]
               /\ \/ epochs'[u] = epochRow[u]
                  \/ \E q \in Revokers : /\ Done(q)' /\ revoker'[q].jti = "none"
                                         /\ revoker'[q].subject = u
                                         /\ revoker'[q].cut = epochRow[u]
    <3>1. epochs'[u] <= epochRow[u]
      BY <1>2, <1>3, <1>4 DEF EpochsInv, StoredInv, s, i
    <3>2. CASE epochs[u] = epochRow[u]
      BY <1>3, <1>4, <3>1, <3>2
    <3>3. CASE epochs[u] # epochRow[u]
      <4>1. PICK q \in Revokers : /\ Done(q) /\ revoker[q].jti = "none"
                                  /\ revoker[q].subject = u /\ revoker[q].cut = epochRow[u]
        BY <1>2, <3>3 DEF EpochsInv
      <4>2. CASE q = r
        BY <1>3, <1>4, <3>1, <4>1, <4>2 DEF s, i
      <4>3. CASE q # r
        BY <1>2, <3>1, <4>1, <4>3 DEF Done
      <4> QED
        BY <4>2, <4>3
    <3> QED
      BY <3>2, <3>3
  <2> QED
    BY <1>2, <2>1 DEF EpochsInv
<1>7. StoredInv'
  <2>1. ASSUME NEW j \in Jtis, revoked'[j] # NotRevoked
        PROVE  revoked'[j] <= latest \/ jtiRow[j] = revoked'[j]
    <3>1. revoked'[j] = cookie[j].exp
      BY <1>3, <2>1
    <3>2. CASE j = i
      <4>1. revoker[r].cut = cookie[j].exp /\ i # "none"
        BY <1>2, <3>2, SessionsAssumption DEF IdsInv, i
      <4> QED
        BY <1>2, <3>1, <3>2, <4>1 DEF StoredInv, i
    <3>3. CASE j # i
      <4>1. revoked[j] # NotRevoked /\ revoked[j] = cookie[j].exp
        BY <1>3, <2>1, <3>3 DEF IdsInv
      <4> QED
        BY <3>1, <4>1 DEF StoredInv
    <3> QED
      BY <3>2, <3>3
  <2> QED
    BY <1>2, <2>1 DEF StoredInv, Done
<1>8. \A j \in Jtis : Struck(revoked, epochs, j) /\ latest < cookie[j].exp
                       => Struck(revoked, epochs, j)'
  <2>1. ASSUME NEW j \in Jtis, Struck(revoked, epochs, j), latest < cookie[j].exp
        PROVE  Struck(revoked, epochs, j)'
    <3>1. CASE revoked[j] # NotRevoked
      BY <1>2, <1>3, <1>4, <2>1, <3>1, Numbers DEF Struck
    <3>2. CASE revoked[j] = NotRevoked
      BY <1>2, <1>3, <1>4, <2>1, <3>2 DEF Struck
    <3> QED
      BY <3>1, <3>2
  <2> QED
    BY <2>1
<1>9. \A j \in Jtis : latest < cookie[j].exp /\ Struck(revoked, epochs, j)'
                       => Struck(jtiRow, epochRow, j)
  <2>1. ASSUME NEW j \in Jtis, latest < cookie[j].exp, Struck(revoked, epochs, j)'
        PROVE  Struck(jtiRow, epochRow, j)
    <3>1. CASE revoked'[j] # NotRevoked
      <4>1. jtiRow[j] = revoked'[j]
        BY <1>2, <1>3, <1>4, <1>7, <2>1, <3>1 DEF StoredInv
      <4> QED
        BY <3>1, <4>1 DEF Struck
    <3>2. CASE revoked'[j] = NotRevoked
      BY <1>2, <1>4, <1>6, <2>1, <3>2 DEF Struck, EpochsInv
    <3> QED
      BY <3>1, <3>2
  <2> QED
    BY <2>1
<1>10. EndedInv'
  <2>1. ASSUME NEW j \in dead' PROVE \/ j \in dead
                                     \/ Issued(j) /\ Struck(revoked, epochs, j)'
    BY <1>2, <2>1 DEF Remember, IsRevoked, Struck
  <2>2. dead' \subseteq Jtis
    BY <1>1 DEF SessionsTypeOK
  <2>3. ASSUME NEW j \in dead'
        PROVE  /\ Issued(j)
               /\ latest < cookie[j].exp =>
                    Struck(jtiRow, epochRow, j) /\ Struck(revoked, epochs, j)'
    BY <1>2, <1>8, <1>9, <2>1, <2>2 DEF EndedInv
  <2> QED
    BY <1>2, <2>3 DEF EndedInv, Issued, Struck
<1>11. SparedInv'
  <2>1. ASSUME NEW j \in spared PROVE ~Struck(revoked, epochs, j)'
    <3>1. j \in Jtis /\ ~Struck(revoked, epochs, j) /\ i # j /\ ~Aims(r, cookie[j].user)
      BY <1>2 DEF SparedInv, SessionsTypeOK, i
    <3>2. \/ i # "none"
          \/ s \notin {cookie[j].user, Everyone}
      BY <3>1 DEF Aims, s, i
    <3> QED
      BY <1>2, <1>3, <1>4, <3>1, <3>2 DEF Struck
  <2> QED
    BY <1>2, <2>1 DEF SparedInv, Struck, Issued, Busy, Aims
<1> QED
  BY <1>1, <1>5, <1>6, <1>7, <1>10, <1>11

-----------------------------------------------------------------------------
(* The portal dies, and loads the table before it serves again.             *)
LEMMA DieKeeps == ASSUME SessIInv, PortalDies PROVE SessIInv'
<1> USE DEF SessIInv
<1>1. SessionsTypeOK'
  BY PortalTypes
<1>2. /\ UNCHANGED <<now, latest, cookie, epochRow, jtiRow, dead, spared>> /\ ~loaded'
      /\ \A r \in Revokers : ~Busy(r)' /\ ~Done(r)' /\ revoker'[r].cut = 0
      /\ \A j \in Jtis : revoked'[j] = NotRevoked
      /\ \A u \in Subjects : epochs'[u] = 0
  BY DEF PortalDies, NoRevoker, Busy, Done, sessionClock, stored
<1>3. ClockInv' /\ IdsInv' /\ EpochsInv' /\ StoredInv'
  BY <1>2, Values, Numbers DEF ClockInv, IdsInv, EpochsInv, StoredInv, Issued
<1>4. EndedInv'
  BY <1>2 DEF EndedInv, Struck, Issued
<1>5. SparedInv'
  <2>1. ASSUME NEW j \in spared PROVE ~Struck(revoked, epochs, j)'
    <3>1. j \in Jtis
      BY DEF SessionsTypeOK
    <3> QED
      BY <1>2, <3>1, Values DEF Struck
  <2> QED
    BY <1>2, <2>1 DEF SparedInv, Struck, Issued
<1> QED
  BY <1>1, <1>3, <1>4, <1>5

LEMMA LoadKeeps == ASSUME SessIInv, LoadRevocations PROVE SessIInv'
<1> USE DEF SessIInv
<1>1. SessionsTypeOK'
  BY PortalTypes
<1>2. /\ UNCHANGED <<now, latest, cookie, epochRow, revoker, spared>> /\ loaded'
      /\ epochs' = epochRow /\ revoked' = jtiRow' /\ jtiRow' = Unswept(jtiRow, now)
      /\ \A r \in Revokers : ~Busy(r) /\ ~Busy(r)' /\ ~Done(r)'
  BY DEF LoadRevocations, ClockInv, Busy, Done, sessionClock
<1>3. ASSUME NEW j \in Jtis
      PROVE  /\ jtiRow'[j] \in {jtiRow[j], NotRevoked}
             /\ jtiRow[j] = NotRevoked => jtiRow'[j] = NotRevoked
             /\ jtiRow[j] # NotRevoked /\ cookie[j].exp > latest => jtiRow'[j] = jtiRow[j]
  <2>1. /\ Unswept(jtiRow, now)[j] \in {jtiRow[j], NotRevoked}
        /\ jtiRow[j] = NotRevoked => Unswept(jtiRow, now)[j] = NotRevoked
        /\ jtiRow[j] > now => Unswept(jtiRow, now)[j] = jtiRow[j]
    BY Values, Sweep
  <2> QED
    BY <1>2, <2>1, Values DEF IdsInv, ClockInv
<1>4. ClockInv' /\ IdsInv' /\ EpochsInv' /\ StoredInv'
  BY <1>2, <1>3, Values DEF ClockInv, IdsInv, EpochsInv, StoredInv, Issued
<1>5. EndedInv'
  <2>1. ASSUME NEW j \in dead', latest < cookie[j].exp PROVE Struck(jtiRow, epochRow, j)'
    <3>1. j \in Jtis
      BY <1>1 DEF SessionsTypeOK
    <3>2. Struck(jtiRow, epochRow, j) \/ Struck(jtiRow, epochRow, j)'
      BY <1>2, <2>1 DEF LoadRevocations, EndedInv, IsRevoked, Struck
    <3> QED
      BY <1>2, <1>3, <2>1, <3>1, <3>2 DEF Struck
  <2>2. \A j \in dead' : Issued(j)
    BY DEF LoadRevocations, EndedInv
  <2> QED
    BY <1>2, <2>1, <2>2 DEF EndedInv, Struck, Issued
<1>6. SparedInv'
  BY <1>2, <1>3 DEF SparedInv, Struck, Issued, SessionsTypeOK
<1> QED
  BY <1>1, <1>4, <1>5, <1>6

(* The clock moves: on or back, `latest` never falls.                       *)
LEMMA ClockKeeps == ASSUME SessIInv, TimePasses \/ ClockSetBack PROVE SessIInv'
<1> USE DEF SessIInv
<1>1. SessionsTypeOK'
  BY PortalTypes
<1>2. /\ UNCHANGED <<cookie, epochs, revoked, loaded, epochRow, jtiRow, revoker, dead, spared>>
  BY DEF TimePasses, ClockSetBack, stored
<1>3. now' <= latest' /\ latest <= latest' /\ latest \in Nat /\ latest' \in Nat
  <2>1. CASE TimePasses
    BY <2>1, Values, LaterIs DEF TimePasses
  <2>2. CASE ClockSetBack
    BY <2>2, Values DEF ClockSetBack, ClockInv
  <2> QED
    BY <2>1, <2>2
<1>4. ClockInv'
  BY <1>2, <1>3, Values DEF ClockInv, Busy
<1>5. IdsInv' /\ EpochsInv'
  BY <1>2 DEF IdsInv, EpochsInv, Busy, Done, Issued
<1>6. StoredInv'
  <2>1. \A j \in Jtis : revoked[j] # NotRevoked => revoked[j] <= latest' \/ jtiRow[j] = revoked[j]
    BY <1>3, Values DEF StoredInv
  <2>2. \A r \in Revokers : Done(r) =>
       IF revoker[r].jti = "none" THEN revoker[r].cut <= epochRow[revoker[r].subject]
       ELSE revoker[r].cut <= latest' \/ jtiRow[revoker[r].jti] = revoker[r].cut
    BY <1>3, Values DEF StoredInv
  <2> QED
    BY <1>2, <2>1, <2>2 DEF StoredInv, Done
<1>7. EndedInv'
  <2>1. \A j \in dead : latest' < cookie[j].exp => latest < cookie[j].exp
    BY <1>3, Values DEF SessionsTypeOK
  <2> QED
    BY <1>2, <2>1 DEF EndedInv, Struck, Issued
<1>8. SparedInv'
  BY <1>2 DEF SparedInv, Struck, Issued, Busy, Aims
<1> QED
  BY <1>1, <1>4, <1>5, <1>6, <1>7, <1>8

-----------------------------------------------------------------------------
LEMMA SessStep == SessIInv /\ [SessionsNext]_sessionsVars => SessIInv'
<1>1. ASSUME SessIInv, UNCHANGED sessionsVars PROVE SessIInv'
  BY <1>1 DEF sessionsVars, SessIInv, SessionsTypeOK, ClockInv, IdsInv, EpochsInv, StoredInv,
     EndedInv, SparedInv, Struck, Busy, Done, Issued, Aims
<1> QED
  BY <1>1, CreateKeeps, RequestKeeps, CommitKeeps, RememberKeeps, DieKeeps, LoadKeeps,
     ClockKeeps DEF SessionsNext

(* A session that was refused as revoked is refused until the clock has     *)
(* shown its expiry, and one that nothing aimed at is accepted until then,  *)
(* over restarts, failed commits and any clock (services/sessions.py).      *)
THEOREM SessionsEndOnce == SessionsSpec => []SessionsInv
<1>1. SessIInv => EndedStaysEnded
  BY DEF SessIInv, EndedInv, EndedStaysEnded, Accepted, IsRevoked, Struck
<1>2. SessIInv => LoginLives
  BY Values DEF SessIInv, SparedInv, LoginLives, Accepted, IsRevoked, Struck, SessionsTypeOK
<1>3. SessIInv => SessionsInv
  BY <1>1, <1>2 DEF SessIInv, SessionsInv
<1> QED
  BY <1>3, SessStart, SessStep, PTL DEF SessionsSpec

-----------------------------------------------------------------------------
(* The count of the key requests and the cache tell the same story, and no  *)
(* stamp lies ahead of the clock.                                           *)
Stamped ==
  /\ requests.count > 0 <=> Cached
  /\ Cached => requests.first + (requests.count - 1) * RefreshGap <= jwks.tried
  /\ 1 <= instant /\ jwks.tried <= instant
  /\ \A c \in Callbacks : callback[c].now <= instant
  /\ \A c \in Callbacks : callback[c].pc # "idle" => 1 <= callback[c].now

(* One refreshes at a time, and it read the clock RefreshGap after the last *)
(* attempt.                                                                 *)
OneRefreshes ==
  /\ \A c, d \in Refreshing : c = d
  /\ \A c \in Refreshing : Cached => jwks.tried + RefreshGap <= callback[c].now

SpreadInv == SignInTypeOK /\ Stamped /\ OneRefreshes

CallbackRec == [pc : {"idle", "lock", "document", "keys"},
                kid : 0..MaxSignKeys, now : Moments, force : BOOLEAN, since : Moments]
AcceptedRec == [key : 0..MaxSignKeys, at : Moments, tried : BOOLEAN, past : BOOLEAN]
JwksRec == [keys : SUBSET SignKeys, at : Moments, tried : Moments]

(* A callback's turn is over, or goes back to the lock at this instant, and *)
(* the others are as they were.                                             *)
Turn(c) ==
  /\ callback' \in [Callbacks -> CallbackRec] /\ accepted' \in AcceptedRec
  /\ \A d \in Callbacks \ {c} : callback'[d] = callback[d]
  /\ \/ callback'[c].pc = "idle" /\ callback'[c].now = 0
     \/ callback'[c].pc = "lock" /\ callback'[c].now = instant

LEMMA SignInConstants == /\ KeyTtl \in Nat /\ MaxStale \in Nat /\ MaxSignKeys \in Nat \ {0}
                   /\ MaxMoment \in Nat \ {0} /\ RefreshGap \in Nat /\ RefreshGap > 1
BY SignInAssumption

LEMMA StepRefuse ==
  ASSUME SignInTypeOK, NEW c \in Callbacks, Refuse(c) PROVE Turn(c)
BY SignInConstants DEF SignInTypeOK, Refuse, Turn, NoSignIn, CallbackRec, AcceptedRec, Moments

LEMMA StepAsk ==
  ASSUME SignInTypeOK, NEW c \in Callbacks, NEW kid \in 0..MaxSignKeys, NEW force \in BOOLEAN,
         Ask(c, kid, force)
  PROVE  Turn(c)
BY SignInConstants DEF SignInTypeOK, Ask, Turn, CallbackRec, AcceptedRec, Moments

LEMMA StepResolve ==
  ASSUME SignInTypeOK, NEW c \in Callbacks, NEW kid \in 0..MaxSignKeys, NEW cache \in JwksRec,
         NEW forced \in BOOLEAN, NEW past \in BOOLEAN, ResolveKey(c, kid, cache, forced, past)
  PROVE  Turn(c)
<1>1. CASE kid \in cache.keys
  <2>1. callback' = [callback EXCEPT ![c] = NoSignIn] BY <1>1 DEF ResolveKey
  <2>2. NoSignIn \in CallbackRec BY SignInConstants DEF NoSignIn, CallbackRec, Moments
  <2>3. callback \in [Callbacks -> CallbackRec] BY DEF SignInTypeOK, CallbackRec
  <2>4. /\ callback' \in [Callbacks -> CallbackRec] /\ callback'[c] = NoSignIn
        /\ \A d \in Callbacks \ {c} : callback'[d] = callback[d]
    BY <2>1, <2>2, <2>3
  <2>5. accepted' = [key |-> kid, at |-> instant, tried |-> cache.tried # cache.at, past |-> past]
    BY <1>1 DEF ResolveKey
  <2>6. instant \in Moments /\ (cache.tried # cache.at) \in BOOLEAN BY DEF SignInTypeOK
  <2>7. accepted' \in AcceptedRec BY <2>5, <2>6 DEF AcceptedRec
  <2> QED BY <2>4, <2>7 DEF Turn, NoSignIn
<1>2. CASE kid \notin cache.keys /\ forced
  BY <1>2, StepRefuse DEF ResolveKey
<1>3. CASE kid \notin cache.keys /\ ~forced
  <2>1. Ask(c, kid, TRUE) BY <1>3 DEF ResolveKey
  <2> QED BY <2>1, StepAsk
<1> QED BY <1>1, <1>2, <1>3

LEMMA TurnTypes ==
  ASSUME SignInTypeOK, NEW c \in Callbacks, Turn(c), document' \in Moments,
         UNCHANGED <<instant, newest, withdrawn, jwks, requests>>
  PROVE  SignInTypeOK'
BY DEF SignInTypeOK, Turn, CallbackRec, AcceptedRec

(* A turn that leaves the cache and the count alone.                        *)
LEMMA TurnKeeps ==
  ASSUME SpreadInv, NEW c \in Callbacks, Turn(c), instant' = instant, jwks' = jwks,
         requests' = requests
  PROVE  Stamped' /\ OneRefreshes'
<1>3. Refreshing' \subseteq Refreshing /\ \A d \in Refreshing' : callback'[d] = callback[d]
  BY DEF Turn, Refreshing
<1>4. instant \in Nat /\ 1 <= instant BY DEF SpreadInv, SignInTypeOK, Stamped, Moments
<1>5. \A d \in Callbacks : callback'[d].now <= instant
                          /\ (callback'[d].pc # "idle" => 1 <= callback'[d].now)
  BY <1>4 DEF Turn, SpreadInv, Stamped
<1>6. Stamped'
  <2> DEFINE Told == /\ requests.count > 0 <=> jwks.at # 0
                     /\ jwks.at # 0 => requests.first + (requests.count - 1) * RefreshGap <= jwks.tried
  <2>1. Told BY DEF SpreadInv, Stamped, Cached
  <2>2. Told' BY <2>1
  <2>3. (1 <= instant /\ jwks.tried <= instant)' BY DEF SpreadInv, Stamped
  <2>4. \A d \in Callbacks : callback'[d].now <= instant' BY <1>5
  <2>5. \A d \in Callbacks : callback'[d].pc # "idle" => 1 <= callback'[d].now BY <1>5
  <2> QED BY <2>2, <2>3, <2>4, <2>5 DEF Stamped, Cached
<1>7. OneRefreshes' BY <1>3 DEF SpreadInv, OneRefreshes, Cached
<1> QED BY <1>6, <1>7

LEMMA StepExchange ==
  ASSUME SpreadInv, NEW c \in Callbacks, Exchange(c)
  PROVE  SpreadInv'
<1>1. SignInTypeOK /\ instant \in Moments /\ document \in Moments BY DEF SpreadInv, SignInTypeOK
<1>2. jwks \in JwksRec /\ 1..newest \subseteq 0..MaxSignKeys
  BY <1>1, SignInConstants DEF SignInTypeOK, JwksRec, SignKeys
<1>3. Turn(c)
  <2>1. CASE Refuse(c) BY <2>1, <1>1, StepRefuse
  <2>2. CASE \E kid \in 1..newest : IF Fresh(instant) THEN ResolveKey(c, kid, jwks, FALSE, FALSE)
                                   ELSE Ask(c, kid, FALSE)
    <3>1. PICK kid \in 1..newest : ResolveKey(c, kid, jwks, FALSE, FALSE) \/ Ask(c, kid, FALSE)
      BY <2>2
    <3>2. kid \in 0..MaxSignKeys BY <1>2
    <3>3. CASE ResolveKey(c, kid, jwks, FALSE, FALSE) BY <3>3, <3>2, <1>1, <1>2, StepResolve
    <3>4. CASE Ask(c, kid, FALSE) BY <3>4, <3>2, <1>1, StepAsk
    <3> QED BY <3>1, <3>3, <3>4
  <2> QED BY <2>1, <2>2 DEF Exchange
<1>4. document' \in Moments /\ UNCHANGED <<instant, newest, withdrawn, jwks, requests>>
  BY <1>1 DEF Exchange, provider
<1>5. SignInTypeOK' BY <1>1, <1>3, <1>4, TurnTypes
<1>6. Stamped' /\ OneRefreshes' BY <1>3, <1>4, TurnKeeps
<1> QED BY <1>5, <1>6 DEF SpreadInv

(* A callback that holds the lock, or takes it when an attempt is due.      *)
LEMMA HolderKeeps ==
  ASSUME SpreadInv, NEW c \in Callbacks, callback[c].pc # "idle", Refreshing \subseteq {c},
         Cached => jwks.tried + RefreshGap <= callback[c].now,
         callback'[c].now = callback[c].now,
         \A d \in Callbacks \ {c} : callback'[d] = callback[d],
         UNCHANGED <<instant, jwks, requests>>
  PROVE  Stamped' /\ OneRefreshes'
<1>1. Refreshing' \subseteq {c} BY DEF Refreshing
<1>2. \A d \in Callbacks : callback'[d].now <= instant /\ 1 <= instant
  BY DEF SpreadInv, Stamped
<1>3. \A d \in Callbacks : callback'[d].pc # "idle" => 1 <= callback'[d].now
  BY DEF SpreadInv, Stamped
<1>4. Stamped'
  <2> DEFINE Told == /\ requests.count > 0 <=> jwks.at # 0
                     /\ jwks.at # 0 => requests.first + (requests.count - 1) * RefreshGap <= jwks.tried
  <2>1. Told BY DEF SpreadInv, Stamped, Cached
  <2>2. Told' BY <2>1
  <2>3. (1 <= instant /\ jwks.tried <= instant)' BY DEF SpreadInv, Stamped
  <2> QED BY <2>2, <2>3, <1>2, <1>3 DEF Stamped, Cached
<1>5. OneRefreshes' BY <1>1 DEF OneRefreshes, Cached
<1> QED BY <1>4, <1>5

LEMMA StepFetchDocument ==
  ASSUME SpreadInv, NEW c \in Callbacks, FetchDocument(c)
  PROVE  SpreadInv'
<1>1. SignInTypeOK /\ instant \in Moments /\ document \in Moments BY DEF SpreadInv, SignInTypeOK
<1>2. UNCHANGED <<instant, newest, withdrawn, jwks, requests>>
  BY DEF FetchDocument, provider
<1>3. CASE Refuse(c) /\ UNCHANGED document
  <2>1. Turn(c) BY <1>3, <1>1, StepRefuse
  <2>2. SignInTypeOK' BY <2>1, <1>1, <1>2, <1>3, TurnTypes
  <2>3. Stamped' /\ OneRefreshes' BY <2>1, <1>2, TurnKeeps
  <2> QED BY <2>2, <2>3 DEF SpreadInv
<1>4. CASE /\ document' = instant
           /\ callback' = [callback EXCEPT ![c].pc = "keys"] /\ UNCHANGED accepted
  <2>1. callback \in [Callbacks -> CallbackRec] BY <1>1 DEF SignInTypeOK, CallbackRec
  <2>2. callback[c] \in CallbackRec /\ [callback[c] EXCEPT !.pc = "keys"] \in CallbackRec
    BY <2>1 DEF CallbackRec
  <2>3. /\ callback' \in [Callbacks -> CallbackRec]
        /\ callback'[c] = [callback[c] EXCEPT !.pc = "keys"]
        /\ \A d \in Callbacks \ {c} : callback'[d] = callback[d]
    BY <1>4, <2>1, <2>2
  <2>4. callback'[c].now = callback[c].now BY <2>2, <2>3 DEF CallbackRec
  <2>5. c \in Refreshing /\ callback[c].pc # "idle" BY DEF FetchDocument, CallbackAt, Refreshing
  <2>6. /\ Refreshing \subseteq {c}
        /\ Cached => jwks.tried + RefreshGap <= callback[c].now
    BY <2>5 DEF SpreadInv, OneRefreshes
  <2>7. Stamped' /\ OneRefreshes' BY <2>3, <2>4, <2>5, <2>6, <1>2, HolderKeeps
  <2>8. SignInTypeOK' BY <2>3, <1>1, <1>2, <1>4 DEF SignInTypeOK, CallbackRec
  <2> QED BY <2>7, <2>8 DEF SpreadInv
<1> QED BY <1>3, <1>4 DEF FetchDocument

LEMMA StepEnterLock ==
  ASSUME SpreadInv, NEW c \in Callbacks, EnterLock(c)
  PROVE  SpreadInv'
<1> DEFINE me == callback[c]
<1>1. SignInTypeOK /\ instant \in Moments /\ document \in Moments BY DEF SpreadInv, SignInTypeOK
<1>2. UNCHANGED <<instant, newest, withdrawn, jwks, requests>> /\ document' = document
  BY DEF EnterLock, provider
<1>3. callback \in [Callbacks -> CallbackRec] BY <1>1 DEF SignInTypeOK, CallbackRec
<1>4. me \in CallbackRec BY <1>3
<1>5. me.kid \in 0..MaxSignKeys /\ me.force \in BOOLEAN BY <1>4 DEF CallbackRec
<1>6. CASE (Fresh(me.now) /\ ~me.force) \/ TooSoon(me.now)
  <2>1. jwks \in JwksRec BY <1>1 DEF SignInTypeOK, JwksRec
  <2>2. ResolveKey(c, me.kid, jwks, me.force, me.now > jwks.at + MaxStale)
    BY <1>6 DEF EnterLock
  <2>3. (me.now > jwks.at + MaxStale) \in BOOLEAN OBVIOUS
  <2>4. Turn(c) BY <2>1, <2>2, <2>3, <1>1, <1>5, StepResolve
  <2>5. SignInTypeOK' BY <2>4, <1>1, <1>2, TurnTypes
  <2>6. Stamped' /\ OneRefreshes' BY <2>4, <1>2, TurnKeeps
  <2> QED BY <2>5, <2>6 DEF SpreadInv
<1>7. CASE ~((Fresh(me.now) /\ ~me.force) \/ TooSoon(me.now))
  <2> DEFINE new == [me EXCEPT !.since = instant, !.pc = IF DocumentFresh THEN "keys" ELSE "document"]
  <2>1. callback' = [callback EXCEPT ![c].since = instant,
                       ![c].pc = IF DocumentFresh THEN "keys" ELSE "document"] /\ UNCHANGED accepted
    BY <1>7 DEF EnterLock
  <2>2. new \in CallbackRec /\ new.now = me.now BY <1>1, <1>4 DEF CallbackRec
  <2>3. /\ callback' \in [Callbacks -> CallbackRec] /\ callback'[c] = new
        /\ \A d \in Callbacks \ {c} : callback'[d] = callback[d]
    BY <2>1, <2>2, <1>3
  <2>4. callback[c].pc # "idle" /\ Refreshing \subseteq {c} BY DEF EnterLock, CallbackAt
  <2>5. Cached => jwks.tried + RefreshGap <= callback[c].now
    <3>1. jwks.tried \in Nat /\ me.now \in Nat BY <1>1, <1>4 DEF SignInTypeOK, CallbackRec, Moments
    <3> QED BY <1>7, <3>1, SignInConstants DEF TooSoon
  <2>6. callback'[c].now = callback[c].now BY <2>2, <2>3
  <2>7. Stamped' /\ OneRefreshes' BY <2>3, <2>4, <2>5, <2>6, <1>2, HolderKeeps
  <2>8. SignInTypeOK' BY <2>1, <2>3, <1>1, <1>2 DEF SignInTypeOK, CallbackRec
  <2> QED BY <2>7, <2>8 DEF SpreadInv
<1> QED BY <1>6, <1>7

(* An attempt at the keys: whoever makes it holds the lock alone.           *)
LEMMA AttemptKeeps ==
  ASSUME SpreadInv, NEW c \in Callbacks, CallbackAt(c, "keys"), Turn(c), instant' = instant,
         Counted(callback[c].now), jwks'.tried = callback[c].now, jwks'.at # 0
  PROVE  Stamped' /\ OneRefreshes'
<1> DEFINE at == callback[c].now
           n == requests.count
           f == requests.first
<1>1. /\ instant \in Nat /\ jwks.tried \in Nat /\ n \in Nat /\ f \in Nat
      /\ requests \in [count : Nat, first : Moments]
      /\ callback \in [Callbacks -> CallbackRec]
  BY DEF SpreadInv, SignInTypeOK, Moments, CallbackRec
<1>2. at \in Nat /\ 1 <= at /\ at <= instant
  BY <1>1 DEF SpreadInv, Stamped, CallbackAt, CallbackRec, Moments
<1>3. c \in Refreshing BY DEF CallbackAt, Refreshing
<1>4. Refreshing = {c} /\ (Cached => jwks.tried + RefreshGap <= at)
  BY <1>3 DEF SpreadInv, OneRefreshes
<1>5. Refreshing' = {} BY <1>4 DEF Turn, Refreshing
<1>6. \A d \in Callbacks : callback'[d].now <= instant
                          /\ (callback'[d].pc # "idle" => 1 <= callback'[d].now)
  BY <1>1, <1>2 DEF Turn, SpreadInv, Stamped
<1>7. /\ requests'.count > 0
      /\ requests'.first + (requests'.count - 1) * RefreshGap <= at
  <2>1. CASE Cached
    <3>1. n > 0 /\ f + (n - 1) * RefreshGap <= jwks.tried BY <2>1 DEF SpreadInv, Stamped
    <3>2. requests'.count = n + 1 /\ requests'.first = f BY <2>1, <1>1 DEF Counted
    <3>3. f + n * RefreshGap <= at
      <4>1. f + (n - 1) * RefreshGap + RefreshGap <= at BY <3>1, <1>1, <1>2, <1>4, <2>1, SignInConstants
      <4>2. (n - 1) * RefreshGap + RefreshGap = n * RefreshGap BY <1>1, SignInConstants
      <4> QED BY <4>1, <4>2, <1>1, <1>2, SignInConstants
    <3>4. (n + 1) - 1 = n BY <1>1
    <3> QED BY <3>1, <3>2, <3>3, <3>4, <1>1
  <2>2. CASE ~Cached
    <3>1. requests' = [count |-> 1, first |-> at] BY <2>2 DEF Counted
    <3> QED BY <3>1, <1>2, SignInConstants
  <2> QED BY <2>1, <2>2
<1>8. Stamped'
  <2>1. jwks'.tried <= instant' /\ 1 <= instant' BY <1>2, <1>1
  <2> QED BY <2>1, <1>6, <1>7 DEF Stamped, Cached
<1>9. OneRefreshes' BY <1>5 DEF OneRefreshes
<1> QED BY <1>8, <1>9

LEMMA StepKeys ==
  ASSUME SpreadInv, NEW c \in Callbacks, KeysFetched(c) \/ KeysFail(c)
  PROVE  SpreadInv'
<1> DEFINE me == callback[c]
<1>1. SignInTypeOK /\ document \in Moments BY DEF SpreadInv, SignInTypeOK
<1>2. UNCHANGED <<instant, newest, withdrawn>> /\ document' = document
  BY DEF KeysFetched, KeysFail, provider
<1>3. callback \in [Callbacks -> CallbackRec] /\ jwks \in JwksRec
  BY <1>1 DEF SignInTypeOK, CallbackRec, JwksRec
<1>4. me \in CallbackRec BY <1>3
<1>5. me.kid \in 0..MaxSignKeys /\ me.force \in BOOLEAN /\ me.now \in Moments
  BY <1>4 DEF CallbackRec
<1>6. CallbackAt(c, "keys") BY DEF KeysFetched, KeysFail
<1>7. 1 <= me.now BY <1>6 DEF SpreadInv, Stamped, CallbackAt
<1>8. ASSUME Turn(c), Counted(me.now), jwks' \in JwksRec, jwks'.tried = me.now, jwks'.at # 0
      PROVE  SpreadInv'
  <2>1. requests' \in [count : Nat, first : Moments]
    BY <1>1, <1>5, <1>8 DEF Counted, SignInTypeOK
  <2>2. SignInTypeOK' BY <2>1, <1>1, <1>2, <1>8 DEF SignInTypeOK, Turn, CallbackRec, AcceptedRec, JwksRec
  <2>3. Stamped' /\ OneRefreshes' BY <1>2, <1>6, <1>8, AttemptKeeps
  <2> QED BY <2>2, <2>3 DEF SpreadInv
<1>9. CASE KeysFetched(c)
  <2> DEFINE new == [keys |-> Published, at |-> me.now, tried |-> me.now]
  <2>1. jwks' = new /\ Counted(me.now) /\ ResolveKey(c, me.kid, new, me.force, FALSE)
    BY <1>9 DEF KeysFetched
  <2>2. Published \subseteq SignKeys
    BY <1>1, SignInConstants DEF Published, SignInTypeOK, SignKeys
  <2>3. new \in JwksRec BY <2>2, <1>5 DEF JwksRec
  <2>4. new.tried = me.now /\ new.at # 0 BY <1>5, <1>7 DEF Moments
  <2> HIDE DEF new
  <2>5. Turn(c) BY <2>1, <2>3, <1>1, <1>5, StepResolve
  <2> QED BY <2>1, <2>3, <2>4, <2>5, <1>8
<1>10. CASE KeysFail(c) /\ ~Cached
  <2>1. Refuse(c) /\ UNCHANGED <<jwks, requests>> BY <1>10 DEF KeysFail
  <2>2. Turn(c) BY <2>1, <1>1, StepRefuse
  <2>3. SignInTypeOK' BY <2>1, <2>2, <1>1, <1>2, TurnTypes
  <2>4. Stamped' /\ OneRefreshes' BY <2>1, <2>2, <1>2, TurnKeeps
  <2> QED BY <2>3, <2>4 DEF SpreadInv
<1>11. CASE KeysFail(c) /\ Cached
  <2>1. /\ jwks' = [jwks EXCEPT !.tried = me.now] /\ Counted(me.now)
        /\ IF me.now > jwks.at + MaxStale THEN Refuse(c)
           ELSE ResolveKey(c, me.kid, jwks', me.force, FALSE)
    BY <1>11 DEF KeysFail
  <2>2. jwks' \in JwksRec /\ jwks'.tried = me.now /\ jwks'.at = jwks.at
    BY <2>1, <1>3, <1>5 DEF JwksRec
  <2>3. jwks'.at # 0 BY <2>2, <1>11 DEF Cached
  <2>4. Turn(c)
    <3>1. CASE Refuse(c) BY <3>1, <1>1, StepRefuse
    <3>2. CASE ResolveKey(c, me.kid, jwks', me.force, FALSE)
      <4> DEFINE cache == jwks'
      <4>1. cache \in JwksRec /\ ResolveKey(c, me.kid, cache, me.force, FALSE) BY <2>2, <3>2
      <4> QED BY <4>1, <1>1, <1>5, StepResolve
    <3> QED BY <2>1, <3>1, <3>2
  <2> QED BY <2>1, <2>2, <2>3, <2>4, <1>8
<1> QED BY <1>9, <1>10, <1>11

LEMMA SpreadStarts == SignInInit => SpreadInv
<1> SUFFICES ASSUME SignInInit PROVE SpreadInv OBVIOUS
<1>1. SignInTypeOK
  BY SignInConstants DEF SignInInit, SignInTypeOK, Moments, SignKeys, NoKeys, NoSignIn, NotYet
<1>2. Stamped BY DEF SignInInit, Stamped, Cached, NoKeys, NoSignIn
<1>3. OneRefreshes BY DEF SignInInit, OneRefreshes, Refreshing, NoSignIn
<1> QED BY <1>1, <1>2, <1>3 DEF SpreadInv

LEMMA SpreadStep == SpreadInv /\ [SignInNext]_signInVars => SpreadInv'
<1> SUFFICES ASSUME SpreadInv, [SignInNext]_signInVars PROVE SpreadInv' OBVIOUS
<1>1. CASE ClockTicks BY <1>1, SignInConstants DEF ClockTicks, SpreadInv, SignInTypeOK, Stamped, OneRefreshes, Refreshing, Cached, provider, Moments
<1>2. CASE AddKey BY <1>2, SignInConstants DEF AddKey, SpreadInv, SignInTypeOK, Stamped, OneRefreshes, Refreshing, Cached, SignKeys
<1>3. CASE \E k \in SignKeys : WithdrawKey(k) BY <1>3 DEF WithdrawKey, SpreadInv, SignInTypeOK, Stamped, OneRefreshes, Refreshing, Cached
<1>4. CASE \E c \in Callbacks : Exchange(c) BY <1>4, StepExchange
<1>5. CASE \E c \in Callbacks : EnterLock(c) BY <1>5, StepEnterLock
<1>6. CASE \E c \in Callbacks : FetchDocument(c) BY <1>6, StepFetchDocument
<1>7. CASE \E c \in Callbacks : KeysFetched(c) \/ KeysFail(c) BY <1>7, StepKeys
<1>8. CASE UNCHANGED signInVars
  BY <1>8 DEF signInVars, SpreadInv, SignInTypeOK, Stamped, OneRefreshes, Refreshing, Cached
<1> QED BY <1>1, <1>2, <1>3, <1>4, <1>5, <1>6, <1>7, <1>8 DEF SignInNext

(* However many sign-ins come, and whether the provider answers or not, the *)
(* keys are asked for once in RefreshGap, for any number of callbacks, keys *)
(* and any spans (services/oidc.py:218-221, 238).                           *)
THEOREM KeysAskedSeldom == SignInSpec => []RequestsSpread
<1>1. SpreadInv => RequestsSpread
  <2> SUFFICES ASSUME SpreadInv, requests.count > 0
               PROVE  (requests.count - 1) * RefreshGap <= instant - requests.first
    BY DEF RequestsSpread
  <2> DEFINE m == (requests.count - 1) * RefreshGap
  <2>1. /\ instant \in Nat /\ jwks.tried \in Nat /\ requests.first \in Nat /\ requests.count \in Nat
    BY DEF SpreadInv, SignInTypeOK, Moments
  <2>2. m \in Int BY <2>1, SignInConstants
  <2>3. requests.first + m <= jwks.tried /\ jwks.tried <= instant BY DEF SpreadInv, Stamped
  <2> HIDE DEF m
  <2>4. m <= instant - requests.first BY <2>1, <2>2, <2>3
  <2> QED BY <2>4 DEF m
<1> QED BY <1>1, SpreadStarts, SpreadStep, PTL DEF SignInSpec
-----------------------------------------------------------------------------
(* The callbacks that have had the lock for a tick since c read the clock,  *)
(* or read it later: none of them will keep c waiting.                      *)
Passed(c) ==
  {d \in Callbacks \ {c} :
     /\ ~(callback[d].pc = "lock" /\ callback[d].now <= callback[c].now)
     /\ ~(callback[d].pc \in {"document", "keys"} /\ callback[d].since = instant)}

(* A callback waits a tick for each of the others at most, and a tick for   *)
(* its own requests.                                                        *)
Prompt ==
  /\ \A c \in Callbacks : callback[c].pc = "lock" =>
       instant <= callback[c].now + Cardinality(Passed(c))
  /\ \A c \in Callbacks : callback[c].pc \in {"document", "keys"} =>
       /\ instant <= callback[c].since + 1
       /\ callback[c].since <= callback[c].now + (Delay - 1)

(* A key in the cache was the provider's when the cache was filled.         *)
CacheHonest ==
  /\ jwks.at <= jwks.tried
  /\ \A k \in jwks.keys : withdrawn[k] = 0 \/ jwks.at <= withdrawn[k]

TrustInv ==
  /\ SpreadInv
  /\ Prompt
  /\ CacheHonest
  /\ accepted.at <= instant
  /\ TrustEnds

LEMMA Others ==
  ASSUME NEW c \in Callbacks
  PROVE  /\ IsFiniteSet(Passed(c)) /\ Cardinality(Passed(c)) \in Nat
         /\ Delay \in Nat /\ Cardinality(Passed(c)) <= Delay - 1
<1>1. IsFiniteSet(Callbacks)
  BY SignInAssumption
<1>2. IsFiniteSet(Callbacks \ {c}) /\ Cardinality(Callbacks \ {c}) = Cardinality(Callbacks) - 1
  BY <1>1, FS_RemoveElement
<1>3. Passed(c) \subseteq Callbacks \ {c}
  BY DEF Passed
<1>4. IsFiniteSet(Passed(c)) /\ Cardinality(Passed(c)) <= Cardinality(Callbacks \ {c})
  BY <1>2, <1>3, FS_Subset
<1>5. Cardinality(Callbacks) \in Nat /\ Cardinality(Passed(c)) \in Nat
  BY <1>1, <1>4, FS_CardinalityType
<1> QED
  BY <1>2, <1>4, <1>5 DEF Delay

(* A step of one callback, in which the clock stands still.                 *)
LEMMA PromptKept ==
  ASSUME TrustInv, NEW c \in Callbacks, instant' = instant,
         callback' \in [Callbacks -> CallbackRec],
         \A d \in Callbacks \ {c} : callback'[d] = callback[d],
         \/ callback'[c].pc = "idle"
         \/ callback'[c].pc = "lock" /\ callback'[c].now = instant
         \/ /\ callback'[c].pc \in {"document", "keys"}
            /\ callback'[c].since = instant
            /\ callback'[c].now = callback[c].now
            /\ callback[c].pc = "lock"
            /\ \A d \in Callbacks : callback[d].pc = "lock" => callback[c].now <= callback[d].now
         \/ /\ callback'[c].pc \in {"document", "keys"}
            /\ callback'[c].since = callback[c].since
            /\ callback'[c].now = callback[c].now
            /\ callback[c].pc \in {"document", "keys"}
  PROVE  Prompt'
<1>1. /\ instant \in Nat /\ callback \in [Callbacks -> CallbackRec]
      /\ \A d \in Callbacks : callback[d].now \in Nat /\ callback[d].now <= instant
                              /\ callback[d].since \in Nat
  BY DEF TrustInv, SpreadInv, SignInTypeOK, CallbackRec, Moments, Stamped
<1>2. \A d \in Callbacks : callback'[d].now \in Nat /\ callback'[d].since \in Nat
  BY DEF CallbackRec, Moments
<1>3. ASSUME NEW d \in Callbacks, callback'[d].pc = "lock"
      PROVE  instant <= callback'[d].now + Cardinality(Passed(d)')
  <2>1. Cardinality(Passed(d)') \in Nat /\ IsFiniteSet(Passed(d)')
    <3>1. Passed(d)' \subseteq Callbacks
      BY DEF Passed
    <3> QED
      BY <3>1, SignInAssumption, FS_Subset, FS_CardinalityType
  <2>2. CASE callback'[d].now = instant
    BY <2>1, <2>2, <1>1
  <2>3. CASE callback'[d].now # instant
    <3>1. d # c
      BY <2>3, <1>3
    <3>2. callback'[d] = callback[d]
      BY <3>1
    <3>3. instant <= callback[d].now + Cardinality(Passed(d))
      BY <3>2, <1>3 DEF TrustInv, Prompt
    <3>4. ASSUME NEW e \in Passed(d) PROVE e \in Passed(d)'
      <4>1. e \in Callbacks \ {d}
        BY <3>4 DEF Passed
      <4>2. CASE e # c
        BY <4>1, <4>2, <3>2, <3>4 DEF Passed
      <4>3. CASE e = c
        <5>1. callback[d].now < instant
          BY <3>2, <2>3, <1>1
        <5>2. ~(callback[c].pc = "lock" /\ callback[c].now <= callback[d].now)
          BY <4>3, <3>4 DEF Passed
        <5>3. ~(callback[c].pc \in {"document", "keys"} /\ callback[c].since = instant)
          BY <4>3, <3>4 DEF Passed
        <5>4. callback[d].pc = "lock"
          BY <3>2, <1>3
        <5>5. ~(callback'[c].pc = "lock" /\ callback'[c].now <= callback'[d].now)
          BY <5>1, <3>2, <1>1
        <5>6. ~(callback'[c].pc \in {"document", "keys"} /\ callback'[c].since = instant')
          BY <5>2, <5>3, <5>4
        <5> QED
          BY <4>1, <4>3, <5>5, <5>6 DEF Passed
      <4> QED BY <4>2, <4>3
    <3>5. Passed(d) \subseteq Passed(d)'
      BY <3>4
    <3>6. Cardinality(Passed(d)) <= Cardinality(Passed(d)')
      BY <3>5, <2>1, FS_Subset
    <3>7. Cardinality(Passed(d)) \in Nat
      BY Others
    <3> QED
      BY <3>2, <3>3, <3>6, <3>7, <2>1, <1>1
  <2> QED BY <2>2, <2>3
<1>4. ASSUME NEW d \in Callbacks, callback'[d].pc \in {"document", "keys"}
      PROVE  /\ instant <= callback'[d].since + 1
             /\ callback'[d].since <= callback'[d].now + (Delay - 1)
  <2>1. CASE d # c \/ callback[c].pc \in {"document", "keys"}
    <3>1. callback'[d].since = callback[d].since /\ callback'[d].now = callback[d].now
          /\ callback[d].pc \in {"document", "keys"}
      BY <2>1, <1>4
    <3> QED
      BY <3>1 DEF TrustInv, Prompt
  <2>2. CASE d = c /\ callback[c].pc \notin {"document", "keys"}
    <3>1. callback'[c].since = instant /\ callback'[c].now = callback[c].now /\ callback[c].pc = "lock"
      BY <2>2, <1>4
    <3>2. instant <= callback[c].now + Cardinality(Passed(c))
      BY <3>1 DEF TrustInv, Prompt
    <3>3. Cardinality(Passed(c)) \in Nat /\ Delay \in Nat /\ Cardinality(Passed(c)) <= Delay - 1
      BY Others
    <3> QED
      BY <3>1, <3>2, <3>3, <2>2, <1>1
  <2> QED BY <2>1, <2>2
<1>5. ASSUME NEW d \in Callbacks, callback'[d].pc = "lock"
      PROVE  instant' <= callback'[d].now + Cardinality(Passed(d))'
  BY <1>3, <1>5
<1>6. Delay' = Delay
  BY DEF Delay
<1> QED
  BY <1>4, <1>5, <1>6 DEF Prompt

LEMMA TickKeeps ==
  ASSUME TrustInv, ClockTicks
  PROVE  Prompt'
<1>1. /\ instant' = instant + 1 /\ callback' = callback
      /\ \A c \in Refreshing : callback[c].since = instant
      /\ Refreshing # {} \/ \A c \in Callbacks : ~CallbackAt(c, "lock")
  BY DEF ClockTicks
<1>2. /\ instant \in Nat
      /\ \A d \in Callbacks : callback[d].now \in Nat /\ callback[d].since \in Nat
  BY DEF TrustInv, SpreadInv, SignInTypeOK, CallbackRec, Moments
<1>3. ASSUME NEW c \in Callbacks, callback[c].pc = "lock"
      PROVE  instant' <= callback[c].now + Cardinality(Passed(c)')
  <2>1. Refreshing # {}
    BY <1>1, <1>3 DEF CallbackAt
  <2>2. PICK h \in Callbacks : h \in Refreshing
    BY <2>1 DEF Refreshing
  <2>3. callback[h].pc \in {"document", "keys"} /\ callback[h].since = instant
    BY <2>2, <1>1 DEF Refreshing
  <2>4. h # c /\ h \notin Passed(c)
    BY <2>3, <1>3 DEF Passed
  <2>5. h \in Passed(c)'
    BY <2>3, <2>4, <1>1, <1>2 DEF Passed
  <2>6. ASSUME NEW d \in Passed(c) PROVE d \in Passed(c)'
    <3>1. d \in Callbacks \ {c} /\ d \notin Refreshing
      BY <2>6, <1>1 DEF Passed, Refreshing
    <3> QED
      BY <3>1, <2>6, <1>1 DEF Passed, Refreshing
  <2>7. Passed(c) \union {h} \subseteq Passed(c)'
    BY <2>5, <2>6
  <2>8. Passed(c)' \subseteq Callbacks
    BY DEF Passed
  <2>9. IsFiniteSet(Passed(c)') /\ IsFiniteSet(Passed(c))
    BY <2>8, SignInAssumption, FS_Subset, Others
  <2>10. Cardinality(Passed(c) \union {h}) = Cardinality(Passed(c)) + 1
    BY <2>4, <2>9, FS_AddElement
  <2>11. Cardinality(Passed(c) \union {h}) <= Cardinality(Passed(c)')
    BY <2>7, <2>9, FS_Subset
  <2>12. Cardinality(Passed(c)) \in Nat /\ Cardinality(Passed(c)') \in Nat
    BY <2>9, FS_CardinalityType
  <2>13. instant <= callback[c].now + Cardinality(Passed(c))
    BY <1>3 DEF TrustInv, Prompt
  <2> QED
    BY <2>10, <2>11, <2>12, <2>13, <1>1, <1>2
<1>4. ASSUME NEW c \in Callbacks, callback[c].pc \in {"document", "keys"}
      PROVE  /\ instant' <= callback[c].since + 1
             /\ callback[c].since <= callback[c].now + (Delay - 1)
  <2>1. callback[c].since = instant
    BY <1>1, <1>4 DEF Refreshing
  <2>2. callback[c].since <= callback[c].now + (Delay - 1)
    BY <1>4 DEF TrustInv, Prompt
  <2> QED
    BY <2>1, <2>2, <1>1, <1>2
<1>5. Delay' = Delay
  BY DEF Delay
<1>6. ASSUME NEW c \in Callbacks, callback'[c].pc = "lock"
      PROVE  instant' <= callback'[c].now + Cardinality(Passed(c))'
  BY <1>1, <1>3, <1>6
<1> QED
  BY <1>1, <1>4, <1>5, <1>6 DEF Prompt

(* A sign-in is accepted, by keys that are not too old, or none is.         *)
LEMMA TrustKept ==
  ASSUME TrustInv, NEW c \in Callbacks, NEW kid \in 0..MaxSignKeys, NEW cache \in JwksRec,
         NEW forced \in BOOLEAN, NEW past \in BOOLEAN, ResolveKey(c, kid, cache, forced, past),
         instant' = instant, withdrawn' = withdrawn,
         \A k \in cache.keys :
           \/ withdrawn[k] = 0 \/ past
           \/ instant <= withdrawn[k] + Delay + KeyTtl
           \/ instant <= withdrawn[k] + Delay + RefreshGap
           \/ cache.tried # cache.at /\ instant <= withdrawn[k] + Delay + MaxStale
  PROVE  TrustEnds' /\ accepted'.at <= instant'
<1>1. Delay' = Delay
  BY DEF Delay
<1>2. CASE kid \in cache.keys
  <2>1. accepted' = [key |-> kid, at |-> instant, tried |-> cache.tried # cache.at, past |-> past]
    BY <1>2 DEF ResolveKey
  <2>2. /\ accepted'.key = kid /\ accepted'.at = instant
        /\ accepted'.tried = (cache.tried # cache.at) /\ accepted'.past = past
    BY <2>1
  <2>3. {KeyTtl, RefreshGap} \subseteq Spans' /\ (accepted'.tried => MaxStale \in Spans')
    BY DEF Spans
  <2>4. TrustEnds'
    BY <1>1, <1>2, <2>2, <2>3 DEF TrustEnds
  <2>5. instant \in Nat
    BY DEF TrustInv, SpreadInv, SignInTypeOK, Moments
  <2> QED
    BY <2>2, <2>4, <2>5
<1>3. CASE kid \notin cache.keys
  <2>1. accepted' = accepted
    BY <1>3 DEF ResolveKey, Refuse, Ask
  <2> QED
    BY <2>1, <1>1 DEF TrustInv, TrustEnds, Spans
<1> QED
  BY <1>2, <1>3

LEMMA TrustUnmoved ==
  ASSUME TrustInv, accepted' = accepted, withdrawn' = withdrawn, instant' = instant
  PROVE  TrustEnds' /\ accepted'.at <= instant'
<1>1. Delay' = Delay
  BY DEF Delay
<1> QED
  BY <1>1 DEF TrustInv, TrustEnds, Spans

LEMMA TrustNumbers ==
  ASSUME TrustInv
  PROVE  /\ instant \in Nat /\ jwks.at \in Nat /\ jwks.tried \in Nat /\ jwks \in JwksRec
         /\ \A k \in SignKeys : withdrawn[k] \in Nat
         /\ \A c \in Callbacks : callback[c] \in CallbackRec
         /\ \A c \in Callbacks : callback[c].now \in Nat /\ callback[c].since \in Nat
         /\ \A c \in Callbacks : callback[c].kid \in 0..MaxSignKeys /\ callback[c].force \in BOOLEAN
         /\ jwks.keys \subseteq SignKeys
         /\ {KeyTtl, MaxStale, RefreshGap} \subseteq Nat
<1>1. SignInTypeOK
  BY DEF TrustInv, SpreadInv
<1>2. instant \in Nat /\ jwks \in JwksRec
  BY <1>1 DEF SignInTypeOK, Moments, JwksRec
<1>3. jwks.at \in Nat /\ jwks.tried \in Nat /\ jwks.keys \subseteq SignKeys
  BY <1>2 DEF JwksRec, Moments
<1>4. \A k \in SignKeys : withdrawn[k] \in Nat
  BY <1>1 DEF SignInTypeOK, Moments
<1>5. \A c \in Callbacks : callback[c] \in CallbackRec
  BY <1>1 DEF SignInTypeOK, CallbackRec
<1>6. \A c \in Callbacks : /\ callback[c].now \in Nat /\ callback[c].since \in Nat
                           /\ callback[c].kid \in 0..MaxSignKeys /\ callback[c].force \in BOOLEAN
  BY <1>5 DEF CallbackRec, Moments
<1> QED
  BY <1>2, <1>3, <1>4, <1>5, <1>6, SignInConstants

LEMMA CacheUnmoved ==
  ASSUME TrustInv, jwks' = jwks, withdrawn' = withdrawn
  PROVE  CacheHonest'
BY DEF TrustInv, CacheHonest

(* A turn leaves nobody waiting longer.                                     *)
LEMMA TurnIsPrompt ==
  ASSUME TrustInv, NEW c \in Callbacks, Turn(c), instant' = instant
  PROVE  Prompt'
BY PromptKept DEF Turn

LEMMA TrustExchange ==
  ASSUME TrustInv, NEW c \in Callbacks, Exchange(c)
  PROVE  TrustInv'
<1>0. SpreadInv' /\ SignInTypeOK
  BY StepExchange DEF TrustInv, SpreadInv
<1>1. UNCHANGED <<instant, newest, withdrawn, jwks, requests>>
  BY DEF Exchange, provider
<1>2. jwks \in JwksRec /\ 1..newest \subseteq 0..MaxSignKeys
  BY <1>0, SignInConstants DEF SignInTypeOK, JwksRec, SignKeys
<1>3. CacheHonest'
  BY <1>1, CacheUnmoved
<1>4. CASE Refuse(c)
  <2>1. Turn(c) /\ accepted' = accepted
    BY <1>0, <1>4, StepRefuse DEF Refuse
  <2> QED
    BY <2>1, <1>0, <1>1, <1>3, TurnIsPrompt, TrustUnmoved DEF TrustInv
<1>5. ASSUME NEW kid \in 1..newest, Ask(c, kid, FALSE)
      PROVE  TrustInv'
  <2>1. Turn(c) /\ accepted' = accepted
    BY <1>0, <1>2, <1>5, StepAsk DEF Ask
  <2> QED
    BY <2>1, <1>0, <1>1, <1>3, TurnIsPrompt, TrustUnmoved DEF TrustInv
<1>6. ASSUME NEW kid \in 1..newest, Fresh(instant), ResolveKey(c, kid, jwks, FALSE, FALSE)
      PROVE  TrustInv'
  <2>1. Turn(c)
    BY <1>0, <1>2, <1>6, StepResolve
  <2>2. ASSUME NEW k \in jwks.keys, withdrawn[k] # 0
        PROVE  instant <= withdrawn[k] + Delay + KeyTtl
    <3>1. jwks.at <= withdrawn[k]
      BY <2>2 DEF TrustInv, CacheHonest
    <3>2. instant < jwks.at + KeyTtl
      BY <1>6 DEF Fresh
    <3>3. k \in SignKeys /\ withdrawn[k] \in Nat /\ jwks.at \in Nat /\ instant \in Nat /\ KeyTtl \in Nat
      BY TrustNumbers
    <3>4. Delay \in Nat
      BY Others
    <3> QED
      BY <3>1, <3>2, <3>3, <3>4
  <2>3. kid \in 0..MaxSignKeys
    BY <1>2
  <2>4. TrustEnds' /\ accepted'.at <= instant'
    BY <1>1, <1>2, <1>6, <2>2, <2>3, TrustKept
  <2> QED
    BY <2>1, <2>4, <1>0, <1>1, <1>3, TurnIsPrompt DEF TrustInv
<1> QED
  BY <1>4, <1>5, <1>6 DEF Exchange

LEMMA TrustEnterLock ==
  ASSUME TrustInv, NEW c \in Callbacks, EnterLock(c)
  PROVE  TrustInv'
<1> DEFINE me == callback[c]
<1>0. SpreadInv' /\ SignInTypeOK
  BY StepEnterLock DEF TrustInv, SpreadInv
<1>1. UNCHANGED <<instant, newest, withdrawn, jwks, requests>>
  BY DEF EnterLock, provider
<1>2. /\ me.kid \in 0..MaxSignKeys /\ me.force \in BOOLEAN /\ me \in CallbackRec /\ jwks \in JwksRec
      /\ me.now \in Nat /\ jwks.at \in Nat /\ jwks.tried \in Nat /\ instant \in Nat
      /\ {KeyTtl, MaxStale, RefreshGap} \subseteq Nat
  BY TrustNumbers
<1>3. CacheHonest'
  BY <1>1, CacheUnmoved
<1>4. me.pc = "lock"
  BY DEF EnterLock, CallbackAt
<1>5. CASE (Fresh(me.now) /\ ~me.force) \/ TooSoon(me.now)
  <2> DEFINE past == me.now > jwks.at + MaxStale
  <2>1. ResolveKey(c, me.kid, jwks, me.force, past)
    BY <1>5 DEF EnterLock
  <2>2. past \in BOOLEAN
    OBVIOUS
  <2> HIDE DEF past
  <2>3. Turn(c)
    BY <2>1, <2>2, <1>0, <1>2, StepResolve
  <2>4. instant <= me.now + (Delay - 1) /\ Delay \in Nat
    <3>1. instant <= me.now + Cardinality(Passed(c))
      BY <1>4 DEF TrustInv, Prompt
    <3>2. Cardinality(Passed(c)) \in Nat /\ Delay \in Nat /\ Cardinality(Passed(c)) <= Delay - 1
      BY Others
    <3> QED
      BY <3>1, <3>2, <1>2
  <2>5. ASSUME NEW k \in jwks.keys, withdrawn[k] # 0, ~past
        PROVE  \/ instant <= withdrawn[k] + Delay + KeyTtl
               \/ instant <= withdrawn[k] + Delay + RefreshGap
               \/ jwks.tried # jwks.at /\ instant <= withdrawn[k] + Delay + MaxStale
    <3>1. jwks.at <= withdrawn[k]
      BY <2>5 DEF TrustInv, CacheHonest
    <3>2. k \in SignKeys /\ withdrawn[k] \in Nat
      BY TrustNumbers
    <3>3. CASE Fresh(me.now)
      <4>1. me.now < jwks.at + KeyTtl
        BY <3>3 DEF Fresh
      <4> QED
        BY <4>1, <3>1, <3>2, <2>4, <1>2
    <3>4. CASE TooSoon(me.now) /\ jwks.tried = jwks.at
      <4>1. me.now < jwks.at + RefreshGap
        BY <3>4 DEF TooSoon
      <4> QED
        BY <4>1, <3>1, <3>2, <2>4, <1>2
    <3>5. CASE TooSoon(me.now) /\ jwks.tried # jwks.at
      <4>1. me.now <= jwks.at + MaxStale
        BY <2>5, <1>2 DEF past
      <4> QED
        BY <4>1, <3>1, <3>2, <3>5, <2>4, <1>2
    <3> QED
      BY <3>3, <3>4, <3>5, <1>5
  <2>6. \A k \in jwks.keys :
           \/ withdrawn[k] = 0 \/ past
           \/ instant <= withdrawn[k] + Delay + KeyTtl
           \/ instant <= withdrawn[k] + Delay + RefreshGap
           \/ jwks.tried # jwks.at /\ instant <= withdrawn[k] + Delay + MaxStale
    BY <2>5
  <2>7. TrustEnds' /\ accepted'.at <= instant'
    BY <1>1, <1>2, <2>1, <2>2, <2>6, TrustKept
  <2> QED
    BY <2>3, <2>7, <1>0, <1>1, <1>3, TurnIsPrompt DEF TrustInv
<1>6. CASE ~((Fresh(me.now) /\ ~me.force) \/ TooSoon(me.now))
  <2> DEFINE new == [me EXCEPT !.since = instant, !.pc = IF DocumentFresh THEN "keys" ELSE "document"]
  <2>1. callback' = [callback EXCEPT ![c].since = instant,
                       ![c].pc = IF DocumentFresh THEN "keys" ELSE "document"] /\ accepted' = accepted
    BY <1>6 DEF EnterLock
  <2>2. /\ new.now = me.now /\ new.since = instant /\ new.pc \in {"document", "keys"}
    BY <1>2 DEF CallbackRec
  <2>3. callback \in [Callbacks -> CallbackRec]
    BY <1>0 DEF SignInTypeOK, CallbackRec
  <2>4. callback'[c] = new /\ \A d \in Callbacks \ {c} : callback'[d] = callback[d]
    BY <2>1, <2>3
  <2>5. callback' \in [Callbacks -> CallbackRec]
    BY <1>0 DEF SpreadInv, SignInTypeOK, CallbackRec
  <2>6. \A d \in Callbacks : callback[d].pc = "lock" => callback[c].now <= callback[d].now
    BY DEF EnterLock, CallbackAt
  <2> HIDE DEF new
  <2>7. Prompt'
    BY <1>1, <1>4, <2>2, <2>4, <2>5, <2>6, PromptKept
  <2> QED
    BY <2>1, <2>7, <1>0, <1>1, <1>3, TrustUnmoved DEF TrustInv
<1> QED
  BY <1>5, <1>6

LEMMA TrustDocument ==
  ASSUME TrustInv, NEW c \in Callbacks, FetchDocument(c)
  PROVE  TrustInv'
<1>0. SpreadInv' /\ SignInTypeOK
  BY StepFetchDocument DEF TrustInv, SpreadInv
<1>1. UNCHANGED <<instant, newest, withdrawn, jwks, requests>> /\ callback[c].pc = "document"
  BY DEF FetchDocument, provider, CallbackAt
<1>2. accepted' = accepted
  BY DEF FetchDocument, Refuse
<1>3. CASE Refuse(c)
  BY <1>0, <1>1, <1>2, <1>3, StepRefuse, TurnIsPrompt, TrustUnmoved, CacheUnmoved DEF TrustInv
<1>4. CASE callback' = [callback EXCEPT ![c].pc = "keys"]
  <2>1. callback \in [Callbacks -> CallbackRec] /\ callback[c] \in CallbackRec
    BY <1>0 DEF SignInTypeOK, CallbackRec
  <2>2. /\ callback'[c] = [callback[c] EXCEPT !.pc = "keys"]
        /\ \A d \in Callbacks \ {c} : callback'[d] = callback[d]
    BY <2>1, <1>4
  <2>3. /\ callback'[c].pc = "keys" /\ callback'[c].now = callback[c].now
        /\ callback'[c].since = callback[c].since
    BY <2>1, <2>2 DEF CallbackRec
  <2>5. callback' \in [Callbacks -> CallbackRec]
    BY <1>0 DEF SpreadInv, SignInTypeOK, CallbackRec
  <2>6. Prompt'
    BY <1>1, <2>2, <2>3, <2>5, PromptKept
  <2> QED
    BY <2>6, <1>0, <1>1, <1>2, TrustUnmoved, CacheUnmoved DEF TrustInv
<1> QED
  BY <1>3, <1>4 DEF FetchDocument

LEMMA TrustFetched ==
  ASSUME TrustInv, NEW c \in Callbacks, KeysFetched(c)
  PROVE  TrustInv'
<1> DEFINE me == callback[c]
           new == [keys |-> Published, at |-> me.now, tried |-> me.now]
<1>0. SpreadInv' /\ SignInTypeOK
  BY StepKeys DEF TrustInv, SpreadInv
<1>1. UNCHANGED <<instant, newest, withdrawn>> /\ jwks' = new
      /\ ResolveKey(c, me.kid, new, me.force, FALSE)
  BY DEF KeysFetched, provider
<1>2. /\ me.kid \in 0..MaxSignKeys /\ me.force \in BOOLEAN /\ me \in CallbackRec
      /\ me.now \in Nat
  BY TrustNumbers
<1>3. me.now \in Moments
  BY <1>2 DEF CallbackRec
<1>4. Published \subseteq SignKeys
  BY <1>0, SignInConstants DEF Published, SignInTypeOK, SignKeys
<1>5. new \in JwksRec /\ new.keys = Published /\ new.at = me.now /\ new.tried = me.now
  BY <1>3, <1>4 DEF JwksRec
<1>6. \A k \in new.keys : withdrawn[k] = 0
  BY <1>5 DEF Published
<1> HIDE DEF new
<1>7. Turn(c)
  BY <1>0, <1>1, <1>2, <1>5, StepResolve
<1>8. TrustEnds' /\ accepted'.at <= instant'
  BY <1>1, <1>2, <1>5, <1>6, TrustKept
<1>9. CacheHonest'
  BY <1>1, <1>2, <1>5, <1>6 DEF CacheHonest
<1> QED
  BY <1>0, <1>1, <1>7, <1>8, <1>9, TurnIsPrompt DEF TrustInv

LEMMA TrustFail ==
  ASSUME TrustInv, NEW c \in Callbacks, KeysFail(c)
  PROVE  TrustInv'
<1> DEFINE me == callback[c]
<1>0. SpreadInv' /\ SignInTypeOK
  BY StepKeys DEF TrustInv, SpreadInv
<1>1. UNCHANGED <<instant, newest, withdrawn>> /\ me.pc = "keys"
  BY DEF KeysFail, provider, CallbackAt
<1>2. /\ me.kid \in 0..MaxSignKeys /\ me.force \in BOOLEAN /\ me \in CallbackRec /\ jwks \in JwksRec
      /\ me.now \in Nat /\ me.since \in Nat
      /\ jwks.at \in Nat /\ jwks.tried \in Nat /\ instant \in Nat
      /\ {KeyTtl, MaxStale, RefreshGap} \subseteq Nat
  BY TrustNumbers
<1>3. me.now \in Moments
  BY <1>2 DEF CallbackRec
<1>4. CASE ~Cached
  <2>1. Refuse(c) /\ UNCHANGED <<jwks, requests>> /\ accepted' = accepted
    BY <1>4 DEF KeysFail, Refuse
  <2> QED
    BY <2>1, <1>0, <1>1, StepRefuse, TurnIsPrompt, TrustUnmoved, CacheUnmoved DEF TrustInv
<1>5. CASE Cached
  <2> DEFINE cache == [jwks EXCEPT !.tried = me.now]
  <2>1. /\ jwks' = cache
        /\ IF me.now > jwks.at + MaxStale THEN Refuse(c)
           ELSE ResolveKey(c, me.kid, jwks', me.force, FALSE)
    BY <1>5 DEF KeysFail
  <2>2. cache \in JwksRec /\ cache.keys = jwks.keys /\ cache.at = jwks.at /\ cache.tried = me.now
    BY <1>2, <1>3 DEF JwksRec
  <2> HIDE DEF cache
  <2>3. jwks.tried + RefreshGap <= me.now
    <3>1. c \in Refreshing
      BY <1>1 DEF Refreshing
    <3> QED
      BY <3>1, <1>5 DEF TrustInv, SpreadInv, OneRefreshes
  <2>4. jwks.at <= jwks.tried
    BY DEF TrustInv, CacheHonest
  <2>5. jwks.at < me.now
    BY <2>3, <2>4, <1>2, SignInConstants
  <2>6. CacheHonest'
    <3>1. jwks'.at <= jwks'.tried
      BY <2>1, <2>2, <2>5, <1>2
    <3> QED
      BY <3>1, <2>1, <2>2, <1>1 DEF TrustInv, CacheHonest
  <2>7. CASE Refuse(c)
    <3>1. accepted' = accepted
      BY <2>7 DEF Refuse
    <3> QED
      BY <3>1, <2>6, <2>7, <1>0, <1>1, StepRefuse, TurnIsPrompt, TrustUnmoved DEF TrustInv
  <2>8. CASE ~(me.now > jwks.at + MaxStale) /\ ResolveKey(c, me.kid, jwks', me.force, FALSE)
    <3>1. ResolveKey(c, me.kid, cache, me.force, FALSE)
      BY <2>8, <2>1
    <3>2. Turn(c)
      BY <3>1, <2>2, <1>0, <1>2, StepResolve
    <3>3. ASSUME NEW k \in cache.keys, withdrawn[k] # 0
          PROVE  instant <= withdrawn[k] + Delay + MaxStale
      <4>1. jwks.at <= withdrawn[k] /\ k \in SignKeys /\ withdrawn[k] \in Nat
        BY <3>3, <2>2, TrustNumbers DEF TrustInv, CacheHonest
      <4>2. instant <= me.since + 1 /\ me.since <= me.now + (Delay - 1)
        BY <1>1 DEF TrustInv, Prompt
      <4>3. Delay \in Nat
        BY Others
      <4>4. me.now <= jwks.at + MaxStale
        BY <2>8, <1>2
      <4>5. instant <= me.now + Delay
        BY <4>2, <4>3, <1>2
      <4> QED
        BY <4>1, <4>3, <4>4, <4>5, <1>2
    <3>4. cache.tried # cache.at
      BY <2>2, <2>5, <1>2
    <3>5. TrustEnds' /\ accepted'.at <= instant'
      BY <3>1, <3>3, <3>4, <1>1, <1>2, <2>2, TrustKept
    <3> QED
      BY <3>2, <3>5, <2>6, <1>0, <1>1, TurnIsPrompt DEF TrustInv
  <2> QED BY <2>1, <2>7, <2>8
<1> QED
  BY <1>4, <1>5

LEMMA TrustProvider ==
  ASSUME TrustInv, NEW k \in SignKeys, WithdrawKey(k)
  PROVE  TrustEnds' /\ CacheHonest'
<1>1. /\ withdrawn' = [withdrawn EXCEPT ![k] = instant]
      /\ UNCHANGED <<instant, newest, document, jwks, callback, accepted, requests>>
      /\ withdrawn[k] = 0
  BY DEF WithdrawKey, Published
<1>2. /\ instant \in Nat /\ jwks.at \in Nat /\ jwks.tried \in Nat /\ KeyTtl \in Nat
      /\ \A j \in SignKeys : withdrawn[j] \in Nat
  BY TrustNumbers
<1>3. /\ accepted.at <= instant /\ jwks.at <= instant /\ accepted.at \in Nat
      /\ withdrawn \in [SignKeys -> Moments]
  BY <1>2 DEF TrustInv, CacheHonest, SpreadInv, Stamped, SignInTypeOK, Moments
<1>4. withdrawn'[k] = instant /\ \A j : j # k => withdrawn'[j] = withdrawn[j]
  BY <1>1, <1>3
<1>5. CacheHonest'
  BY <1>1, <1>3, <1>4 DEF TrustInv, CacheHonest
<1>6. Delay' = Delay /\ Delay \in Nat
  BY SignInAssumption, FS_CardinalityType DEF Delay
<1>7. Spans' = Spans /\ KeyTtl \in Spans
  BY <1>1 DEF Spans
<1>8. TrustEnds'
  <2>1. CASE accepted.key = k
    <3>1. accepted.at <= instant + Delay + KeyTtl
      BY <1>2, <1>3, <1>6
    <3> QED
      BY <2>1, <3>1, <1>1, <1>4, <1>6, <1>7 DEF TrustEnds
  <2>2. CASE accepted.key # k
    BY <2>2, <1>1, <1>4, <1>6, <1>7 DEF TrustInv, TrustEnds
  <2> QED BY <2>1, <2>2
<1> QED
  BY <1>5, <1>8

(* A withdrawn key is trusted no longer than the spans allow, the keys are  *)
(* asked for once in RefreshGap, for any number of callbacks and any spans. *)
THEOREM SignInIsKept == SignInSpec => []SignInInv
<1>1. SignInInit => TrustInv
  <2> SUFFICES ASSUME SignInInit PROVE TrustInv
    OBVIOUS
  <2>1. SpreadInv
    BY SpreadStarts
  <2>2. Prompt
    BY DEF SignInInit, Prompt, NoSignIn
  <2>3. CacheHonest /\ accepted.at <= instant /\ TrustEnds
    BY DEF SignInInit, CacheHonest, NoKeys, NotYet, TrustEnds
  <2> QED
    BY <2>1, <2>2, <2>3 DEF TrustInv
<1>2. TrustInv /\ [SignInNext]_signInVars => TrustInv'
  <2> SUFFICES ASSUME TrustInv, [SignInNext]_signInVars PROVE TrustInv'
    OBVIOUS
  <2>0. SpreadInv'
    BY SpreadStep DEF TrustInv
  <2>1. CASE ClockTicks
    <3>1. UNCHANGED <<newest, withdrawn, document, jwks, callback, accepted, requests>>
      BY <2>1 DEF ClockTicks, provider
    <3>2. instant' = instant + 1
      BY <2>1 DEF ClockTicks
    <3>3. instant \in Nat /\ accepted.at <= instant /\ accepted.at \in Nat
      BY DEF TrustInv, SpreadInv, SignInTypeOK, Moments
    <3>4. Delay' = Delay
      BY DEF Delay
    <3>5. TrustEnds'
      BY <3>1, <3>4 DEF TrustInv, TrustEnds, Spans
    <3> QED
      BY <2>0, <2>1, <3>1, <3>2, <3>3, <3>5, TickKeeps, CacheUnmoved DEF TrustInv
  <2>2. CASE AddKey \/ UNCHANGED signInVars
    <3>1. UNCHANGED <<instant, withdrawn, document, jwks, callback, accepted, requests>>
      BY <2>2 DEF AddKey, signInVars, provider
    <3>2. Prompt'
      BY <3>1 DEF TrustInv, Prompt, Passed, Delay
    <3> QED
      BY <2>0, <3>1, <3>2, TrustUnmoved, CacheUnmoved DEF TrustInv
  <2>3. CASE \E k \in SignKeys : WithdrawKey(k)
    <3>1. UNCHANGED <<instant, newest, document, jwks, callback, accepted, requests>>
      BY <2>3 DEF WithdrawKey
    <3>2. Prompt'
      BY <3>1 DEF TrustInv, Prompt, Passed, Delay
    <3> QED
      BY <2>0, <2>3, <3>1, <3>2, TrustProvider DEF TrustInv
  <2> QED
    BY <2>1, <2>2, <2>3, TrustExchange, TrustEnterLock, TrustDocument, TrustFetched, TrustFail
       DEF SignInNext
<1>3. TrustInv => SignInTypeOK /\ TrustEnds
  BY DEF TrustInv, SpreadInv
<1>4. SignInSpec => []RequestsSpread
  BY KeysAskedSeldom
<1> QED
  BY <1>1, <1>2, <1>3, <1>4, PTL DEF SignInSpec, SignInInv
-----------------------------------------------------------------------------
EvalRecs == [pc : AtWork \union {"none", "over"}, id : 0..MaxRuns,
             suite : BOOLEAN, prompts : 0..MaxPrompts]

(* What the plan of a job says of its place: a job without a suite has      *)
(* something to measure until it measures, and only a suite is graded.      *)
PlanKept(e) ==
  /\ e.pc \in AtWork => e.id \in RunIds
  /\ e.pc \in {"queued", "resolve", "suite"} /\ ~e.suite => e.prompts > 0
  /\ e.pc = "suite" => e.suite

(* A job that measures has left its traces in the row, unless a write was   *)
(* lost or the row is another one than the job began with.                  *)
TracesLeft(e, row, gone) ==
  e.pc = "prompts" /\ row.status # "none" =>
    \/ gone
    \/ /\ e.suite => row.quality
       /\ ~e.suite /\ e.prompts = 0 => row.answered \/ row.failed

Gone(r) == r \in lost \/ r \in mixed

EvalIInv ==
  /\ EvalsTypeOK
  /\ \A j \in EvalJobs : PlanKept(eval[j])
  /\ \A j \in EvalJobs : TracesLeft(eval[j], run[eval[j].id], Gone(eval[j].id))
  /\ LiveRunDriven
  /\ GreenMeansMeasured

LEMMA EvalRows ==
  ASSUME NEW row \in Rows
  PROVE  /\ row.status \in {"none", "pending", "running", "success", "error"}
         /\ row.answered \in BOOLEAN /\ row.failed \in BOOLEAN /\ row.quality \in BOOLEAN
         /\ \A st \in {"none", "pending", "running", "success", "error"} :
              LET row2 == [row EXCEPT !.status = st] IN
              /\ row2 \in Rows /\ row2.status = st /\ row2.answered = row.answered
              /\ row2.failed = row.failed /\ row2.quality = row.quality
         /\ LET row2 == [row EXCEPT !.quality = TRUE] IN
              /\ row2 \in Rows /\ row2.status = row.status /\ row2.answered = row.answered
              /\ row2.failed = row.failed /\ row2.quality = TRUE
         /\ \A a \in BOOLEAN :
            LET row2 == [row EXCEPT !.answered = @ \/ a, !.failed = @ \/ ~a] IN
              /\ row2 \in Rows /\ row2.status = row.status
              /\ row2.answered = (row.answered \/ a)
              /\ row2.failed = (row.failed \/ ~a) /\ row2.quality = row.quality
BY DEF Rows

LEMMA EvalRecFacts ==
  ASSUME NEW e \in EvalRecs
  PROVE  /\ e.pc \in AtWork \union {"none", "over"} /\ e.id \in 0..MaxRuns
         /\ e.suite \in BOOLEAN /\ e.prompts \in 0..MaxPrompts
         /\ \A place \in AtWork \union {"none", "over"} :
              LET e2 == [e EXCEPT !.pc = place] IN
              /\ e2 \in EvalRecs /\ e2.pc = place /\ e2.id = e.id
              /\ e2.suite = e.suite /\ e2.prompts = e.prompts
         /\ e.prompts > 0 =>
              LET e2 == [e EXCEPT !.prompts = @ - 1] IN
              /\ e2 \in EvalRecs /\ e2.pc = e.pc /\ e2.id = e.id
              /\ e2.suite = e.suite /\ e2.prompts = e.prompts - 1
<1>1. e.pc \in AtWork \union {"none", "over"} /\ e.id \in 0..MaxRuns
      /\ e.suite \in BOOLEAN /\ e.prompts \in 0..MaxPrompts
  BY DEF EvalRecs
<1>2. ASSUME NEW place \in AtWork \union {"none", "over"}
      PROVE  LET e2 == [e EXCEPT !.pc = place] IN
              /\ e2 \in EvalRecs /\ e2.pc = place /\ e2.id = e.id
              /\ e2.suite = e.suite /\ e2.prompts = e.prompts
  BY DEF EvalRecs
<1>3. ASSUME e.prompts > 0
      PROVE LET e2 == [e EXCEPT !.prompts = @ - 1] IN
              /\ e2 \in EvalRecs /\ e2.pc = e.pc /\ e2.id = e.id
              /\ e2.suite = e.suite /\ e2.prompts = e.prompts - 1
  <2>1. e.prompts - 1 \in 0..MaxPrompts
    BY <1>1, <1>3, EvalsBounds
  <2> QED
    BY <2>1 DEF EvalRecs
<1> QED
  BY <1>1, <1>2, <1>3

LEMMA EvalMoved ==
  ASSUME NEW e \in EvalRecs, NEW p \in AtWork \union {"none", "over"}
  PROVE  /\ [e EXCEPT !.pc = p] \in EvalRecs
         /\ [e EXCEPT !.pc = p].pc = p /\ [e EXCEPT !.pc = p].id = e.id
         /\ [e EXCEPT !.pc = p].suite = e.suite
         /\ [e EXCEPT !.pc = p].prompts = e.prompts
BY DEF EvalRecs

LEMMA EvalRunId == \A r \in RunIds : r \in 0..MaxRuns
BY EvalsBounds DEF RunIds

(* A step of one job at work, described by what it leaves: its own record,  *)
(* and at most its own row, in which nothing that was there is gone.        *)
LEMMA JobSteps ==
  ASSUME EvalIInv, NEW j \in EvalJobs, NEW e \in EvalRecs, NEW r \in RunIds,
         eval[j].pc \in AtWork, r = eval[j].id,
         eval' = [eval EXCEPT ![j] = e], e.id = r,
         PlanKept(e), 
         run' \in [RunIds -> Rows], \A s \in RunIds : s # r => run'[s] = run[s],
         There(r)' => There(r),
         /\ run[r].answered => run'[r].answered
         /\ run[r].failed => run'[r].failed
         /\ run[r].quality => run'[r].quality,
         lost \subseteq lost', lost' \subseteq RunIds, mixed' = mixed,
         stranded \subseteq stranded', stranded' \subseteq RunIds,
         faults' \in 0..MaxFaults,
         LiveRun(r)' => e.pc \in AtWork \/ r \in stranded',
         TracesLeft(e, run'[r], r \in lost' \/ r \in mixed),
         run'[r].status = "success" => \/ run[r].status = "success"
                                       \/ run'[r].answered \/ run'[r].quality
                                       \/ r \in lost' \/ r \in mixed
  PROVE  EvalIInv'
<1>1. run \in [RunIds -> Rows] /\ eval \in [EvalJobs -> EvalRecs]
  BY DEF EvalIInv, EvalsTypeOK, EvalRecs
<1>2. /\ eval' \in [EvalJobs -> EvalRecs] /\ eval'[j] = e
      /\ \A k \in EvalJobs : k # j => eval'[k] = eval[k]
  BY <1>1
<1>3. EvalsTypeOK'
  <2>1. mixed \subseteq RunIds
    BY DEF EvalIInv, EvalsTypeOK
  <2> QED
    BY <1>2, <2>1 DEF EvalsTypeOK, EvalRecs
<1>4. ASSUME NEW k \in EvalJobs PROVE PlanKept(eval'[k])
  BY <1>2 DEF EvalIInv
<1>5. ASSUME NEW k \in EvalJobs
      PROVE TracesLeft(eval'[k], run'[eval'[k].id], eval'[k].id \in lost' \/ eval'[k].id \in mixed')
  <2>1. CASE k = j
    BY <2>1, <1>2
  <2>2. CASE k # j
    <3>1. eval'[k] = eval[k] /\ TracesLeft(eval[k], run[eval[k].id], Gone(eval[k].id))
      BY <1>2, <2>2 DEF EvalIInv
    <3>2. eval[k].pc = "prompts" => eval[k].id \in RunIds
      BY DEF EvalIInv, PlanKept, AtWork
    <3>3. CASE eval[k].id = r
      BY <3>1, <3>3 DEF TracesLeft, Gone, There
    <3>4. CASE eval[k].id # r
      BY <3>1, <3>2, <3>4 DEF TracesLeft, Gone
    <3> QED BY <3>3, <3>4
  <2> QED BY <2>1, <2>2
<1>6. ASSUME NEW s \in RunIds, LiveRun(s)'
      PROVE  Driving(s)' # {} \/ s \in stranded'
  <2>1. CASE s = r
    BY <2>1, <1>2, <1>6 DEF Driving
  <2>2. CASE s # r
    <3>1. LiveRun(s)
      BY <1>6, <2>2 DEF LiveRun
    <3>2. Driving(s) # {} \/ s \in stranded
      BY <3>1 DEF EvalIInv, LiveRunDriven
    <3>3. ASSUME NEW k \in EvalJobs, k \in Driving(s)
          PROVE  k \in Driving(s)'
      BY <3>3, <2>2, <1>2 DEF Driving
    <3> QED
      BY <3>2, <3>3 DEF Driving
  <2> QED BY <2>1, <2>2
<1>7. ASSUME NEW s \in RunIds, run'[s].status = "success"
      PROVE  run'[s].answered \/ run'[s].quality \/ s \in lost' \/ s \in mixed'
  <2>1. run[s].status = "success" => run[s].answered \/ run[s].quality \/ s \in lost \/ s \in mixed
    BY DEF EvalIInv, GreenMeansMeasured
  <2> QED
    BY <2>1, <1>7
<1>8. LiveRunDriven'
  BY <1>6 DEF LiveRunDriven
<1>9. GreenMeansMeasured'
  BY <1>7 DEF GreenMeansMeasured
<1> QED
  BY <1>3, <1>4, <1>5, <1>8, <1>9 DEF EvalIInv, Gone

LEMMA EvalsInitially == EvalsInit => EvalIInv
<1> SUFFICES ASSUME EvalsInit PROVE EvalIInv
  OBVIOUS
<1>1. \A r \in RunIds : run[r] = NoRun
  BY DEF EvalsInit
<1>2. \A j \in EvalJobs : eval[j] = NoEval
  BY DEF EvalsInit
<1>3. NoRun \in Rows /\ NoRun.status = "none"
  BY DEF NoRun, Rows
<1>4. NoEval \in EvalRecs /\ NoEval.pc = "none"
  BY EvalsBounds DEF NoEval, EvalRecs
<1>5. EvalsTypeOK
  BY <1>3, <1>4, EvalsBounds DEF EvalsTypeOK, EvalsInit, EvalRecs
<1>6. \A j \in EvalJobs : PlanKept(eval[j]) /\ TracesLeft(eval[j], run[eval[j].id], Gone(eval[j].id))
  BY <1>2, <1>4 DEF PlanKept, TracesLeft, AtWork
<1>7. LiveRunDriven
  BY <1>1, <1>3 DEF LiveRunDriven, LiveRun
<1>8. GreenMeansMeasured
  BY <1>1, <1>3 DEF GreenMeansMeasured
<1> QED
  BY <1>5, <1>6, <1>7, <1>8 DEF EvalIInv

(* The writes: made, skipped or refused.                                    *)
LEMMA Commits ==
  ASSUME EvalIInv, NEW j \in EvalJobs, NEW r \in RunIds, r = eval[j].id,
         NEW row \in Rows, NEW place \in AtWork \union {"over"},
         eval[j].pc \in AtWork, Commit(j, row, place), mixed' = mixed,
         lost \subseteq lost', lost' \subseteq RunIds,
         row.status # "none", 
         row.status \in {"pending", "running"} => place # "over",
         /\ run[r].answered => row.answered
         /\ run[r].failed => row.failed
         /\ run[r].quality => row.quality,
         place # "over" => \A e \in EvalRecs : 
            /\ e.id = r /\ e.pc = place /\ e.suite = eval[j].suite /\ e.prompts = eval[j].prompts
            => /\ PlanKept(e)
               /\ TracesLeft(e, row, r \in lost' \/ r \in mixed)
               /\ run'[r] # row /\ There(r) => TracesLeft(e, run[r], r \in lost' \/ r \in mixed),
         row.status = "success" => \/ run[r].status = "success"
                                   \/ row.answered \/ row.quality
                                   \/ r \in lost' \/ r \in mixed
  PROVE  EvalIInv'
<1>1. run \in [RunIds -> Rows] /\ eval \in [EvalJobs -> EvalRecs]
      /\ stranded \subseteq RunIds /\ faults \in 0..MaxFaults
  BY DEF EvalIInv, EvalsTypeOK, EvalRecs
<1> DEFINE e == [eval[j] EXCEPT !.pc = place]
           over == [eval[j] EXCEPT !.pc = "over"]
           failing == [eval[j] EXCEPT !.pc = "failing"]
<1>r. eval[j] \in EvalRecs
  BY <1>1
<1>f. \A p \in AtWork \union {"none", "over"} :
        /\ [eval[j] EXCEPT !.pc = p] \in EvalRecs
        /\ [eval[j] EXCEPT !.pc = p].pc = p /\ [eval[j] EXCEPT !.pc = p].id = eval[j].id
        /\ [eval[j] EXCEPT !.pc = p].suite = eval[j].suite
        /\ [eval[j] EXCEPT !.pc = p].prompts = eval[j].prompts
  BY <1>r, EvalMoved
<1>2. /\ e \in EvalRecs /\ e.pc = place /\ e.id = r
      /\ e.suite = eval[j].suite /\ e.prompts = eval[j].prompts
  BY <1>f
<1>3. over \in EvalRecs /\ over.pc = "over" /\ over.id = r
  BY <1>f
<1>4. failing \in EvalRecs /\ failing.pc = "failing" /\ failing.id = r
  BY <1>f DEF AtWork
<1>5. PlanKept(over) /\ PlanKept(failing)
  BY <1>3, <1>4 DEF PlanKept, AtWork
<1>6. \A rw, g : TracesLeft(over, rw, g) /\ TracesLeft(failing, rw, g)
  BY <1>3, <1>4 DEF TracesLeft
<1>7. Fault => faults' \in 0..MaxFaults
  BY <1>1, EvalsBounds DEF Fault
<1>8. Proceeds(j, place) => eval' = [eval EXCEPT ![j] = e]
  BY <1>1 DEF Proceeds
<1>9. Proceeds(j, "over") => eval' = [eval EXCEPT ![j] = over]
  BY <1>1 DEF Proceeds
<1>10. Proceeds(j, "failing") => eval' = [eval EXCEPT ![j] = failing]
  BY <1>1 DEF Proceeds
<1>11. Over(j) => /\ stranded \subseteq stranded' /\ stranded' \subseteq RunIds
                  /\ LiveRun(r) => r \in stranded'
  BY <1>1 DEF Over
<1>12. Over(j) => eval' = [eval EXCEPT ![j] = over]
  BY <1>9 DEF Over
<1>13. place = "over" => e.pc = "over"
  BY <1>2
<1>14. PlanKept(e)
  BY <1>2 DEF PlanKept, AtWork
<1>15. place = "over" => \A rw, g : TracesLeft(e, rw, g)
  BY <1>2 DEF TracesLeft
<1>a. CASE There(r) /\ run' = [run EXCEPT ![r] = row] /\ Proceeds(j, place)
           /\ UNCHANGED <<stranded, faults>>
  <2>1. run' \in [RunIds -> Rows] /\ run'[r] = row /\ \A s \in RunIds : s # r => run'[s] = run[s]
    BY <1>1, <1>a
  <2>2. TracesLeft(e, row, r \in lost' \/ r \in mixed)
    BY <1>2, <1>15
  <2>3. LiveRun(r)' => e.pc \in AtWork \/ r \in stranded'
    BY <2>1, <1>2 DEF LiveRun
  <2> HIDE DEF e
  <2>4. There(r)' => There(r)
    BY <1>a
  <2> QED
    BY <1>1, <1>2, <1>8, <1>14, <1>a, <2>1, <2>2, <2>3, <2>4, JobSteps
<1>b. CASE There(r) /\ Fault /\ UNCHANGED run /\ place # "over" /\ Proceeds(j, place) /\ UNCHANGED stranded
  <2>1. TracesLeft(e, run[r], r \in lost' \/ r \in mixed)
    <3>1. CASE run'[r] = row
      BY <3>1, <1>b, <1>2
    <3>2. CASE run'[r] # row
      BY <3>2, <1>b, <1>2
    <3> QED BY <3>1, <3>2
  <2>2. e.pc \in AtWork
    BY <1>b, <1>2
  <2>3. run[r].status = "success" => run'[r].status = "success"
    BY <1>b
  <2> HIDE DEF e
  <2>4. There(r)' => There(r)
    BY <1>b
  <2> QED
    BY <1>1, <1>2, <1>7, <1>8, <1>14, <1>b, <2>1, <2>2, <2>3, <2>4, JobSteps
<1>c. CASE There(r) /\ Fault /\ UNCHANGED run /\ Proceeds(j, "failing") /\ UNCHANGED stranded
  <2> HIDE DEF failing
  <2>1. failing.pc \in AtWork
    BY <1>4 DEF AtWork
  <2>4. There(r)' => There(r)
    BY <1>c
  <2> QED
    BY <1>1, <1>4, <1>5, <1>6, <1>7, <1>10, <1>c, <2>1, <2>4, JobSteps
<1>d. CASE Over(j) /\ UNCHANGED run /\ faults' \in 0..MaxFaults
  <2> HIDE DEF over
  <2>1. LiveRun(r)' => r \in stranded'
    BY <1>11, <1>d DEF LiveRun
  <2>4. There(r)' => There(r)
    BY <1>d DEF There
  <2> QED
    BY <1>1, <1>3, <1>5, <1>6, <1>11, <1>12, <1>d, <2>1, <2>4, JobSteps
<1>16. \/ There(r) /\ run' = [run EXCEPT ![r] = row] /\ Proceeds(j, place)
          /\ UNCHANGED <<stranded, faults>>
       \/ There(r) /\ Fault /\ UNCHANGED run /\ place # "over" /\ Proceeds(j, place) /\ UNCHANGED stranded
       \/ There(r) /\ Fault /\ UNCHANGED run /\ Proceeds(j, "failing") /\ UNCHANGED stranded
       \/ Over(j) /\ UNCHANGED run /\ (Fault \/ UNCHANGED faults)
  BY DEF Commit, InTry
<1> QED
  BY <1>1, <1>7, <1>16, <1>a, <1>b, <1>c, <1>d


(* Where a job at work stands, and what its row says.                       *)
LEMMA AtWorkFacts ==
  ASSUME EvalIInv, NEW j \in EvalJobs, eval[j].pc \in AtWork
  PROVE  /\ eval[j] \in EvalRecs /\ eval[j].id \in RunIds /\ run[eval[j].id] \in Rows
         /\ eval \in [EvalJobs -> EvalRecs] /\ run \in [RunIds -> Rows]
         /\ PlanKept(eval[j])
         /\ TracesLeft(eval[j], run[eval[j].id], Gone(eval[j].id))
<1>1. run \in [RunIds -> Rows] /\ eval \in [EvalJobs -> EvalRecs]
  BY DEF EvalIInv, EvalsTypeOK, EvalRecs
<1>2. PlanKept(eval[j]) /\ TracesLeft(eval[j], run[eval[j].id], Gone(eval[j].id))
  BY DEF EvalIInv
<1>3. eval[j].id \in RunIds
  BY <1>2 DEF PlanKept
<1> QED
  BY <1>1, <1>2, <1>3

LEMMA BeginKeeps ==
  ASSUME EvalIInv, NEW j \in EvalJobs, BeginEval(j)
  PROVE  EvalIInv'
<1> DEFINE r == eval[j].id
           row == [run[r] EXCEPT !.status = "running"]
<1>1. eval[j].pc = "queued" /\ Commit(j, row, "resolve") /\ mixed' = mixed /\ lost' = lost
  BY DEF BeginEval
<1>2. eval[j].pc \in AtWork
  BY <1>1 DEF AtWork
<1>3. r \in RunIds /\ run[r] \in Rows /\ PlanKept(eval[j])
  BY <1>2, AtWorkFacts
<1>4. /\ row \in Rows /\ row.status = "running" /\ row.answered = run[r].answered
      /\ row.failed = run[r].failed /\ row.quality = run[r].quality
  BY <1>3, EvalRows
<1>5. \A e \in EvalRecs : e.id = r /\ e.pc = "resolve" /\ e.suite = eval[j].suite
                          /\ e.prompts = eval[j].prompts
        => PlanKept(e) /\ \A rw, g : TracesLeft(e, rw, g)
  BY <1>1, <1>3 DEF PlanKept, TracesLeft, AtWork
<1>6. lost \subseteq RunIds
  BY DEF EvalIInv, EvalsTypeOK
<1>7. "resolve" \in AtWork \union {"over"} /\ "resolve" # "over"
  BY DEF AtWork
<1>8. row.status # "none" /\ row.status # "success"
  BY <1>4
<1> HIDE DEF row, r
<1> QED
  BY <1>1, <1>2, <1>3, <1>4, <1>5, <1>6, <1>7, <1>8, Commits DEF r

(* A job that moves on, or ends, without a write to its row.                *)
LEMMA MovesKeep ==
  ASSUME EvalIInv, NEW j \in EvalJobs, eval[j].pc \in AtWork,
         UNCHANGED <<run, mixed>>, faults' \in 0..MaxFaults,
         lost \subseteq lost', lost' \subseteq RunIds,
         \/ Over(j)
         \/ \E place \in AtWork :
              /\ Proceeds(j, place) /\ UNCHANGED stranded
              /\ \A e \in EvalRecs :
                   /\ e.id = eval[j].id /\ e.pc = place /\ e.suite = eval[j].suite
                   /\ e.prompts = eval[j].prompts
                   => PlanKept(e) /\ TracesLeft(e, run[eval[j].id], Gone(eval[j].id))
  PROVE  EvalIInv'
<1> PICK r \in RunIds : r = eval[j].id
  BY AtWorkFacts
<1>1. /\ eval[j] \in EvalRecs /\ r \in RunIds /\ run[r] \in Rows
      /\ run \in [RunIds -> Rows] /\ stranded \subseteq RunIds
  BY AtWorkFacts DEF EvalIInv, EvalsTypeOK
<1>f. \A p \in AtWork \union {"none", "over"} :
        /\ [eval[j] EXCEPT !.pc = p] \in EvalRecs
        /\ [eval[j] EXCEPT !.pc = p].pc = p /\ [eval[j] EXCEPT !.pc = p].id = eval[j].id
        /\ [eval[j] EXCEPT !.pc = p].suite = eval[j].suite
        /\ [eval[j] EXCEPT !.pc = p].prompts = eval[j].prompts
  BY <1>1, EvalMoved
<1>u. /\ run' \in [RunIds -> Rows] /\ \A s \in RunIds : s # r => run'[s] = run[s]
      /\ run'[r] = run[r] /\ There(r)' = There(r) /\ LiveRun(r)' = LiveRun(r)
  BY <1>1 DEF There, LiveRun
<1>e. eval \in [EvalJobs -> EvalRecs]
  BY AtWorkFacts
<1>2. CASE Over(j)
  <2> DEFINE e == [eval[j] EXCEPT !.pc = "over"]
  <2>1. e \in EvalRecs /\ e.pc = "over" /\ e.id = r
    BY <1>f
  <2>2. eval' = [eval EXCEPT ![j] = e]
    BY <1>2, <1>e DEF Over, Proceeds
  <2>3. PlanKept(e) /\ TracesLeft(e, run'[r], r \in lost' \/ r \in mixed)
    BY <2>1 DEF PlanKept, TracesLeft, AtWork
  <2>4. /\ stranded \subseteq stranded' /\ stranded' \subseteq RunIds
        /\ LiveRun(r)' => r \in stranded'
    BY <1>1, <1>2, <1>u DEF Over
  <2> HIDE DEF e
    <2> QED
    BY <1>1, <1>u, <2>1, <2>2, <2>3, <2>4, JobSteps
<1>3. CASE \E place \in AtWork :
              /\ Proceeds(j, place) /\ UNCHANGED stranded
              /\ \A e \in EvalRecs :
                   /\ e.id = eval[j].id /\ e.pc = place /\ e.suite = eval[j].suite
                   /\ e.prompts = eval[j].prompts
                   => PlanKept(e) /\ TracesLeft(e, run[eval[j].id], Gone(eval[j].id))
  <2> PICK place \in AtWork :
              /\ Proceeds(j, place) /\ UNCHANGED stranded
              /\ \A e \in EvalRecs :
                   /\ e.id = eval[j].id /\ e.pc = place /\ e.suite = eval[j].suite
                   /\ e.prompts = eval[j].prompts
                   => PlanKept(e) /\ TracesLeft(e, run[eval[j].id], Gone(eval[j].id))
    BY <1>3
  <2> DEFINE e == [eval[j] EXCEPT !.pc = place]
  <2>1. e \in EvalRecs /\ e.pc = place /\ e.id = r /\ e.suite = eval[j].suite
        /\ e.prompts = eval[j].prompts
    BY <1>f
  <2>2. eval' = [eval EXCEPT ![j] = e]
    BY <1>e DEF Proceeds
  <2>3. PlanKept(e) /\ TracesLeft(e, run[r], Gone(r))
    BY <2>1
  <2>4. TracesLeft(e, run'[r], r \in lost' \/ r \in mixed)
    BY <2>3, <1>u DEF TracesLeft, Gone
  <2> HIDE DEF e
  <2> QED
    BY <1>1, <1>u, <2>1, <2>2, <2>3, <2>4, JobSteps
<1> QED
  BY <1>2, <1>3

LEMMA ResolveKeeps ==
  ASSUME EvalIInv, NEW j \in EvalJobs, Resolve(j)
  PROVE  EvalIInv'
<1>1. eval[j].pc = "resolve" /\ eval[j].pc \in AtWork
  BY DEF Resolve, AtWork
<1>2. PlanKept(eval[j]) /\ eval[j] \in EvalRecs /\ eval[j].id \in RunIds
  BY <1>1, AtWorkFacts
<1>3. /\ UNCHANGED <<run, mixed>> /\ lost' = lost /\ lost \subseteq RunIds
      /\ faults' \in 0..MaxFaults
  BY DEF Resolve, EvalIInv, EvalsTypeOK
<1>4. CASE Over(j)
  BY <1>1, <1>3, <1>4, MovesKeep
<1>5. CASE Proceeds(j, "suite") /\ UNCHANGED stranded /\ eval[j].suite
  <2>1. \A e \in EvalRecs : e.id = eval[j].id /\ e.pc = "suite" /\ e.suite = eval[j].suite
          => PlanKept(e) /\ TracesLeft(e, run[eval[j].id], Gone(eval[j].id))
    BY <1>2, <1>5 DEF PlanKept, TracesLeft
  <2>2. "suite" \in AtWork
    BY DEF AtWork
  <2> QED
    BY <1>1, <1>3, <1>5, <2>1, <2>2, MovesKeep
<1>6. CASE Proceeds(j, "prompts") /\ UNCHANGED stranded /\ ~eval[j].suite
  <2>1. eval[j].prompts > 0
    BY <1>1, <1>2, <1>6 DEF PlanKept
  <2>2. \A e \in EvalRecs : e.id = eval[j].id /\ e.pc = "prompts" /\ e.suite = eval[j].suite
            /\ e.prompts = eval[j].prompts
          => PlanKept(e) /\ TracesLeft(e, run[eval[j].id], Gone(eval[j].id))
    BY <1>2, <1>6, <2>1 DEF PlanKept, TracesLeft
  <2>3. "prompts" \in AtWork
    BY DEF AtWork
  <2> QED
    BY <1>1, <1>3, <1>6, <2>2, <2>3, MovesKeep
<1> QED
  BY <1>4, <1>5, <1>6 DEF Resolve

LEMMA CancelKeeps ==
  ASSUME EvalIInv, NEW j \in EvalJobs, CancelEval(j)
  PROVE  EvalIInv'
<1>1. /\ eval[j].pc \in AtWork /\ Over(j) /\ UNCHANGED <<run, mixed>> /\ lost' = lost
      /\ faults' \in 0..MaxFaults /\ lost \subseteq RunIds
  BY EvalsBounds DEF CancelEval, Fault, EvalIInv, EvalsTypeOK
<1> QED
  BY <1>1, MovesKeep

LEMMA SuiteKeeps ==
  ASSUME EvalIInv, NEW j \in EvalJobs, Suite(j)
  PROVE  EvalIInv'
<1> DEFINE r == eval[j].id
           row == [run[r] EXCEPT !.quality = TRUE]
<1>1. eval[j].pc = "suite" /\ eval[j].pc \in AtWork /\ mixed' = mixed
  BY DEF Suite, AtWork
<1>2. /\ r \in RunIds /\ run[r] \in Rows /\ PlanKept(eval[j]) /\ eval[j] \in EvalRecs
      /\ lost \subseteq RunIds /\ faults \in 0..MaxFaults
  BY <1>1, AtWorkFacts DEF EvalIInv, EvalsTypeOK
<1>3. eval[j].suite
  BY <1>1, <1>2 DEF PlanKept
<1>4. /\ row \in Rows /\ row.status = run[r].status /\ row.answered = run[r].answered
      /\ row.failed = run[r].failed /\ row.quality = TRUE
  BY <1>2, EvalRows
<1>5. CASE Proceeds(j, "failing") /\ UNCHANGED <<run, stranded, lost, faults>>
  <2>1. \A e \in EvalRecs : e.id = eval[j].id /\ e.pc = "failing"
          => PlanKept(e) /\ TracesLeft(e, run[eval[j].id], Gone(eval[j].id))
    BY <1>2 DEF PlanKept, TracesLeft
  <2>2. "failing" \in AtWork
    BY DEF AtWork
  <2> QED
    BY <1>1, <1>2, <1>5, <2>1, <2>2, MovesKeep
<1>6. CASE Commit(j, row, "prompts") /\ Forgot(j, row)
  <2>0. lost' = IF run'[r] = row THEN lost ELSE lost \union {r}
    BY <1>6 DEF Forgot
  <2>1. lost \subseteq lost' /\ lost' \subseteq RunIds
    BY <2>0, <1>2
  <2>2. \A e \in EvalRecs : e.id = r /\ e.pc = "prompts" /\ e.suite = eval[j].suite
                          /\ e.prompts = eval[j].prompts
        => /\ PlanKept(e) /\ TracesLeft(e, row, r \in lost' \/ r \in mixed)
           /\ run'[r] # row => TracesLeft(e, run[r], r \in lost' \/ r \in mixed)
    BY <1>2, <1>3, <1>4, <2>0 DEF PlanKept, TracesLeft
  <2>3. "prompts" \in AtWork \union {"over"} /\ "prompts" \in AtWork /\ "prompts" # "over"
    BY DEF AtWork
  <2>4. CASE There(r)
    <3>1. row.status # "none"
      BY <2>4, <1>4 DEF There
    <3> HIDE DEF row, r
    <3> QED
      BY <1>1, <1>2, <1>4, <1>6, <2>1, <2>2, <2>3, <3>1, Commits DEF r
  <2>5. CASE ~There(r)
    <3>1. Over(j) /\ UNCHANGED <<run, faults>>
      BY <1>6, <2>5 DEF Commit
    <3> QED
      BY <1>1, <1>2, <2>1, <3>1, MovesKeep
  <2> QED BY <2>4, <2>5
<1> QED
  BY <1>5, <1>6 DEF Suite

LEMMA FailKeeps ==
  ASSUME EvalIInv, NEW j \in EvalJobs, FailEval(j)
  PROVE  EvalIInv'
<1> DEFINE r == eval[j].id
           row == [run[r] EXCEPT !.status = "error"]
<1>1. /\ eval[j].pc = "failing" /\ Commit(j, row, "over") /\ mixed' = mixed /\ lost' = lost
      /\ eval[j].pc \in AtWork
  BY DEF FailEval, Failed, AtWork
<1>3. r \in RunIds /\ run[r] \in Rows /\ PlanKept(eval[j])
  BY <1>1, AtWorkFacts
<1>4. /\ row \in Rows /\ row.status = "error" /\ row.answered = run[r].answered
      /\ row.failed = run[r].failed /\ row.quality = run[r].quality
  BY <1>3, EvalRows
<1>6. lost \subseteq RunIds
  BY DEF EvalIInv, EvalsTypeOK
<1>7. "over" \in AtWork \union {"over"} 
  OBVIOUS
<1>8. row.status # "none" /\ row.status # "success" /\ row.status \notin {"pending", "running"}
  BY <1>4
<1> HIDE DEF row, r
<1> QED
  BY <1>1, <1>3, <1>4, <1>6, <1>7, <1>8, Commits DEF r

LEMMA FinalizeKeeps ==
  ASSUME EvalIInv, NEW j \in EvalJobs, Finalize(j)
  PROVE  EvalIInv'
<1> DEFINE r == eval[j].id
           row == [run[r] EXCEPT !.status = "success"]
<1>1. /\ eval[j].pc = "prompts" /\ eval[j].prompts = 0 /\ mixed' = mixed /\ lost' = lost
      /\ eval[j].pc \in AtWork
  BY DEF Finalize, AtWork
<1>3. /\ r \in RunIds /\ run[r] \in Rows /\ PlanKept(eval[j]) /\ eval[j] \in EvalRecs
      /\ TracesLeft(eval[j], run[r], Gone(r))
  BY <1>1, AtWorkFacts
<1>4. /\ row \in Rows /\ row.status = "success" /\ row.answered = run[r].answered
      /\ row.failed = run[r].failed /\ row.quality = run[r].quality
  BY <1>3, EvalRows
<1>6. lost \subseteq RunIds /\ faults \in 0..MaxFaults
  BY DEF EvalIInv, EvalsTypeOK
<1>7. CASE Proceeds(j, "failing") /\ UNCHANGED <<run, stranded, faults>>
  <2>1. \A e \in EvalRecs : e.id = eval[j].id /\ e.pc = "failing"
          => PlanKept(e) /\ TracesLeft(e, run[eval[j].id], Gone(eval[j].id))
    BY <1>3 DEF PlanKept, TracesLeft
  <2>2. "failing" \in AtWork
    BY DEF AtWork
  <2> QED
    BY <1>1, <1>6, <1>7, <2>1, <2>2, MovesKeep
<1>8. CASE ~NothingAnswered(run[r]) /\ Commit(j, row, "over")
  <2>1. CASE There(r)
    <3>1. Gone(r) \/ run[r].quality \/ run[r].answered \/ run[r].failed
      BY <1>1, <1>3, <2>1 DEF TracesLeft, There
    <3>2. run[r].failed => run[r].answered
      BY <1>8 DEF NothingAnswered
    <3>3. row.answered \/ row.quality \/ r \in lost' \/ r \in mixed
      BY <3>1, <3>2, <1>4, <1>1 DEF Gone
    <3>4. row.status # "none" /\ row.status \notin {"pending", "running"} /\ "over" \in AtWork \union {"over"}
      BY <1>4
    <3> HIDE DEF row, r
    <3> QED
      BY <1>1, <1>3, <1>4, <1>6, <1>8, <3>3, <3>4, Commits DEF r
  <2>2. CASE ~There(r)
    <3>1. Over(j) /\ UNCHANGED <<run, faults>>
      BY <1>8, <2>2 DEF Commit
    <3> QED
      BY <1>1, <1>3, <1>6, <3>1, MovesKeep
  <2> QED BY <2>1, <2>2
<1> QED
  BY <1>7, <1>8 DEF Finalize

LEMMA MeasureKeeps ==
  ASSUME EvalIInv, NEW j \in EvalJobs, Measure(j)
  PROVE  EvalIInv'
<1> PICK r \in RunIds : r = eval[j].id
  <2>1. eval[j].pc \in AtWork
    BY DEF Measure, AtWork
  <2> QED
    BY <2>1, AtWorkFacts
<1> DEFINE less == [eval[j] EXCEPT !.prompts = @ - 1]
<1>1. /\ eval[j].pc = "prompts" /\ eval[j].prompts > 0 /\ mixed' = mixed
      /\ eval[j].pc \in AtWork
  BY DEF Measure, AtWork
<1>3. /\ r \in RunIds /\ run[r] \in Rows /\ PlanKept(eval[j]) /\ eval[j] \in EvalRecs
      /\ TracesLeft(eval[j], run[r], Gone(r))
      /\ eval \in [EvalJobs -> EvalRecs] /\ run \in [RunIds -> Rows]
  BY <1>1, AtWorkFacts
<1>4. /\ lost \subseteq RunIds /\ faults \in 0..MaxFaults /\ stranded \subseteq RunIds
      /\ Fault => faults' \in 0..MaxFaults
  BY EvalsBounds DEF EvalIInv, EvalsTypeOK, Fault
<1>5. /\ less \in EvalRecs /\ less.pc = "prompts" /\ less.id = r
      /\ less.suite = eval[j].suite /\ less.prompts = eval[j].prompts - 1
  BY <1>1, <1>3, EvalRecFacts
<1>6. PlanKept(less)
  BY <1>3, <1>5 DEF PlanKept
<1>p. \A a \in BOOLEAN : eval' = [eval EXCEPT ![j].prompts = @ - 1] => eval' = [eval EXCEPT ![j] = less]
  BY <1>3
<1>7. ASSUME NEW a \in BOOLEAN, There(r), run' = [run EXCEPT ![r] = Measured(j, a)],
             eval' = [eval EXCEPT ![j].prompts = @ - 1], UNCHANGED <<stranded, lost, faults>>
      PROVE  EvalIInv'
  <2> DEFINE row == Measured(j, a)
  <2>0. row = [run[r] EXCEPT !.answered = @ \/ a, !.failed = @ \/ ~a]
    BY DEF Measured
  <2>1. \A b \in BOOLEAN :
        LET row2 == [run[r] EXCEPT !.answered = @ \/ b, !.failed = @ \/ ~b] IN
           /\ row2 \in Rows /\ row2.status = run[r].status
           /\ row2.answered = (run[r].answered \/ b)
           /\ row2.failed = (run[r].failed \/ ~b) /\ row2.quality = run[r].quality
    BY <1>3, EvalRows
  <2>2. /\ row \in Rows /\ row.status = run[r].status
        /\ row.answered = (run[r].answered \/ a)
        /\ row.failed = (run[r].failed \/ ~a) /\ row.quality = run[r].quality
    BY <2>0, <2>1
  <2>3. run' \in [RunIds -> Rows] /\ run'[r] = row /\ \A s \in RunIds : s # r => run'[s] = run[s]
    BY <2>2, <1>3, <1>7
  <2>4. TracesLeft(less, row, r \in lost' \/ r \in mixed)
    BY <2>2, <1>1, <1>3, <1>5, <1>7 DEF TracesLeft, Gone
  <2>5. LiveRun(r)' => less.pc \in AtWork \/ r \in stranded'
    BY <1>5 DEF AtWork
  <2>6. There(r)' => There(r)
    BY <1>7
  <2>7. run'[r].status = "success" => run[r].status = "success"
    BY <2>2, <2>3
  <2>8. /\ run[r].answered => run'[r].answered
        /\ run[r].failed => run'[r].failed
        /\ run[r].quality => run'[r].quality
    BY <2>2, <2>3
  <2>9. eval' = [eval EXCEPT ![j] = less] /\ TracesLeft(less, run'[r], r \in lost' \/ r \in mixed)
    BY <1>p, <1>7, <2>3, <2>4
  <2> HIDE DEF less, row
  <2> QED
    BY <1>1, <1>3, <1>4, <1>5, <1>6, <1>7, <2>3, <2>5, <2>6, <2>7, <2>8, <2>9, JobSteps
<1>8. ASSUME There(r), Fault, UNCHANGED run, lost' = lost \union {r},
             eval' = [eval EXCEPT ![j].prompts = @ - 1], UNCHANGED stranded
      PROVE  EvalIInv'
  <2>1. run'[r] = run[r] /\ lost \subseteq lost' /\ lost' \subseteq RunIds /\ r \in lost'
    BY <1>3, <1>4, <1>8
  <2>2. TracesLeft(less, run'[r], r \in lost' \/ r \in mixed)
    BY <2>1 DEF TracesLeft
  <2>3. LiveRun(r)' => less.pc \in AtWork \/ r \in stranded'
    BY <1>5 DEF AtWork
  <2>4. There(r)' => There(r)
    BY <1>8
  <2>5. eval' = [eval EXCEPT ![j] = less]
    BY <1>p, <1>8
  <2> HIDE DEF less
  <2> QED
    BY <1>1, <1>3, <1>4, <1>5, <1>6, <1>8, <2>1, <2>2, <2>3, <2>4, <2>5, JobSteps
<1>9. ASSUME Fault, UNCHANGED run, lost' = lost \union {r},
             Proceeds(j, "failing"), UNCHANGED stranded
      PROVE  EvalIInv'
  <2>1. \A e \in EvalRecs : e.id = eval[j].id /\ e.pc = "failing"
          => PlanKept(e) /\ TracesLeft(e, run[eval[j].id], Gone(eval[j].id))
    BY <1>3 DEF PlanKept, TracesLeft
  <2>2. "failing" \in AtWork
    BY DEF AtWork
  <2>3. lost \subseteq lost' /\ lost' \subseteq RunIds
    BY <1>9, <1>3, <1>4
  <2> QED
    BY <1>1, <1>4, <1>9, <2>1, <2>2, <2>3, MovesKeep
<1>10. ASSUME Over(j), UNCHANGED run, faults' \in 0..MaxFaults, lost \subseteq lost', lost' \subseteq RunIds
      PROVE  EvalIInv'
  BY <1>1, <1>10, MovesKeep
<1>11. lost \subseteq lost \union {r} /\ lost \union {r} \subseteq RunIds
  BY <1>3, <1>4
<1> QED
  BY <1>4, <1>7, <1>8, <1>9, <1>10, <1>11 DEF Measure

LEMMA EvalCreateKeeps ==
  ASSUME EvalIInv, NEW j \in EvalJobs, CreateEval(j)
  PROVE  EvalIInv'
<1> DEFINE r == NextId
<1>1. eval[j].pc = "none" /\ r \in RunIds /\ UNCHANGED faults
  BY DEF CreateEval
<1>2. PICK suite \in BOOLEAN, n \in 0..MaxPrompts :
        /\ suite \/ n > 0
        /\ eval' = [eval EXCEPT ![j] =
             [pc |-> "queued", id |-> NextId, suite |-> suite, prompts |-> n]]
  BY DEF CreateEval
<1>3. /\ run' = [run EXCEPT ![r] = NewRun]
      /\ stranded' = stranded \ {r} /\ lost' = lost \ {r}
      /\ mixed' = IF Driving(r) = {} THEN mixed \ {r} ELSE mixed \union {r}
  BY DEF CreateEval
<1> DEFINE e == [pc |-> "queued", id |-> r, suite |-> suite, prompts |-> n]
<1>4. run \in [RunIds -> Rows] /\ eval \in [EvalJobs -> EvalRecs]
  BY DEF EvalIInv, EvalsTypeOK, EvalRecs
<1>5. e \in EvalRecs /\ e.pc = "queued" /\ e.id = r
  BY <1>1, EvalRunId DEF EvalRecs, AtWork
<1>6. eval' \in [EvalJobs -> EvalRecs] /\ eval'[j] = e /\ \A k \in EvalJobs : k # j => eval'[k] = eval[k]
  BY <1>2, <1>4, <1>5
<1>7. NewRun \in Rows /\ NewRun.status = "pending"
  BY DEF NewRun, NoRun, Rows
<1>8. /\ run' \in [RunIds -> Rows] /\ run'[r] = NewRun
      /\ \A s \in RunIds : s # r => run'[s] = run[s]
  BY <1>1, <1>3, <1>4, <1>7
<1>9. EvalsTypeOK'
  BY <1>1, <1>3, <1>6, <1>8 DEF EvalIInv, EvalsTypeOK, EvalRecs
<1>10. PlanKept(e) /\ \A rw, g : TracesLeft(e, rw, g)
  BY <1>1, <1>2, <1>5 DEF PlanKept, TracesLeft
<1> HIDE DEF e
<1>11. ASSUME NEW k \in EvalJobs PROVE PlanKept(eval'[k])
  BY <1>6, <1>10 DEF EvalIInv
<1>12. ASSUME NEW k \in EvalJobs
       PROVE  TracesLeft(eval'[k], run'[eval'[k].id], eval'[k].id \in lost' \/ eval'[k].id \in mixed')
  <2>1. CASE k = j
    BY <2>1, <1>6, <1>10
  <2>2. CASE k # j
    <3>1. eval'[k] = eval[k] /\ TracesLeft(eval[k], run[eval[k].id], Gone(eval[k].id))
      BY <2>2, <1>6 DEF EvalIInv
    <3>2. eval[k].pc = "prompts" => eval[k].id \in RunIds /\ eval[k].pc \in AtWork
      BY DEF EvalIInv, PlanKept, AtWork
    <3>3. eval[k].pc = "prompts" /\ eval[k].id = r => Driving(r) # {}
      BY <3>2 DEF Driving
    <3>4. CASE eval[k].id = r
      BY <3>1, <3>3, <3>4, <1>3 DEF TracesLeft
    <3>5. CASE eval[k].id # r
      BY <3>1, <3>2, <3>5, <1>3, <1>8 DEF TracesLeft, Gone
    <3> QED BY <3>4, <3>5
  <2> QED BY <2>1, <2>2
<1>13. ASSUME NEW s \in RunIds, LiveRun(s)'
       PROVE  Driving(s)' # {} \/ s \in stranded'
  <2>1. CASE s = r
    <3>1. j \in Driving(s)'
      BY <2>1, <1>5, <1>6 DEF Driving, AtWork
    <3> QED BY <3>1
  <2>2. CASE s # r
    <3>1. LiveRun(s)
      BY <1>13, <2>2, <1>8 DEF LiveRun
    <3>2. Driving(s) # {} \/ s \in stranded
      BY <3>1 DEF EvalIInv, LiveRunDriven
    <3>3. ASSUME NEW k \in EvalJobs, k \in Driving(s)
          PROVE  k \in Driving(s)'
      <4>1. k # j
        BY <3>3, <1>1 DEF Driving, AtWork
      <4> QED
        BY <3>3, <4>1, <1>6 DEF Driving
    <3> QED
      BY <3>2, <3>3, <2>2, <1>3 DEF Driving
  <2> QED BY <2>1, <2>2
<1>14. ASSUME NEW s \in RunIds, run'[s].status = "success"
       PROVE  run'[s].answered \/ run'[s].quality \/ s \in lost' \/ s \in mixed'
  <2>1. s # r /\ run'[s] = run[s]
    BY <1>14, <1>7, <1>8
  <2>2. run[s].answered \/ run[s].quality \/ s \in lost \/ s \in mixed
    BY <2>1, <1>14 DEF EvalIInv, GreenMeansMeasured
  <2> QED
    BY <2>1, <2>2, <1>3
<1>15. LiveRunDriven'
  BY <1>13 DEF LiveRunDriven
<1>16. GreenMeansMeasured'
  BY <1>14 DEF GreenMeansMeasured
<1> QED
  BY <1>9, <1>11, <1>12, <1>15, <1>16 DEF EvalIInv, Gone

LEMMA DeleteKeeps ==
  ASSUME EvalIInv, NEW r \in RunIds, DeleteEval(r)
  PROVE  EvalIInv'
<1>1. run' = [run EXCEPT ![r] = NoRun] /\ UNCHANGED <<eval, stranded, mixed, lost, faults>>
  BY DEF DeleteEval, History
<1>2. NoRun \in Rows /\ NoRun.status = "none"
  BY DEF NoRun, Rows
<1>3. /\ run' \in [RunIds -> Rows] /\ run'[r] = NoRun
      /\ \A s \in RunIds : s # r => run'[s] = run[s]
  BY <1>1, <1>2 DEF EvalIInv, EvalsTypeOK
<1>4. EvalsTypeOK'
  BY <1>1, <1>3 DEF EvalIInv, EvalsTypeOK
<1>5. ASSUME NEW k \in EvalJobs
      PROVE  PlanKept(eval'[k]) /\ TracesLeft(eval'[k], run'[eval'[k].id], eval'[k].id \in lost' \/ eval'[k].id \in mixed')
  <2>1. eval'[k] = eval[k] /\ PlanKept(eval[k]) /\ TracesLeft(eval[k], run[eval[k].id], Gone(eval[k].id))
    BY <1>1 DEF EvalIInv
  <2>2. eval[k].pc = "prompts" => eval[k].id \in RunIds
    BY <2>1 DEF PlanKept, AtWork
  <2>3. CASE eval[k].id = r
    BY <2>1, <2>3, <1>2, <1>3 DEF TracesLeft
  <2>4. CASE eval[k].id # r
    BY <2>1, <2>2, <2>4, <1>1, <1>3 DEF TracesLeft, Gone
  <2> QED BY <2>3, <2>4
<1>6. ASSUME NEW s \in RunIds, LiveRun(s)'
      PROVE  Driving(s)' # {} \/ s \in stranded'
  <2>1. s # r /\ LiveRun(s)
    BY <1>6, <1>2, <1>3 DEF LiveRun
  <2>2. Driving(s) # {} \/ s \in stranded
    BY <2>1 DEF EvalIInv, LiveRunDriven
  <2> QED
    BY <2>2, <1>1 DEF Driving
<1>7. ASSUME NEW s \in RunIds, run'[s].status = "success"
      PROVE  run'[s].answered \/ run'[s].quality \/ s \in lost' \/ s \in mixed'
  <2>1. run'[s] = run[s]
    BY <1>7, <1>2, <1>3
  <2> QED
    BY <2>1, <1>1, <1>7 DEF EvalIInv, GreenMeansMeasured
<1>8. LiveRunDriven'
  BY <1>6 DEF LiveRunDriven
<1>9. GreenMeansMeasured'
  BY <1>7 DEF GreenMeansMeasured
<1> QED
  BY <1>4, <1>5, <1>8, <1>9 DEF EvalIInv, Gone

LEMMA RestartKeeps ==
  ASSUME EvalIInv, EvalsRestart
  PROVE  EvalIInv'
<1>1. run \in [RunIds -> Rows] /\ eval \in [EvalJobs -> EvalRecs]
      /\ mixed' = mixed /\ lost' = lost /\ stranded' = {} /\ faults' \in 0..MaxFaults
  BY EvalsBounds DEF EvalIInv, EvalsTypeOK, EvalRecs, EvalsRestart, Fault
<1>2. ASSUME NEW row \in Rows
      PROVE  /\ Swept(row) \in Rows /\ Swept(row).status \notin {"pending", "running"}
             /\ Swept(row).status = "success" => Swept(row) = row
  <2>1. /\ Failed(row) \in Rows /\ Failed(row).status = "error"
    BY EvalRows DEF Failed
  <2> QED
    BY <2>1 DEF Swept
<1>3. /\ run' \in [RunIds -> Rows]
      /\ \A s \in RunIds : /\ run'[s].status \notin {"pending", "running"}
                           /\ run'[s].status = "success" => run'[s] = run[s]
  <2>1. run' = [r \in RunIds |-> Swept(run[r])]
    BY DEF EvalsRestart
  <2>2. \A s \in RunIds : run'[s] = Swept(run[s]) /\ run[s] \in Rows
    BY <2>1, <1>1
  <2> QED
    BY <2>1, <2>2, <1>2
<1>4. ASSUME NEW k \in EvalJobs
      PROVE  eval'[k] \in EvalRecs /\ eval'[k].pc \notin AtWork
  <2>1. /\ eval[k] \in EvalRecs
        /\ [eval[k] EXCEPT !.pc = "over"] \in EvalRecs
        /\ [eval[k] EXCEPT !.pc = "over"].pc = "over"
    BY <1>1, EvalRecFacts
  <2>2. eval'[k] = IF eval[k].pc \in AtWork THEN [eval[k] EXCEPT !.pc = "over"] ELSE eval[k]
    BY DEF EvalsRestart
  <2> QED
    BY <2>1, <2>2 DEF AtWork
<1>5. eval' = [j \in EvalJobs |-> eval'[j]]
  BY DEF EvalsRestart
<1>6. eval' \in [EvalJobs -> EvalRecs]
  BY <1>4, <1>5
<1>7. EvalsTypeOK'
  BY <1>1, <1>3, <1>6 DEF EvalIInv, EvalsTypeOK, EvalRecs
<1>8. ASSUME NEW k \in EvalJobs
      PROVE  PlanKept(eval'[k]) /\ TracesLeft(eval'[k], run'[eval'[k].id], eval'[k].id \in lost' \/ eval'[k].id \in mixed')
  BY <1>4 DEF PlanKept, TracesLeft, AtWork
<1>9. LiveRunDriven'
  BY <1>3 DEF LiveRunDriven, LiveRun
<1>10. ASSUME NEW s \in RunIds, run'[s].status = "success"
       PROVE  run'[s].answered \/ run'[s].quality \/ s \in lost' \/ s \in mixed'
  BY <1>1, <1>3, <1>10 DEF EvalIInv, GreenMeansMeasured
<1>11. GreenMeansMeasured'
  BY <1>10 DEF GreenMeansMeasured
<1> QED
  BY <1>7, <1>8, <1>9, <1>11 DEF EvalIInv, Gone

(* Live runs have a driver, and green runs measured something, for any      *)
(* number of jobs, rows, prompts and faults.                                *)
THEOREM EvaluationsAreKept == EvalsSpec => []EvalsInv
<1>1. EvalsInit => EvalIInv
  BY EvalsInitially
<1>2. EvalIInv /\ [EvalsNext]_evalVars => EvalIInv'
  <2> SUFFICES ASSUME EvalIInv, [EvalsNext]_evalVars PROVE EvalIInv'
    OBVIOUS
  <2>1. CASE UNCHANGED evalVars
    BY <2>1 DEF evalVars, EvalIInv, EvalsTypeOK, Gone, LiveRunDriven, LiveRun,
                Driving, GreenMeansMeasured
  <2>2. ASSUME NEW j \in EvalJobs,
               \/ CreateEval(j) \/ BeginEval(j) \/ Resolve(j) \/ Suite(j)
               \/ Measure(j) \/ Finalize(j) \/ FailEval(j) \/ CancelEval(j)
        PROVE  EvalIInv'
    BY <2>2, EvalCreateKeeps, BeginKeeps, ResolveKeeps, SuiteKeeps, MeasureKeeps,
       FinalizeKeeps, FailKeeps, CancelKeeps
  <2> QED
    BY <2>1, <2>2, DeleteKeeps, RestartKeeps DEF EvalsNext
<1>3. EvalIInv => EvalsInv
  BY DEF EvalIInv, EvalsInv
<1> QED
  BY <1>1, <1>2, <1>3, PTL DEF EvalsSpec
-----------------------------------------------------------------------------
TableNames == {"endpoints", "instances", "promotions", "schedules", "evals"}

(* What a table of two databases says is the same.                          *)
SameTable(name, d1, d2) ==
  /\ name = "endpoints" => d1.endpoint = d2.endpoint /\ d1.current = d2.current
  /\ name = "instances" => d1.insts = d2.insts /\ d1.members = d2.members
  /\ name = "promotions" => d1.promo = d2.promo
  /\ name = "schedules" => d1.scheds = d2.scheds
  /\ name = "evals" => d1.evaluated = d2.evaluated

(* What a bundle that was not written to while it was read holds: rows that *)
(* refer to rows of it, as far as it covers what they refer to.             *)
RowsHold(b) ==
  /\ b.rows.scheds \subseteq b.rows.insts
  /\ b.rows.evaluated \in b.rows.insts \union {NoRef, NoEntry}
  /\ "endpoints" \in b.has => RefsHold(b.rows)
  /\ "endpoints" \notin b.has => b.rows.current = NoRef

(* A bundle being read and not written to: the tables that are not to come  *)
(* are those of the database, and the others are empty.                     *)
ReadSoFar(b, left) ==
  /\ Covered(left) \subseteq b.has
  /\ \A name \in b.has \ Covered(left) : SameTable(name, b.rows, db)
  /\ \A name \in TableNames \ b.has : SameTable(name, b.rows, EmptyDb)

Exports == [pc : {"idle", "reading"}, left : Seq(TableNames), bundle : Bundles]

BackupIInv ==
  /\ db \in Db /\ RefsHold(db)
  /\ export \in Exports
  /\ export.pc = "reading" /\ ~export.bundle.torn => ReadSoFar(export.bundle, export.left)
  /\ bundles \in Seq(Bundles)
  /\ \A k \in DOMAIN bundles : ~bundles[k].torn => RowsHold(bundles[k])
  /\ restored.outcome \in {"none", "done", "aborted"}
  /\ restored.of \in {0} \union DOMAIN bundles
  /\ restored.outcome = "aborted" => restored.of # 0
  /\ AbortHasCause
  /\ objects \subseteq DOMAIN bundles
  /\ pruning \in SUBSET SUBSET DOMAIN bundles
  /\ NewestKept
  /\ writes \in 0..MaxWrites

LEMMA VersionSeqs ==
  /\ Tables \in Seq(TableNames) /\ Len(Tables) = 5
  /\ BeforeEndpoints \in Seq(TableNames) /\ Len(BeforeEndpoints) = 3
  /\ BeforeEvals \in Seq(TableNames) /\ Len(BeforeEvals) = 2
<1>1. /\ "endpoints" \in TableNames /\ "instances" \in TableNames /\ "promotions" \in TableNames
      /\ "schedules" \in TableNames /\ "evals" \in TableNames
  BY DEF TableNames
<1>2. /\ <<"endpoints", "instances", "promotions", "schedules", "evals">> \in Seq(TableNames)
      /\ Len(<<"endpoints", "instances", "promotions", "schedules", "evals">>) = 5
  BY <1>1
<1>3. /\ <<"instances", "schedules", "evals">> \in Seq(TableNames)
      /\ Len(<<"instances", "schedules", "evals">>) = 3
  BY <1>1
<1>4. /\ <<"instances", "schedules">> \in Seq(TableNames)
      /\ Len(<<"instances", "schedules">>) = 2
  BY <1>1
<1> QED
  BY <1>2, <1>3, <1>4 DEF Tables, BeforeEndpoints, BeforeEvals

LEMMA CoveredIs ==
  /\ Covered(Tables) = TableNames
  /\ Covered(BeforeEndpoints) = {"instances", "schedules", "evals"}
  /\ Covered(BeforeEvals) = {"instances", "schedules"}
<1>1. /\ DOMAIN Tables = {1, 2, 3, 4, 5} /\ DOMAIN BeforeEndpoints = {1, 2, 3}
      /\ DOMAIN BeforeEvals = {1, 2}
  BY VersionSeqs
<1>2. /\ Tables[1] = "endpoints" /\ Tables[2] = "instances" /\ Tables[3] = "promotions"
      /\ Tables[4] = "schedules" /\ Tables[5] = "evals"
  BY DEF Tables
<1>3. /\ BeforeEndpoints[1] = "instances" /\ BeforeEndpoints[2] = "schedules"
      /\ BeforeEndpoints[3] = "evals"
  BY DEF BeforeEndpoints
<1>4. BeforeEvals[1] = "instances" /\ BeforeEvals[2] = "schedules"
  BY DEF BeforeEvals
<1>5. Covered(Tables) = TableNames
  BY <1>1, <1>2 DEF Covered, TableNames
<1>6. Covered(BeforeEndpoints) = {"instances", "schedules", "evals"}
  BY <1>1, <1>3 DEF Covered
<1>7. Covered(BeforeEvals) = {"instances", "schedules"}
  BY <1>1, <1>4 DEF Covered
<1> QED
  BY <1>5, <1>6, <1>7

(* What a version covers.                                                   *)
LEMMA Coverage ==
  ASSUME NEW b \in Bundles
  PROVE  /\ b.rows \in Db /\ b.torn \in BOOLEAN
         /\ {"instances", "schedules"} \subseteq b.has /\ b.has \subseteq TableNames
         /\ "endpoints" \in b.has <=> "promotions" \in b.has
         /\ "endpoints" \in b.has => "evals" \in b.has
         /\ "endpoints" \in b.has <=> b.has = Covered(Tables)
<1>1. b.rows \in Db /\ b.torn \in BOOLEAN /\ b.has \in {Covered(v) : v \in Versions}
  BY DEF Bundles
<1>2. \/ b.has = Covered(Tables) \/ b.has = Covered(BeforeEndpoints) \/ b.has = Covered(BeforeEvals)
  BY <1>1 DEF Versions
<1> QED
  BY <1>1, <1>2, CoveredIs DEF TableNames

LEMMA HeadTailCover ==
  ASSUME NEW S, NEW s \in Seq(S), Len(s) > 0
  PROVE  /\ Head(s) \in S /\ Tail(s) \in Seq(S)
         /\ Covered(s) \subseteq {Head(s)} \union Covered(Tail(s))
         /\ Head(s) \in Covered(s) /\ Covered(Tail(s)) \subseteq Covered(s)
<1>1. s # << >> /\ Head(s) \in S /\ Tail(s) \in Seq(S) /\ Len(s) \in Nat
  BY HeadTailProperties
<1>2. ASSUME NEW k \in DOMAIN s PROVE s[k] \in {Head(s)} \union Covered(Tail(s))
  <2>1. k \in 1..Len(s) /\ Len(Tail(s)) = Len(s) - 1 /\ DOMAIN Tail(s) = 1..Len(Tail(s))
    BY <1>1, <1>2
  <2>2. CASE k = 1
    BY <2>2
  <2>3. CASE k # 1
    <3>1. k - 1 \in DOMAIN Tail(s) /\ Tail(s)[k - 1] = s[k]
      BY <2>1, <2>3, <1>1
    <3> QED
      BY <3>1 DEF Covered
  <2> QED BY <2>2, <2>3
<1>3. Head(s) = s[1] /\ 1 \in DOMAIN s
  BY <1>1
<1>4. ASSUME NEW k \in DOMAIN Tail(s) PROVE Tail(s)[k] = s[k + 1] /\ k + 1 \in DOMAIN s
  <2>1. k \in 1..(Len(s) - 1)
    BY <1>1, <1>4
  <2> QED
    BY <2>1, <1>1
<1> QED
  BY <1>1, <1>2, <1>3, <1>4 DEF Covered

LEMMA DbFields ==
  ASSUME NEW d \in Db
  PROVE  /\ d.insts \subseteq Ids /\ d.members \subseteq Ids /\ d.endpoint \in BOOLEAN
         /\ d.current \in Ref /\ d.promo \in Ref \union {NoEntry} /\ d.scheds \subseteq Ids
         /\ d.evaluated \in Ref \union {NoEntry} /\ d.jobOnNode \in BOOLEAN
         /\ d = [insts |-> d.insts, members |-> d.members, endpoint |-> d.endpoint,
                 current |-> d.current, promo |-> d.promo, scheds |-> d.scheds,
                 evaluated |-> d.evaluated, jobOnNode |-> d.jobOnNode]
BY DEF Db

(* Rows put together from typed parts.                                      *)
LEMMA DbMade ==
  ASSUME NEW is \in SUBSET Ids, NEW ms \in SUBSET Ids, NEW e \in BOOLEAN, NEW c \in Ref,
         NEW p \in Ref \union {NoEntry}, NEW ss \in SUBSET Ids,
         NEW v \in Ref \union {NoEntry}, NEW j \in BOOLEAN, NEW d,
         d = [insts |-> is, members |-> ms, endpoint |-> e, current |-> c, promo |-> p,
              scheds |-> ss, evaluated |-> v, jobOnNode |-> j]
  PROVE  /\ d \in Db /\ d.insts = is /\ d.members = ms /\ d.endpoint = e /\ d.current = c
         /\ d.promo = p /\ d.scheds = ss /\ d.evaluated = v /\ d.jobOnNode = j
BY DEF Db

LEMMA EmptyIs ==
  /\ EmptyDb \in Db /\ RefsHold(EmptyDb)
  /\ EmptyDb.insts = {} /\ EmptyDb.members = {} /\ EmptyDb.endpoint = FALSE
  /\ EmptyDb.current = NoRef /\ EmptyDb.promo = NoEntry /\ EmptyDb.scheds = {}
  /\ EmptyDb.evaluated = NoEntry
<1>1. EmptyDb \in Db
  BY DEF EmptyDb, Db, Ref
<1>2. /\ EmptyDb.insts = {} /\ EmptyDb.members = {} /\ EmptyDb.endpoint = FALSE
      /\ EmptyDb.current = NoRef /\ EmptyDb.promo = NoEntry /\ EmptyDb.scheds = {}
      /\ EmptyDb.evaluated = NoEntry
  BY DEF EmptyDb
<1> QED
  BY <1>1, <1>2 DEF RefsHold

LEMMA NewBundle ==
  ASSUME NEW v \in Versions
  PROVE  /\ Bundle(v) \in Bundles /\ Bundle(v).rows = EmptyDb /\ Bundle(v).has = Covered(v)
BY EmptyIs DEF Bundle, Bundles

LEMMA NoExportIs == NoExport \in Exports /\ NoExport.pc = "idle"
<1>1. << >> \in Seq(TableNames) /\ Tables \in Versions
  BY DEF Versions
<1>2. Bundle(Tables) \in Bundles
  BY <1>1, NewBundle
<1> QED
  BY <1>1, <1>2 DEF NoExport, Exports

LEMMA BackupStarts == BackupInit => BackupIInv
<1> SUFFICES ASSUME BackupInit PROVE BackupIInv
  OBVIOUS
<1>1. db = EmptyDb /\ export = NoExport /\ bundles = << >> /\ restored = NoRestore
      /\ objects = {} /\ pruning = {} /\ writes = 0
  BY DEF BackupInit
<1>2. << >> \in Seq(Bundles) /\ DOMAIN << >> = {}
  OBVIOUS
<1>3. restored.outcome = "none" /\ restored.of = 0
  BY <1>1 DEF NoRestore
<1>4. db \in Db /\ RefsHold(db) /\ export \in Exports /\ export.pc = "idle"
  BY <1>1, EmptyIs, NoExportIs
<1>5. NewestKept /\ AbortHasCause
  BY <1>1, <1>3 DEF NewestKept, AbortHasCause
<1>6. writes \in 0..MaxWrites
  BY <1>1, BackupBounds
<1> QED
  BY <1>1, <1>2, <1>3, <1>4, <1>5, <1>6 DEF BackupIInv

(* A bundle being read while the tables change is torn.                     *)
LEMMA ReplaceTears ==
  ASSUME BackupIInv, NEW new, Replace(new)
  PROVE  export' \in Exports /\ (export'.pc = "reading" => export'.bundle.torn)
<1>1. export \in Exports /\ export.pc \in {"idle", "reading"} /\ export.bundle \in Bundles
  BY DEF BackupIInv, Exports
<1>2. CASE export.pc = "reading"
  <2> DEFINE torn == [export.bundle EXCEPT !.torn = TRUE]
  <2>1. torn \in Bundles /\ torn.torn = TRUE
    BY <1>1 DEF Bundles
  <2>2. export' = [export EXCEPT !.bundle = torn]
    BY <1>2, <1>1 DEF Replace, Exports
  <2> HIDE DEF torn
  <2>3. \A b \in Bundles : /\ [export EXCEPT !.bundle = b] \in Exports
                           /\ [export EXCEPT !.bundle = b].bundle = b
    BY <1>1 DEF Exports
  <2> QED
    BY <2>1, <2>2, <2>3
<1>3. CASE export.pc # "reading"
  BY <1>3, <1>1 DEF Replace
<1> QED BY <1>2, <1>3

(* What a write keeps.                                                      *)
LEMMA WritesKeep ==
  ASSUME BackupIInv, NEW new \in Db, RefsHold(new), Write(new)
  PROVE  BackupIInv'
<1>1. /\ writes' \in 0..MaxWrites /\ db' = new
      /\ UNCHANGED <<bundles, restored, objects, pruning>>
  BY BackupBounds DEF Write, Replace, BackupIInv
<1>2. export' \in Exports /\ (export'.pc = "reading" => export'.bundle.torn)
  BY ReplaceTears DEF Write
<1>3. AbortHasCause' /\ NewestKept'
  BY <1>1 DEF BackupIInv, AbortHasCause, NewestKept
<1> QED
  BY <1>1, <1>2, <1>3 DEF BackupIInv

LEMMA AddInstanceKeeps ==
  ASSUME BackupIInv, NEW i \in Ids, NEW member \in BOOLEAN, AddInstance(i, member)
  PROVE  BackupIInv'
<1> DEFINE new == [db EXCEPT !.insts = @ \union {i}, !.scheds = @ \union {i},
                             !.members = IF member THEN @ \union {i} ELSE @]
<1>1. i \notin db.insts /\ (member => db.endpoint) /\ Write(new)
  BY DEF AddInstance
<1>2. db \in Db /\ RefsHold(db)
  BY DEF BackupIInv
<1>3. /\ new \in Db /\ new.insts = db.insts \union {i} /\ new.scheds = db.scheds \union {i}
      /\ new.members = (IF member THEN db.members \union {i} ELSE db.members)
      /\ new.endpoint = db.endpoint /\ new.current = db.current /\ new.promo = db.promo
      /\ new.evaluated = db.evaluated
  <2>2. /\ db.insts \union {i} \in SUBSET Ids /\ db.scheds \union {i} \in SUBSET Ids
        /\ (IF member THEN db.members \union {i} ELSE db.members) \in SUBSET Ids
    BY <1>2, DbFields
  <2>3. new \in Db
    BY <1>2, <2>2 DEF Db
  <2>4. /\ new.insts = db.insts \union {i} /\ new.scheds = db.scheds \union {i}
        /\ new.members = (IF member THEN db.members \union {i} ELSE db.members)
    BY <1>2 DEF Db
  <2>5. /\ new.endpoint = db.endpoint /\ new.current = db.current /\ new.promo = db.promo
        /\ new.evaluated = db.evaluated
    BY <1>2 DEF Db
  <2> QED
    BY <2>3, <2>4, <2>5
<1> HIDE DEF new
<1>4. RefsHold(new)
  BY <1>1, <1>2, <1>3 DEF RefsHold
<1> QED
  BY <1>1, <1>3, <1>4, WritesKeep

LEMMA DropInstanceKeeps ==
  ASSUME BackupIInv, NEW i \in Ids, DropInstance(i)
  PROVE  BackupIInv'
<1> DEFINE new == [db EXCEPT !.insts = @ \ {i}, !.members = @ \ {i}, !.scheds = @ \ {i},
                      !.current = Nulled(@, {i}), !.promo = Nulled(@, {i})]
<1>1. i \in db.insts /\ db.evaluated # i /\ Write(new)
  BY DEF DropInstance
<1>2. db \in Db /\ RefsHold(db)
  BY DEF BackupIInv
<1>3. /\ new \in Db /\ new.insts = db.insts \ {i} /\ new.scheds = db.scheds \ {i}
      /\ new.members = db.members \ {i}
      /\ new.endpoint = db.endpoint /\ new.current = Nulled(db.current, {i})
      /\ new.promo = Nulled(db.promo, {i})
      /\ new.evaluated = db.evaluated
  <2>2. /\ db.insts \ {i} \in SUBSET Ids /\ db.scheds \ {i} \in SUBSET Ids
        /\ db.members \ {i} \in SUBSET Ids
        /\ Nulled(db.current, {i}) \in Ref /\ Nulled(db.promo, {i}) \in Ref \union {NoEntry}
    BY <1>2, DbFields DEF Nulled, Ref
  <2>3. new \in Db
    BY <1>2, <2>2 DEF Db
  <2>4. /\ new.insts = db.insts \ {i} /\ new.scheds = db.scheds \ {i}
        /\ new.members = db.members \ {i}
    BY <1>2 DEF Db
  <2>5. /\ new.endpoint = db.endpoint /\ new.current = Nulled(db.current, {i})
        /\ new.promo = Nulled(db.promo, {i}) /\ new.evaluated = db.evaluated
    BY <1>2 DEF Db
  <2> QED
    BY <2>3, <2>4, <2>5
<1> HIDE DEF new
<1>4. RefsHold(new)
  <2>1. db.promo = NoEntry => new.promo = NoEntry
    BY <1>3, BackupAssumption DEF Nulled
  <2>2. db.current = NoRef => new.current = NoRef
    BY <1>3 DEF Nulled
  <2>3. {new.current, new.promo} \subseteq new.insts \union {NoRef, NoEntry}
    BY <1>2, <1>3 DEF Nulled, RefsHold
  <2> QED
    BY <1>1, <1>2, <1>3, <2>1, <2>2, <2>3 DEF RefsHold
<1> QED
  BY <1>1, <1>3, <1>4, WritesKeep

LEMMA OtherWritesKeep ==
  ASSUME BackupIInv,
         \/ AddEndpoint \/ DropEndpoint \/ NodeJob \/ FreshBox
         \/ \E i \in Ids : Promoted(i) \/ Evaluated(i)
  PROVE  BackupIInv'
<1>2. db \in Db /\ RefsHold(db)
  BY DEF BackupIInv
<1>3. /\ db.insts \subseteq Ids /\ db.members \subseteq Ids /\ db.endpoint \in BOOLEAN
      /\ db.current \in Ref /\ db.promo \in Ref \union {NoEntry} /\ db.scheds \subseteq Ids
      /\ db.evaluated \in Ref \union {NoEntry} /\ db.jobOnNode \in BOOLEAN
  BY <1>2, DbFields
<1>4. CASE AddEndpoint
  <2> DEFINE new == [db EXCEPT !.endpoint = TRUE]
  <2>1. /\ new \in Db /\ new.insts = db.insts /\ new.scheds = db.scheds
        /\ new.members = db.members /\ new.endpoint = TRUE /\ new.current = db.current
        /\ new.promo = db.promo /\ new.evaluated = db.evaluated
    BY <1>2 DEF Db
  <2>2. Write(new)
    BY <1>4 DEF AddEndpoint
  <2> HIDE DEF new
  <2>3. RefsHold(new)
    BY <1>2, <2>1 DEF RefsHold
  <2> QED
    BY <2>1, <2>2, <2>3, WritesKeep
<1>5. CASE DropEndpoint
  <2> DEFINE new == [db EXCEPT !.endpoint = FALSE, !.promo = NoEntry]
  <2>1. /\ new \in Db /\ new.insts = db.insts /\ new.scheds = db.scheds
        /\ new.members = db.members /\ new.endpoint = FALSE /\ new.current = db.current
        /\ new.promo = NoEntry /\ new.evaluated = db.evaluated
    BY <1>2 DEF Db
  <2>2. Write(new) /\ db.current = NoRef /\ db.members = {}
    BY <1>5 DEF DropEndpoint
  <2> HIDE DEF new
  <2>3. RefsHold(new)
    BY <1>2, <2>1, <2>2 DEF RefsHold
  <2> QED
    BY <2>1, <2>2, <2>3, WritesKeep
<1>6. CASE NodeJob
  <2> DEFINE new == [db EXCEPT !.jobOnNode = TRUE]
  <2>1. /\ new \in Db /\ new.insts = db.insts /\ new.scheds = db.scheds
        /\ new.members = db.members /\ new.endpoint = db.endpoint /\ new.current = db.current
        /\ new.promo = db.promo /\ new.evaluated = db.evaluated
    BY <1>2 DEF Db
  <2>2. Write(new)
    BY <1>6 DEF NodeJob
  <2> HIDE DEF new
  <2>3. RefsHold(new)
    BY <1>2, <2>1 DEF RefsHold
  <2> QED
    BY <2>1, <2>2, <2>3, WritesKeep
<1>7. CASE FreshBox
  BY <1>7, EmptyIs, WritesKeep DEF FreshBox
<1>8. ASSUME NEW i \in Ids, Promoted(i)
      PROVE  BackupIInv'
  <2> DEFINE new == [db EXCEPT !.current = i, !.promo = i]
  <2>1. /\ new \in Db /\ new.insts = db.insts /\ new.scheds = db.scheds
        /\ new.members = db.members /\ new.endpoint = db.endpoint /\ new.current = i
        /\ new.promo = i /\ new.evaluated = db.evaluated
    BY <1>2 DEF Db, Ref
  <2>2. Write(new) /\ i \in db.members
    BY <1>8 DEF Promoted
  <2> HIDE DEF new
  <2>3. RefsHold(new)
    BY <1>2, <2>1, <2>2 DEF RefsHold
  <2> QED
    BY <2>1, <2>2, <2>3, WritesKeep
<1>9. ASSUME NEW i \in Ids, Evaluated(i)
      PROVE  BackupIInv'
  <2> DEFINE new == [db EXCEPT !.evaluated = i]
  <2>1. /\ new \in Db /\ new.insts = db.insts /\ new.scheds = db.scheds
        /\ new.members = db.members /\ new.endpoint = db.endpoint /\ new.current = db.current
        /\ new.promo = db.promo /\ new.evaluated = i
    BY <1>2 DEF Db, Ref
  <2>2. Write(new) /\ i \in db.insts
    BY <1>9 DEF Evaluated
  <2> HIDE DEF new
  <2>3. RefsHold(new)
    BY <1>2, <2>1, <2>2 DEF RefsHold
  <2> QED
    BY <2>1, <2>2, <2>3, WritesKeep
<1> QED
  BY <1>4, <1>5, <1>6, <1>7, <1>8, <1>9

LEMMA ExportBeginKeeps ==
  ASSUME BackupIInv, ExportBegin
  PROVE  BackupIInv'
<1>1. PICK v \in Versions : export' = [pc |-> "reading", left |-> v, bundle |-> Bundle(v)]
  BY DEF ExportBegin
<1>2. UNCHANGED <<db, bundles, restored, objects, pruning, writes>>
  BY DEF ExportBegin
<1>3. v \in Seq(TableNames)
  BY VersionSeqs DEF Versions
<1>4. Bundle(v) \in Bundles /\ Bundle(v).rows = EmptyDb /\ Bundle(v).has = Covered(v)
  BY NewBundle
<1>5. export' \in Exports /\ export'.bundle = Bundle(v) /\ export'.left = v
  BY <1>1, <1>3, <1>4 DEF Exports
<1>6. ReadSoFar(export.bundle, export.left)'
  BY <1>4, <1>5 DEF ReadSoFar, SameTable
<1>7. AbortHasCause' /\ NewestKept'
  BY <1>2 DEF BackupIInv, AbortHasCause, NewestKept
<1> QED
  BY <1>2, <1>5, <1>6, <1>7 DEF BackupIInv

(* One table is read.                                                       *)
LEMMA OneTable ==
  ASSUME NEW rows \in Db, db \in Db, NEW name \in TableNames, NEW new, new = TableRows(rows, name)
  PROVE  /\ new \in Db /\ SameTable(name, new, db)
         /\ \A other \in TableNames : other # name => \A d : SameTable(other, rows, d) => SameTable(other, new, d)
<1>1. CASE name = "endpoints"
  <2>1. new = [rows EXCEPT !.endpoint = db.endpoint, !.current = db.current]
    BY <1>1 DEF TableRows
  <2>2. /\ new \in Db /\ new.insts = rows.insts /\ new.scheds = rows.scheds
        /\ new.members = rows.members /\ new.endpoint = db.endpoint /\ new.current = db.current
        /\ new.promo = rows.promo /\ new.evaluated = rows.evaluated
    BY <2>1 DEF Db
  <2> QED
    BY <2>2, <1>1 DEF SameTable, TableNames
<1>2. CASE name = "instances"
  <2>1. new = [rows EXCEPT !.insts = db.insts, !.members = db.members]
    BY <1>2 DEF TableRows
  <2>2. /\ new \in Db /\ new.insts = db.insts /\ new.scheds = rows.scheds
        /\ new.members = db.members /\ new.endpoint = rows.endpoint /\ new.current = rows.current
        /\ new.promo = rows.promo /\ new.evaluated = rows.evaluated
    BY <2>1 DEF Db
  <2> QED
    BY <2>2, <1>2 DEF SameTable, TableNames
<1>3. CASE name = "promotions"
  <2>1. new = [rows EXCEPT !.promo = db.promo]
    BY <1>3 DEF TableRows
  <2>2. /\ new \in Db /\ new.insts = rows.insts /\ new.scheds = rows.scheds
        /\ new.members = rows.members /\ new.endpoint = rows.endpoint /\ new.current = rows.current
        /\ new.promo = db.promo /\ new.evaluated = rows.evaluated
    BY <2>1 DEF Db
  <2> QED
    BY <2>2, <1>3 DEF SameTable, TableNames
<1>4. CASE name = "schedules"
  <2>1. new = [rows EXCEPT !.scheds = db.scheds]
    BY <1>4 DEF TableRows
  <2>2. /\ new \in Db /\ new.insts = rows.insts /\ new.scheds = db.scheds
        /\ new.members = rows.members /\ new.endpoint = rows.endpoint /\ new.current = rows.current
        /\ new.promo = rows.promo /\ new.evaluated = rows.evaluated
    BY <2>1 DEF Db
  <2> QED
    BY <2>2, <1>4 DEF SameTable, TableNames
<1>5. CASE name = "evals"
  <2>1. new = [rows EXCEPT !.evaluated = db.evaluated]
    BY <1>5 DEF TableRows
  <2>2. /\ new \in Db /\ new.insts = rows.insts /\ new.scheds = rows.scheds
        /\ new.members = rows.members /\ new.endpoint = rows.endpoint /\ new.current = rows.current
        /\ new.promo = rows.promo /\ new.evaluated = db.evaluated
    BY <2>1 DEF Db
  <2> QED
    BY <2>2, <1>5 DEF SameTable, TableNames
<1> QED
  BY <1>1, <1>2, <1>3, <1>4, <1>5 DEF TableNames

ReadOn(e, rows, left) == [e EXCEPT !.left = left, !.bundle.rows = rows]

LEMMA BundleWith ==
  ASSUME NEW e \in Exports, NEW rows \in Db, NEW left \in Seq(TableNames)
  PROVE  /\ ReadOn(e, rows, left) \in Exports /\ ReadOn(e, rows, left).pc = e.pc
         /\ ReadOn(e, rows, left).left = left
         /\ ReadOn(e, rows, left).bundle.rows = rows
         /\ ReadOn(e, rows, left).bundle.has = e.bundle.has
         /\ ReadOn(e, rows, left).bundle.torn = e.bundle.torn
<1> DEFINE b == [e.bundle EXCEPT !.rows = rows]
<1>1. e.bundle \in Bundles
  BY DEF Exports
<1>2. b \in Bundles /\ b.rows = rows /\ b.has = e.bundle.has /\ b.torn = e.bundle.torn
  BY <1>1 DEF Bundles
<1>3. ReadOn(e, rows, left) = [e EXCEPT !.left = left, !.bundle = b]
  BY DEF Exports, ReadOn
<1> HIDE DEF b
<1>4. [e EXCEPT !.left = left, !.bundle = b] \in Exports
  BY <1>2 DEF Exports
<1>5. /\ ReadOn(e, rows, left).pc = e.pc
      /\ ReadOn(e, rows, left).left = left /\ ReadOn(e, rows, left).bundle = b
  BY <1>3 DEF Exports
<1> QED
  BY <1>2, <1>3, <1>4, <1>5

LEMMA ReadTableKeeps ==
  ASSUME BackupIInv, ReadTable
  PROVE  BackupIInv'
<1> DEFINE name == Head(export.left)
           rows == TableRows(export.bundle.rows, name)
           left == Tail(export.left)
<1>1. /\ export.pc = "reading" /\ Len(export.left) > 0
      /\ export' = [export EXCEPT !.left = Tail(@), !.bundle.rows = rows]
      /\ UNCHANGED <<db, bundles, restored, objects, pruning, writes>>
  BY DEF ReadTable
<1>2. export \in Exports /\ export.left \in Seq(TableNames) /\ export.bundle \in Bundles /\ db \in Db
  BY DEF BackupIInv, Exports
<1>3. /\ name \in TableNames /\ left \in Seq(TableNames)
      /\ Covered(export.left) \subseteq {name} \union Covered(left)
      /\ name \in Covered(export.left) /\ Covered(left) \subseteq Covered(export.left)
  BY <1>1, <1>2, HeadTailCover
<1>4. export.bundle.rows \in Db /\ export.bundle.has \subseteq TableNames
  BY <1>2, Coverage
<1>5. /\ rows \in Db /\ SameTable(name, rows, db)
      /\ \A other \in TableNames : other # name =>
           \A d : SameTable(other, export.bundle.rows, d) => SameTable(other, rows, d)
  BY <1>2, <1>3, <1>4, OneTable
<1>6. export' = ReadOn(export, rows, left)
  BY <1>1 DEF ReadOn
<1> HIDE DEF rows, left, name
<1>7. /\ export' \in Exports /\ export'.left = left
      /\ export'.bundle.rows = rows /\ export'.bundle.has = export.bundle.has
      /\ export'.bundle.torn = export.bundle.torn
  BY <1>2, <1>3, <1>5, <1>6, BundleWith
<1>8. ASSUME ~export'.bundle.torn PROVE ReadSoFar(export.bundle, export.left)'
  <2>1. ReadSoFar(export.bundle, export.left)
    BY <1>1, <1>7, <1>8 DEF BackupIInv
  <2>2. ASSUME NEW n \in export.bundle.has \ Covered(left)
        PROVE  SameTable(n, rows, db)
    BY <2>1, <2>2, <1>3, <1>4, <1>5 DEF ReadSoFar
  <2>3. ASSUME NEW n \in TableNames \ export.bundle.has
        PROVE  SameTable(n, rows, EmptyDb)
    <3>1. SameTable(n, export.bundle.rows, EmptyDb)
      BY <2>1 DEF ReadSoFar
    <3>2. n # name
      BY <2>1, <2>3, <1>3 DEF ReadSoFar
    <3> QED
      BY <3>1, <3>2, <1>5
  <2>4. Covered(left) \subseteq export.bundle.has
    BY <2>1, <1>3 DEF ReadSoFar
  <2> QED
    BY <2>2, <2>3, <2>4, <1>1, <1>7 DEF ReadSoFar
<1>9. AbortHasCause' /\ NewestKept'
  BY <1>1 DEF BackupIInv, AbortHasCause, NewestKept
<1> QED
  BY <1>1, <1>7, <1>8, <1>9 DEF BackupIInv

LEMMA PruneKeeps ==
  ASSUME BackupIInv, Prune
  PROVE  BackupIInv'
<1> PICK listed \in pruning : /\ pruning' = pruning \ {listed}
                              /\ objects' \in {objects \ Surplus(listed), objects}
  BY DEF Prune
<1>1. UNCHANGED <<db, export, bundles, restored, writes>>
  BY DEF Prune
<1>2. bundles \in Seq(Bundles) /\ DOMAIN bundles = 1..Len(bundles) /\ Len(bundles) \in Nat
  BY DEF BackupIInv
<1>3. listed \subseteq 1..Len(bundles)
  BY <1>2 DEF BackupIInv
<1>4. Len(bundles) \notin Surplus(listed)
  <2>0. ASSUME NEW n \in listed PROVE ~(n > Len(bundles))
    <3>1. n \in 1..Len(bundles)
      BY <1>3
    <3> QED
      BY <3>1, <1>2
  <2>1. {n \in listed : n > Len(bundles)} = {}
    BY <2>0
  <2>2. Cardinality({n \in listed : n > Len(bundles)}) = 0
    BY <2>1, FS_EmptySet
  <2> QED
    BY <2>2, BackupAssumption DEF Surplus
<1>5. NewestKept' /\ AbortHasCause'
  BY <1>1, <1>4 DEF BackupIInv, NewestKept, AbortHasCause
<1>6. objects' \subseteq DOMAIN bundles /\ pruning' \in SUBSET SUBSET DOMAIN bundles
  BY DEF BackupIInv
<1>7. /\ ReadSoFar(export.bundle, export.left)' = ReadSoFar(export.bundle, export.left)
      /\ RefsHold(db)' = RefsHold(db)
  BY <1>1 DEF ReadSoFar, RefsHold
<1> QED
  BY <1>1, <1>5, <1>6, <1>7 DEF BackupIInv

(* What was read without a write in between is a bundle that holds.         *)
LEMMA WholeHolds ==
  ASSUME NEW b \in Bundles, db \in Db, RefsHold(db), ReadSoFar(b, << >>)
  PROVE  RowsHold(b)
<1>1. Covered(<< >>) = {}
  BY DEF Covered
<1>2. /\ \A name \in b.has : SameTable(name, b.rows, db)
      /\ \A name \in TableNames \ b.has : SameTable(name, b.rows, EmptyDb)
  BY <1>1 DEF ReadSoFar
<1>3. /\ {"instances", "schedules"} \subseteq b.has
      /\ "endpoints" \in b.has <=> "promotions" \in b.has
      /\ "endpoints" \in b.has => "evals" \in b.has
  BY Coverage
<1>4. b.rows.insts = db.insts /\ b.rows.members = db.members /\ b.rows.scheds = db.scheds
  BY <1>2, <1>3 DEF SameTable
<1>5. "evals" \in b.has => b.rows.evaluated = db.evaluated
  BY <1>2 DEF SameTable
<1>6. "evals" \notin b.has => b.rows.evaluated = NoEntry
  BY <1>2, EmptyIs DEF SameTable, TableNames
<1>7. "endpoints" \in b.has =>
        b.rows.endpoint = db.endpoint /\ b.rows.current = db.current /\ b.rows.promo = db.promo
  BY <1>2, <1>3 DEF SameTable
<1>8. "endpoints" \notin b.has => b.rows.current = NoRef
  BY <1>2, EmptyIs DEF SameTable, TableNames
<1>9. "endpoints" \in b.has => b.rows.evaluated = db.evaluated
  BY <1>3, <1>5
<1>10. "endpoints" \in b.has => RefsHold(b.rows)
  BY <1>4, <1>7, <1>9 DEF RefsHold
<1>11. b.rows.evaluated \in b.rows.insts \union {NoRef, NoEntry}
  BY <1>4, <1>5, <1>6 DEF RefsHold
<1>12. b.rows.scheds \subseteq b.rows.insts
  BY <1>4 DEF RefsHold
<1> QED
  BY <1>8, <1>10, <1>11, <1>12 DEF RowsHold

LEMMA UploadKeeps ==
  ASSUME BackupIInv, Upload
  PROVE  BackupIInv'
<1> DEFINE key == Len(bundles) + 1
<1>1. /\ export.pc = "reading" /\ export.left = << >>
      /\ bundles' = Append(bundles, export.bundle) /\ export' = NoExport
      /\ objects' = objects \union {key} /\ pruning' = pruning \union {objects'}
      /\ UNCHANGED <<db, restored, writes>>
  BY DEF Upload
<1>2. /\ bundles \in Seq(Bundles) /\ DOMAIN bundles = 1..Len(bundles) /\ Len(bundles) \in Nat
      /\ export.bundle \in Bundles
  BY DEF BackupIInv, Exports
<1>3. /\ bundles' \in Seq(Bundles) /\ Len(bundles') = key /\ DOMAIN bundles' = 1..key
      /\ bundles'[key] = export.bundle
      /\ \A k \in DOMAIN bundles : k \in DOMAIN bundles' /\ bundles'[k] = bundles[k] /\ k # key
  BY <1>1, <1>2
<1>4. export' \in Exports /\ export'.pc = "idle"
  BY <1>1, NoExportIs
<1>5. ~export.bundle.torn => RowsHold(export.bundle)
  BY <1>1, <1>2, WholeHolds DEF BackupIInv
<1>6. ASSUME NEW k \in DOMAIN bundles', ~bundles'[k].torn PROVE RowsHold(bundles'[k])
  <2>1. CASE k = key
    BY <2>1, <1>3, <1>5, <1>6
  <2>2. CASE k # key
    <3>1. k \in DOMAIN bundles
      BY <2>2, <1>2, <1>3
    <3> QED
      BY <3>1, <1>3, <1>6 DEF BackupIInv
  <2> QED BY <2>1, <2>2
<1>7. key \in objects' /\ objects' \subseteq DOMAIN bundles' /\ pruning' \in SUBSET SUBSET DOMAIN bundles'
  BY <1>1, <1>2, <1>3 DEF BackupIInv
<1>8. NewestKept'
  BY <1>3, <1>7 DEF NewestKept
<1>9. AbortHasCause' /\ restored.of \in {0} \union DOMAIN bundles'
  <2>1. restored.outcome = "aborted" => restored.of \in DOMAIN bundles
    BY DEF BackupIInv
  <2> QED
    BY <2>1, <1>1, <1>3 DEF BackupIInv, AbortHasCause
<1> QED
  BY <1>1, <1>3, <1>4, <1>6, <1>7, <1>8, <1>9 DEF BackupIInv

(* The tables after a restore.                                              *)
LEMMA RefilledIs ==
  ASSUME db \in Db, NEW b \in Bundles
  PROVE  /\ Refilled(b) \in Db
         /\ Refilled(b).insts = b.rows.insts /\ Refilled(b).members = Members(b)
         /\ Refilled(b).scheds = b.rows.scheds
         /\ Refilled(b).endpoint = (IF "endpoints" \in b.has THEN b.rows.endpoint ELSE db.endpoint)
         /\ Refilled(b).current = Pointer(b)
         /\ Refilled(b).promo = (IF "promotions" \in b.has THEN b.rows.promo ELSE Nulled(db.promo, Ids))
         /\ Refilled(b).evaluated = (IF "evals" \in b.has THEN b.rows.evaluated ELSE db.evaluated)
         /\ Refilled(b).jobOnNode = db.jobOnNode
<1> DEFINE e == IF "endpoints" \in b.has THEN b.rows.endpoint ELSE db.endpoint
           p == IF "promotions" \in b.has THEN b.rows.promo ELSE Nulled(db.promo, Ids)
           v == IF "evals" \in b.has THEN b.rows.evaluated ELSE db.evaluated
           m == Members(b)
           c == Pointer(b)
           i == b.rows.insts
           s == b.rows.scheds
<1>1. b.rows \in Db
  BY Coverage
<1>2. /\ i \in SUBSET Ids /\ m \in SUBSET Ids /\ e \in BOOLEAN /\ c \in Ref
      /\ p \in Ref \union {NoEntry} /\ s \in SUBSET Ids /\ v \in Ref \union {NoEntry}
  BY <1>1, DbFields DEF Members, Nulled, Ref, Pointer
<1>3. Refilled(b) = [db EXCEPT !.insts = i, !.members = m, !.scheds = s, !.endpoint = e,
                               !.current = c, !.promo = p, !.evaluated = v]
  BY DEF Refilled, Pointer
<1> HIDE DEF e, p, v, m, c, i, s
<1>4. /\ Refilled(b) \in Db
      /\ Refilled(b).insts = i /\ Refilled(b).members = m /\ Refilled(b).scheds = s
      /\ Refilled(b).endpoint = e
  BY <1>2, <1>3 DEF Db
<1>5. /\ Refilled(b).current = c /\ Refilled(b).promo = p /\ Refilled(b).evaluated = v
      /\ Refilled(b).jobOnNode = db.jobOnNode
  BY <1>3 DEF Db
<1> QED
  BY <1>4, <1>5 DEF e, p, v, m, c, i, s

(* Rows inside a restore: the pointers are null and the jobs are those of   *)
(* the database.                                                            *)
Midway(d, e, is, ms, ss, p, v) ==
  /\ d \in Db /\ d.current = NoRef /\ d.jobOnNode = db.jobOnNode
  /\ d.endpoint = e /\ d.insts = is /\ d.members = ms /\ d.scheds = ss
  /\ d.promo = p /\ d.evaluated = v

(* What each statement makes of such rows.                                  *)
LEMMA EmptiedIs ==
  ASSUME NEW d, NEW e, NEW is, NEW ms, NEW ss, NEW p, NEW v,
         Midway(d, e, is, ms, ss, p, v)
  PROVE  /\ Midway(Emptied(d, "evals"), e, is, ms, ss, p, NoEntry)
         /\ Midway(Emptied(d, "schedules"), e, is, ms, {}, p, v)
         /\ Midway(Emptied(d, "promotions"), e, is, ms, ss, NoEntry, v)
         /\ Midway(Emptied(d, "instances"), e, {}, {}, {}, Nulled(p, Ids), v)
         /\ Midway(Emptied(d, "endpoints"), FALSE, is, ms, ss, NoEntry, v)
<1>1. d \in Db /\ d.promo \in Ref \union {NoEntry} /\ Nulled(d.promo, Ids) \in Ref \union {NoEntry}
  BY DbFields DEF Midway, Nulled, Ref
<1>2. Midway(Emptied(d, "evals"), e, is, ms, ss, p, NoEntry)
  <2>1. Emptied(d, "evals") = [d EXCEPT !.evaluated = NoEntry]
    BY DEF Emptied
  <2> QED
    BY <1>1, <2>1 DEF Midway, Db
<1>3. Midway(Emptied(d, "schedules"), e, is, ms, {}, p, v)
  <2>1. Emptied(d, "schedules") = [d EXCEPT !.scheds = {}]
    BY DEF Emptied
  <2> QED
    BY <1>1, <2>1 DEF Midway, Db
<1>4. Midway(Emptied(d, "promotions"), e, is, ms, ss, NoEntry, v)
  <2>1. Emptied(d, "promotions") = [d EXCEPT !.promo = NoEntry]
    BY DEF Emptied
  <2> QED
    BY <1>1, <2>1 DEF Midway, Db
<1>5. Midway(Emptied(d, "instances"), e, {}, {}, {}, Nulled(p, Ids), v)
  <2> DEFINE n == Nulled(d.promo, Ids)
  <2>1. Emptied(d, "instances") = [d EXCEPT !.insts = {}, !.members = {}, !.scheds = {}, !.promo = n]
    BY DEF Emptied
  <2>2. n = Nulled(p, Ids) /\ n \in Ref \union {NoEntry}
    BY <1>1 DEF Midway
  <2> HIDE DEF n
  <2> QED
    BY <1>1, <2>1, <2>2 DEF Midway, Db
<1>6. Midway(Emptied(d, "endpoints"), FALSE, is, ms, ss, NoEntry, v)
  <2>1. Emptied(d, "endpoints") = [d EXCEPT !.endpoint = FALSE, !.promo = NoEntry]
    BY DEF Emptied
  <2> QED
    BY <1>1, <2>1 DEF Midway, Db
<1> QED
  BY <1>2, <1>3, <1>4, <1>5, <1>6

LEMMA FilledIs ==
  ASSUME NEW d, NEW e, NEW is, NEW ms, NEW ss, NEW p, NEW v,
         Midway(d, e, is, ms, ss, p, v), NEW b \in Bundles
  PROVE  /\ Midway(Filled(d, b, "endpoints"), b.rows.endpoint, is, ms, ss, p, v)
         /\ Midway(Filled(d, b, "instances"), e, b.rows.insts, Members(b), ss, p, v)
         /\ Midway(Filled(d, b, "promotions"), e, is, ms, ss, b.rows.promo, v)
         /\ Midway(Filled(d, b, "schedules"), e, is, ms, b.rows.scheds, p, v)
         /\ Midway(Filled(d, b, "evals"), e, is, ms, ss, p, b.rows.evaluated)
<1> DEFINE be == b.rows.endpoint
           bi == b.rows.insts
           bm == Members(b)
           bp == b.rows.promo
           bs == b.rows.scheds
           bv == b.rows.evaluated
<1>1. b.rows \in Db /\ d \in Db
  BY Coverage DEF Midway
<1>2. /\ be \in BOOLEAN /\ bi \in SUBSET Ids /\ bm \in SUBSET Ids /\ bs \in SUBSET Ids
      /\ bp \in Ref \union {NoEntry} /\ bv \in Ref \union {NoEntry}
  BY <1>1, DbFields DEF Members
<1>3. /\ Filled(d, b, "endpoints") = [d EXCEPT !.endpoint = be]
      /\ Filled(d, b, "instances") = [d EXCEPT !.insts = bi, !.members = bm]
      /\ Filled(d, b, "promotions") = [d EXCEPT !.promo = bp]
      /\ Filled(d, b, "schedules") = [d EXCEPT !.scheds = bs]
      /\ Filled(d, b, "evals") = [d EXCEPT !.evaluated = bv]
  BY DEF Filled
<1> HIDE DEF be, bi, bm, bp, bs, bv
<1>4. Midway(Filled(d, b, "endpoints"), be, is, ms, ss, p, v)
  BY <1>1, <1>2, <1>3 DEF Midway, Db
<1>5. Midway(Filled(d, b, "instances"), e, bi, bm, ss, p, v)
  BY <1>1, <1>2, <1>3 DEF Midway, Db
<1>6. Midway(Filled(d, b, "promotions"), e, is, ms, ss, bp, v)
  BY <1>1, <1>2, <1>3 DEF Midway, Db
<1>7. Midway(Filled(d, b, "schedules"), e, is, ms, bs, p, v)
  BY <1>1, <1>2, <1>3 DEF Midway, Db
<1>8. Midway(Filled(d, b, "evals"), e, is, ms, ss, p, bv)
  BY <1>1, <1>2, <1>3 DEF Midway, Db
<1> QED
  BY <1>4, <1>5, <1>6, <1>7, <1>8 DEF be, bi, bm, bp, bs, bv

LEMMA StatementIs ==
  ASSUME NEW t, NEW d, NEW what
  PROVE  /\ Statement(t, d, what).rows = d
         /\ t.refused = {} /\ RefsHold(d) => Statement(t, d, what).refused = {}
         /\ Statement(t, d, what).refused = {} => RefsHold(d)
BY DEF Statement

LEMMA MidwayHolds ==
  ASSUME NEW d, NEW e, NEW is, NEW ms, NEW ss, NEW p, NEW v,
         Midway(d, e, is, ms, ss, p, v), ss \subseteq is, ms \subseteq is,
         ms # {} \/ p # NoEntry => e, {p, v} \subseteq is \union {NoRef, NoEntry}
  PROVE  RefsHold(d)
BY DEF Midway, RefsHold

LEMMA DeleteIs ==
  ASSUME NEW b, NEW t, NEW name
  PROVE  /\ name \in b.has => EmptyTable(b, t, name).rows = Emptied(t.rows, name)
         /\ name \notin b.has => EmptyTable(b, t, name) = t
         /\ t.refused = {} /\ RefsHold(EmptyTable(b, t, name).rows) => EmptyTable(b, t, name).refused = {}
BY StatementIs DEF EmptyTable

LEMMA InsertIs ==
  ASSUME NEW b, NEW t, NEW name
  PROVE  /\ name \in b.has => FillTable(b, t, name).rows = Filled(t.rows, b, name)
         /\ name \notin b.has => FillTable(b, t, name) = t
         /\ t.refused = {} /\ RefsHold(FillTable(b, t, name).rows) => FillTable(b, t, name).refused = {}
BY StatementIs DEF FillTable

(* Nothing a deletion takes away may be referred to by a row that stays.    *)
DeletesPass(b) == ~db.jobOnNode /\ ("evals" \in b.has \/ db.evaluated \notin Ids)

(* A bundle that holds is restored wherever its tables may be replaced.     *)
LEMMA HeldPasses ==
  ASSUME db \in Db, RefsHold(db), NEW b \in Bundles, RowsHold(b), DeletesPass(b)
  PROVE  RefsHold(Refilled(b))
<1> DEFINE r == Refilled(b)
<1>1. /\ r.insts = b.rows.insts /\ r.members = Members(b) /\ r.scheds = b.rows.scheds
      /\ r.endpoint = (IF "endpoints" \in b.has THEN b.rows.endpoint ELSE db.endpoint)
      /\ r.current = Pointer(b)
      /\ r.promo = (IF "promotions" \in b.has THEN b.rows.promo ELSE Nulled(db.promo, Ids))
      /\ r.evaluated = (IF "evals" \in b.has THEN b.rows.evaluated ELSE db.evaluated)
  BY RefilledIs
<1> HIDE DEF r
<1>2. /\ "endpoints" \in b.has <=> "promotions" \in b.has
      /\ "endpoints" \in b.has => "evals" \in b.has
  BY Coverage
<1>3. CASE "endpoints" \in b.has
  BY <1>1, <1>2, <1>3 DEF RowsHold, RefsHold, Members, Pointer, r
<1>4. CASE "endpoints" \notin b.has
  <2>1. r.members = {} /\ r.current = NoRef /\ r.endpoint = db.endpoint
    BY <1>1, <1>4 DEF Members, Pointer
  <2>2. r.promo = Nulled(db.promo, Ids)
    BY <1>1, <1>2, <1>4
  <2>3. r.promo \in {NoRef, NoEntry}
    BY <2>2, DbFields DEF Nulled, Ref
  <2>4. r.promo # NoEntry => db.promo # NoEntry
    BY <2>2, BackupAssumption DEF Nulled
  <2>5. r.promo # NoEntry => r.endpoint
    BY <2>1, <2>4 DEF RefsHold
  <2>6. r.evaluated \in r.insts \union {NoRef, NoEntry}
    <3>1. CASE "evals" \in b.has
      BY <3>1, <1>1 DEF RowsHold
    <3>2. CASE "evals" \notin b.has
      BY <3>2, <1>1, DbFields DEF DeletesPass, Ref
    <3> QED BY <3>1, <3>2
  <2>7. r.scheds \subseteq r.insts
    BY <1>1 DEF RowsHold
  <2> QED
    BY <2>1, <2>3, <2>5, <2>6, <2>7 DEF RefsHold, r
<1> QED
  BY <1>3, <1>4

(* After the deletions: what the covered tables held is gone.               *)
LEMMA DeletedIs ==
  ASSUME db \in Db, NEW b \in Bundles
  PROVE  /\ Midway(Deleted(b).rows,
                   IF "endpoints" \in b.has THEN FALSE ELSE db.endpoint, {}, {}, {},
                   IF "promotions" \in b.has THEN NoEntry ELSE Nulled(db.promo, Ids),
                   IF "evals" \in b.has THEN NoEntry ELSE db.evaluated)
         /\ RefsHold(db) /\ DeletesPass(b) => Deleted(b).refused = {}
<1> DEFINE E == db.endpoint
           I == db.insts
           M == db.members
           S == db.scheds
           P == db.promo
           V == db.evaluated
           V1 == IF "evals" \in b.has THEN NoEntry ELSE V
           P1 == IF "promotions" \in b.has THEN NoEntry ELSE P
           P2 == IF "promotions" \in b.has THEN NoEntry ELSE Nulled(P, Ids)
           E1 == IF "endpoints" \in b.has THEN FALSE ELSE E
           t1 == EmptyTable(b, Begun, "evals")
           t2 == EmptyTable(b, t1, "schedules")
           t3 == EmptyTable(b, t2, "promotions")
           t4 == EmptyTable(b, t3, "instances")
           t5 == EmptyTable(b, t4, "endpoints")
<1>1. /\ "instances" \in b.has /\ "schedules" \in b.has
      /\ "endpoints" \in b.has <=> "promotions" \in b.has
  BY Coverage
<1>2. /\ P \in Ref \union {NoEntry} /\ V \in Ref \union {NoEntry} /\ E \in BOOLEAN
      /\ I \subseteq Ids
  BY DbFields
<1>3. P2 \in {NoRef, NoEntry} /\ (P = NoEntry => P2 = NoEntry)
  BY <1>2, BackupAssumption DEF Nulled, Ref
<1>4. NoEntry = Nulled(NoEntry, Ids)
  BY BackupAssumption DEF Nulled
<1>5. /\ Deleted(b).rows = t5.rows
      /\ ~db.jobOnNode => Deleted(b).refused = t5.refused
  BY DEF Deleted
<1>6. Begun.refused = {} /\ Midway(Begun.rows, E, I, M, S, P, V)
  <2>1. Begun.rows = [db EXCEPT !.current = NoRef] /\ Begun.refused = {}
    BY DEF Begun
  <2> QED
    BY <2>1 DEF Midway, Db, Ref
<1> HIDE DEF E, I, M, S, P, V
<1>7. Midway(t1.rows, E, I, M, S, P, V1)
  <2>1. Midway(Emptied(Begun.rows, "evals"), E, I, M, S, P, NoEntry)
    BY <1>6, EmptiedIs
  <2> QED
    BY <2>1, <1>6, DeleteIs
<1>8. Midway(t2.rows, E, I, M, {}, P, V1)
  <2> HIDE DEF t1, V1
  <2>1. Midway(Emptied(t1.rows, "schedules"), E, I, M, {}, P, V1)
    BY <1>7, EmptiedIs
  <2> QED
    BY <2>1, <1>1, DeleteIs
<1>9. Midway(t3.rows, E, I, M, {}, P1, V1)
  <2> HIDE DEF t2, V1
  <2>1. Midway(Emptied(t2.rows, "promotions"), E, I, M, {}, NoEntry, V1)
    BY <1>8, EmptiedIs
  <2> QED
    BY <2>1, <1>8, DeleteIs
<1>10. Midway(t4.rows, E, {}, {}, {}, P2, V1)
  <2> HIDE DEF t3, V1
  <2>1. Midway(Emptied(t3.rows, "instances"), E, {}, {}, {}, Nulled(P1, Ids), V1)
    BY <1>9, EmptiedIs
  <2>2. Nulled(P1, Ids) = P2
    BY <1>4
  <2> QED
    BY <2>1, <2>2, <1>1, DeleteIs
<1>11. Midway(t5.rows, E1, {}, {}, {}, P2, V1)
  <2> HIDE DEF t4, V1
  <2>1. Midway(Emptied(t4.rows, "endpoints"), FALSE, {}, {}, {}, NoEntry, V1)
    BY <1>10, EmptiedIs
  <2>2. CASE "endpoints" \in b.has
    <3>1. E1 = FALSE /\ P2 = NoEntry
      BY <2>2, <1>1
    <3>2. t5.rows = Emptied(t4.rows, "endpoints")
      BY <2>2, DeleteIs
    <3> HIDE DEF E1, P2, t5
    <3> QED
      BY <2>1, <3>1, <3>2
  <2>3. CASE "endpoints" \notin b.has
    <3>1. E1 = E /\ t5 = t4
      BY <2>3, DeleteIs
    <3> HIDE DEF E1, P2, t5
    <3> QED
      BY <1>10, <3>1
  <2> QED BY <2>2, <2>3
<1>12. ASSUME RefsHold(db), DeletesPass(b) PROVE t5.refused = {}
  <2>1. /\ S \subseteq I /\ M \subseteq I /\ (M # {} \/ P # NoEntry => E)
        /\ {P, V} \subseteq I \union {NoRef, NoEntry}
    BY <1>12 DEF RefsHold, E, I, M, S, P, V
  <2>2. V1 \in {NoRef, NoEntry}
    BY <1>2, <1>12 DEF DeletesPass, Ref, V
  <2>3. P1 \in {P, NoEntry} /\ (P2 # NoEntry => E1)
    <3>1. CASE "promotions" \in b.has
      BY <3>1
    <3>2. CASE "promotions" \notin b.has
      BY <3>2, <1>1, <1>3, <2>1
    <3> QED BY <3>1, <3>2
  <2> HIDE DEF V1, P1, P2, E1, t1, t2, t3, t4, t5
  <2>4. RefsHold(t1.rows)
    BY <1>7, <2>1, <2>2, MidwayHolds
  <2>5. RefsHold(t2.rows)
    BY <1>8, <2>1, <2>2, MidwayHolds
  <2>6. RefsHold(t3.rows)
    <3>1. P1 # NoEntry => E
      BY <2>1, <2>3
    <3>2. {P1, V1} \subseteq I \union {NoRef, NoEntry}
      BY <2>1, <2>2, <2>3
    <3>3. M # {} \/ P1 # NoEntry => E
      BY <2>1, <3>1
    <3> QED
      BY <1>9, <2>1, <3>2, <3>3, MidwayHolds
  <2>7. P2 # NoEntry => E
    BY <1>3, <2>1
  <2>8. RefsHold(t4.rows)
    BY <1>3, <1>10, <2>2, <2>7, MidwayHolds
  <2>9. RefsHold(t5.rows)
    BY <1>3, <1>11, <2>2, <2>3, MidwayHolds
  <2>10. t1.refused = {}
    BY <1>6, <2>4, DeleteIs DEF t1
  <2>11. t2.refused = {}
    BY <2>10, <2>5, DeleteIs DEF t2
  <2>12. t3.refused = {}
    BY <2>11, <2>6, DeleteIs DEF t3
  <2>13. t4.refused = {}
    BY <2>12, <2>8, DeleteIs DEF t4
  <2> QED
    BY <2>13, <2>9, DeleteIs DEF t5
<1>13. Midway(Deleted(b).rows, E1, {}, {}, {}, P2, V1)
  BY <1>5, <1>11
<1>14. RefsHold(db) /\ DeletesPass(b) => Deleted(b).refused = {}
  BY <1>5, <1>12 DEF DeletesPass
<1> QED
  BY <1>13, <1>14 DEF E, P, V

(* After the insertions: the covered tables are the bundle's.               *)
LEMMA InsertedIs ==
  ASSUME NEW b \in Bundles, NEW t, NEW e, NEW p, NEW v,
         Midway(t.rows, e, {}, {}, {}, p, v)
  PROVE  /\ Midway(Inserted(b, t).rows,
                   IF "endpoints" \in b.has THEN b.rows.endpoint ELSE e,
                   b.rows.insts, Members(b), b.rows.scheds,
                   IF "promotions" \in b.has THEN b.rows.promo ELSE p,
                   IF "evals" \in b.has THEN b.rows.evaluated ELSE v)
         /\ /\ t.refused = {} /\ RowsHold(b) /\ {p, v} \subseteq {NoRef, NoEntry}
            /\ (p # NoEntry => e) /\ ("promotions" \in b.has => p = NoEntry)
            => Inserted(b, t).refused = {}
<1> DEFINE e1 == IF "endpoints" \in b.has THEN b.rows.endpoint ELSE e
           p1 == IF "promotions" \in b.has THEN b.rows.promo ELSE p
           v1 == IF "evals" \in b.has THEN b.rows.evaluated ELSE v
           bi == b.rows.insts
           bs == b.rows.scheds
           bm == Members(b)
           t1 == FillTable(b, t, "endpoints")
           t2 == FillTable(b, t1, "instances")
           t3 == FillTable(b, t2, "promotions")
           t4 == FillTable(b, t3, "schedules")
           t5 == FillTable(b, t4, "evals")
<1>1. /\ "instances" \in b.has /\ "schedules" \in b.has
      /\ "endpoints" \in b.has <=> "promotions" \in b.has
  BY Coverage
<1>2. Inserted(b, t) = t5
  BY DEF Inserted
<1>3. Midway(t1.rows, e1, {}, {}, {}, p, v)
  <2>1. Midway(Filled(t.rows, b, "endpoints"), b.rows.endpoint, {}, {}, {}, p, v)
    BY FilledIs
  <2> QED
    BY <2>1, InsertIs
<1>4. Midway(t2.rows, e1, bi, bm, {}, p, v)
  <2> HIDE DEF t1, e1
  <2>1. Midway(Filled(t1.rows, b, "instances"), e1, bi, bm, {}, p, v)
    BY <1>3, FilledIs
  <2> QED
    BY <2>1, <1>1, InsertIs
<1>5. Midway(t3.rows, e1, bi, bm, {}, p1, v)
  <2> HIDE DEF t2, e1, bi, bm
  <2>1. Midway(Filled(t2.rows, b, "promotions"), e1, bi, bm, {}, b.rows.promo, v)
    BY <1>4, FilledIs
  <2> QED
    BY <2>1, <1>4, InsertIs
<1>6. Midway(t4.rows, e1, bi, bm, bs, p1, v)
  <2> HIDE DEF t3, e1, bi, bm, p1
  <2>1. Midway(Filled(t3.rows, b, "schedules"), e1, bi, bm, bs, p1, v)
    BY <1>5, FilledIs
  <2> QED
    BY <2>1, <1>1, InsertIs
<1>7. Midway(t5.rows, e1, bi, bm, bs, p1, v1)
  <2> HIDE DEF t4, e1, bi, bm, bs, p1
  <2>1. Midway(Filled(t4.rows, b, "evals"), e1, bi, bm, bs, p1, b.rows.evaluated)
    BY <1>6, FilledIs
  <2> QED
    BY <2>1, <1>6, InsertIs
<1>8. ASSUME t.refused = {}, RowsHold(b), {p, v} \subseteq {NoRef, NoEntry}, p # NoEntry => e,
             "promotions" \in b.has => p = NoEntry
      PROVE  t5.refused = {}
  <2>1. p # NoEntry => e1
    BY <1>1, <1>8
  <2>2. bs \subseteq bi /\ bm \subseteq bi /\ (bm # {} => e1)
    BY <1>8 DEF RowsHold, RefsHold, Members
  <2>3. p1 \in bi \union {NoRef, NoEntry} /\ (p1 # NoEntry => e1)
    <3>1. CASE "promotions" \in b.has
      BY <3>1, <1>1, <1>8 DEF RowsHold, RefsHold
    <3>2. CASE "promotions" \notin b.has
      BY <3>2, <1>1, <1>8
    <3> QED BY <3>1, <3>2
  <2>4. v1 \in bi \union {NoRef, NoEntry}
    BY <1>8 DEF RowsHold
  <2> HIDE DEF e1, p1, v1, bi, bm, bs, t1, t2, t3, t4, t5
  <2>5. RefsHold(t1.rows)
    BY <1>3, <1>8, <2>1, MidwayHolds
  <2>6. RefsHold(t2.rows)
    BY <1>4, <1>8, <2>1, <2>2, MidwayHolds
  <2>7. RefsHold(t3.rows)
    BY <1>5, <1>8, <2>2, <2>3, MidwayHolds
  <2>8. RefsHold(t4.rows)
    BY <1>6, <1>8, <2>2, <2>3, MidwayHolds
  <2>9. RefsHold(t5.rows)
    BY <1>7, <2>2, <2>3, <2>4, MidwayHolds
  <2>10. t1.refused = {}
    BY <1>8, <2>5, InsertIs DEF t1
  <2>11. t2.refused = {}
    BY <2>10, <2>6, InsertIs DEF t2
  <2>12. t3.refused = {}
    BY <2>11, <2>7, InsertIs DEF t3
  <2>13. t4.refused = {}
    BY <2>12, <2>8, InsertIs DEF t4
  <2> QED
    BY <2>13, <2>9, InsertIs DEF t5
<1> QED
  BY <1>2, <1>7, <1>8

(* What the transaction comes to, and that it passes for a bundle that      *)
(* holds wherever its tables may be replaced.                               *)
Applied(b) == Repointed(b, Inserted(b, Deleted(b)))

LEMMA AppliedIs ==
  ASSUME db \in Db, RefsHold(db), NEW b \in Bundles
  PROVE  /\ Applied(b).rows = Refilled(b)
         /\ Applied(b).refused = {} => RefsHold(Refilled(b))
         /\ RowsHold(b) /\ DeletesPass(b) => Applied(b).refused = {}
<1> DEFINE e1 == IF "endpoints" \in b.has THEN FALSE ELSE db.endpoint
           p1 == IF "promotions" \in b.has THEN NoEntry ELSE Nulled(db.promo, Ids)
           v1 == IF "evals" \in b.has THEN NoEntry ELSE db.evaluated
           e2 == IF "endpoints" \in b.has THEN b.rows.endpoint ELSE e1
           p2 == IF "promotions" \in b.has THEN b.rows.promo ELSE p1
           v2 == IF "evals" \in b.has THEN b.rows.evaluated ELSE v1
           t1 == Deleted(b)
           t2 == Inserted(b, t1)
           d  == [t2.rows EXCEPT !.current = Pointer(b)]
           r  == Refilled(b)
<1>1. /\ Midway(t1.rows, e1, {}, {}, {}, p1, v1)
      /\ RefsHold(db) /\ DeletesPass(b) => t1.refused = {}
  BY DeletedIs
<1>2. Midway(t2.rows, e2, b.rows.insts, Members(b), b.rows.scheds, p2, v2)
  <2> HIDE DEF e1, p1, v1, t1
  <2> QED
    BY <1>1, InsertedIs
<1>3. /\ r \in Db /\ r.insts = b.rows.insts /\ r.members = Members(b)
      /\ r.scheds = b.rows.scheds /\ r.endpoint = e2 /\ r.current = Pointer(b)
      /\ r.promo = p2 /\ r.evaluated = v2 /\ r.jobOnNode = db.jobOnNode
  BY RefilledIs
<1>4. d = r
  <2> HIDE DEF e2, p2, v2, t2, r
  <2>1. Pointer(b) \in Ref
    BY <1>3, DbFields
  <2>2. /\ d \in Db /\ d.insts = b.rows.insts /\ d.members = Members(b)
        /\ d.scheds = b.rows.scheds /\ d.endpoint = e2 /\ d.current = Pointer(b)
        /\ d.promo = p2 /\ d.evaluated = v2 /\ d.jobOnNode = db.jobOnNode
    BY <1>2, <2>1 DEF Midway, Db
  <2> HIDE DEF d
  <2> QED
    BY <1>3, <2>2, DbFields
<1>5. Applied(b) = Statement(t2, r, "update")
  BY <1>4 DEF Applied, Repointed
<1>6. ASSUME RowsHold(b), DeletesPass(b) PROVE t2.refused = {} /\ RefsHold(r)
  <2>1. RefsHold(r)
    BY <1>6, HeldPasses
  <2>2. {p1, v1} \subseteq {NoRef, NoEntry}
    BY <1>6, DbFields, BackupAssumption DEF DeletesPass, Nulled, Ref
  <2>3. p1 # NoEntry => e1
    BY Coverage, BackupAssumption DEF RefsHold, Nulled
  <2>4. "promotions" \in b.has => p1 = NoEntry
    OBVIOUS
  <2>5. t1.refused = {}
    BY <1>1, <1>6
  <2> HIDE DEF e1, p1, v1, t1
  <2> QED
    BY <1>1, <1>6, <2>1, <2>2, <2>3, <2>4, <2>5, InsertedIs
<1> HIDE DEF t2, r
<1> QED
  BY <1>5, <1>6, StatementIs DEF r

LEMMA RestoreIs ==
  ASSUME BackupIInv, Restore
  PROVE  \E k \in DOMAIN bundles :
           /\ bundles[k] \in Bundles /\ restored'.of = k
           /\ restored'.jobOnNode = db.jobOnNode /\ restored'.evaluated = db.evaluated
           /\ \/ /\ Applied(bundles[k]).refused = {} /\ restored'.outcome = "done"
                 /\ Replace(Refilled(bundles[k]))
              \/ /\ Applied(bundles[k]).refused # {} /\ restored'.outcome = "aborted"
                 /\ UNCHANGED <<db, export, bundles, objects, pruning>>
<1> PICK k \in DOMAIN bundles :
       LET b == bundles[k]
           t == Repointed(b, Inserted(b, Deleted(b)))
       IN /\ \/ t.refused = {} /\ Replace(t.rows)
             \/ t.refused # {} /\ UNCHANGED <<db, export, bundles, objects, pruning>>
          /\ restored' = [outcome |-> IF t.refused = {} THEN "done" ELSE "aborted", of |-> k,
                          jobOnNode |-> db.jobOnNode, evaluated |-> db.evaluated]
          /\ UNCHANGED writes
  BY DEF Restore
<1> DEFINE t == Applied(bundles[k])
<1>1. /\ \/ t.refused = {} /\ Replace(t.rows)
         \/ t.refused # {} /\ UNCHANGED <<db, export, bundles, objects, pruning>>
      /\ restored' = [outcome |-> IF t.refused = {} THEN "done" ELSE "aborted", of |-> k,
                      jobOnNode |-> db.jobOnNode, evaluated |-> db.evaluated]
  BY DEF Applied
<1>2. bundles[k] \in Bundles /\ db \in Db /\ RefsHold(db)
  BY DEF BackupIInv
<1>3. t.rows = Refilled(bundles[k])
  BY <1>2, AppliedIs
<1> HIDE DEF t
<1>4. /\ \/ t.refused = {} /\ restored'.outcome = "done" /\ Replace(Refilled(bundles[k]))
         \/ /\ t.refused # {} /\ restored'.outcome = "aborted"
            /\ UNCHANGED <<db, export, bundles, objects, pruning>>
      /\ restored'.of = k /\ restored'.jobOnNode = db.jobOnNode
      /\ restored'.evaluated = db.evaluated
  BY <1>1, <1>3
<1> QED
  BY <1>2, <1>4 DEF t

LEMMA RestoreKeeps ==
  ASSUME BackupIInv, Restore
  PROVE  BackupIInv'
<1> PICK k \in DOMAIN bundles :
       /\ bundles[k] \in Bundles /\ restored'.of = k
       /\ restored'.jobOnNode = db.jobOnNode /\ restored'.evaluated = db.evaluated
       /\ \/ /\ Applied(bundles[k]).refused = {} /\ restored'.outcome = "done"
             /\ Replace(Refilled(bundles[k]))
          \/ /\ Applied(bundles[k]).refused # {} /\ restored'.outcome = "aborted"
             /\ UNCHANGED <<db, export, bundles, objects, pruning>>
  BY RestoreIs
<1> DEFINE b == bundles[k]
<1>1. b \in Bundles /\ db \in Db /\ RefsHold(db) /\ (~b.torn => RowsHold(b)) /\ k # 0
  BY DEF BackupIInv
<1>2. UNCHANGED <<bundles, objects, pruning, writes>>
  BY DEF Restore, Replace
<1>3. db' \in Db /\ RefsHold(db')
  BY <1>1, RefilledIs, AppliedIs DEF Replace
<1>4. export' \in Exports
      /\ (export'.pc = "reading" /\ ~export'.bundle.torn => UNCHANGED <<db, export>>)
  <2>1. CASE Replace(Refilled(b))
    <3>1. export' \in Exports /\ (export'.pc = "reading" => export'.bundle.torn)
      BY <2>1, ReplaceTears
    <3> QED
      BY <3>1
  <2>2. CASE UNCHANGED <<db, export>>
    BY <2>2 DEF BackupIInv
  <2> QED BY <2>1, <2>2
<1>5. export'.pc = "reading" /\ ~export'.bundle.torn => ReadSoFar(export.bundle, export.left)'
  BY <1>4 DEF BackupIInv, ReadSoFar
<1>6. restored'.outcome = "aborted" =>
        \/ b.torn \/ db.jobOnNode \/ ("evals" \notin b.has /\ db.evaluated \in Ids)
  <2>1. RowsHold(b) /\ DeletesPass(b) => Applied(b).refused = {}
    BY <1>1, AppliedIs
  <2>2. ~DeletesPass(b) => db.jobOnNode \/ ("evals" \notin b.has /\ db.evaluated \in Ids)
    BY DEF DeletesPass
  <2> HIDE DEF b
  <2> QED
    BY <1>1, <2>1, <2>2 DEF b
<1>7. AbortHasCause'
  BY <1>2, <1>6 DEF AbortHasCause
<1>8. NewestKept'
  BY <1>2 DEF NewestKept, BackupIInv
<1> HIDE DEF b
<1> QED
  BY <1>1, <1>2, <1>3, <1>4, <1>5, <1>7, <1>8 DEF BackupIInv

LEMMA BackupStep == BackupIInv /\ [BackupNext]_backupVars => BackupIInv'
<1> SUFFICES ASSUME BackupIInv, [BackupNext]_backupVars PROVE BackupIInv'
  OBVIOUS
<1>1. CASE UNCHANGED backupVars
  BY <1>1 DEF backupVars, BackupIInv, ReadSoFar, AbortHasCause, NewestKept
<1>2. CASE BackupNext
  BY <1>2, AddInstanceKeeps, DropInstanceKeeps, OtherWritesKeep, ExportBeginKeeps,
     ReadTableKeeps, UploadKeeps, PruneKeeps, RestoreKeeps DEF BackupNext
<1> QED
  BY <1>1, <1>2

(* A restore fails for a cause only and the newest bundle stays, for any    *)
(* number of instances, bundles and writes.                                 *)
THEOREM BackupsAreKept == BackupSpec => []BackupInv
<1>1. BackupIInv => BackupInv
  <2>1. export \in Exports => export.pc \in {"idle", "reading"} /\ export.bundle \in Bundles
    BY DEF Exports
  <2>2. bundles \in Seq(Bundles) => \A k \in DOMAIN bundles : bundles[k] \in Bundles
    OBVIOUS
  <2> QED
    BY <2>1, <2>2 DEF BackupIInv, BackupInv, BackupTypeOK
<1> QED
  BY <1>1, BackupStarts, BackupStep, PTL DEF BackupSpec

(* What a restore commits statement by statement is the bundle in the       *)
(* tables it covers and the database in the others, for any database and    *)
(* any bundle of any version.                                               *)
THEOREM RestoresAreWhole == BackupSpec => RestoredWhole
<1>1. ASSUME BackupIInv, restored'.outcome = "done", Restore
      PROVE  db' = Refilled(bundles[restored'.of])
  BY <1>1, RestoreIs DEF Replace
<1>2. BackupIInv /\ [BackupNext]_backupVars =>
        [restored'.outcome = "done" /\ Restore => db' = Refilled(bundles[restored'.of])]_backupVars
  BY <1>1
<1> QED
  BY <1>2, BackupStarts, BackupStep, PTL DEF BackupSpec, RestoredWhole
-----------------------------------------------------------------------------
(* What a row binds while the endpoint pins p, and that it binds no port of *)
(* another row.                                                             *)
Binds(r, p) == IF r.member /\ p # 0 THEN p ELSE r.port
PortsApart(r1, r2, p) == Binds(r1, p) \notin {Binds(r2, p), r2.tls}

ApartFrom(r, rows, table, p) == \A t \in rows : PortsApart(r, table[t], p)
TakenIn(table) == {s \in Slots : table[s] # NoInst}

(* A row is apart from the rows it was compared with, and those exist.      *)
RowsApart(table, known, p) ==
  \A s \in Slots : /\ known[s] \subseteq TakenIn(table) \ {s}
                   /\ ApartFrom(table[s], known[s], table, p)

(* So is the row a request is about to write; an edit that still counts on  *)
(* a comparison finds its row as it was read.                               *)
AskApart(e, table, p) ==
  /\ e.against \subseteq TakenIn(table)
  /\ ApartFrom(e.row, e.against, table, p)
  /\ e.at = "edit" /\ e.against # {} =>
       /\ e.slot \in TakenIn(table) \ e.against
       /\ table[e.slot] = e.read

Asks == [at : {"none", "create", "edit"}, slot : Slots \union {"none"},
         read : PortRows, row : PortRows, against : SUBSET Slots]

PortsIInv ==
  /\ PortsTypeOK
  /\ RowsApart(inst, against, pin)
  /\ \A q \in Editors : AskApart(asked[q], inst, pin)

LEMMA NoInstIs == NoInst \in PortRows /\ NoInst.port = 0 /\ NoInst.tls = 0
BY PortsAssumption DEF NoInst, PortRows, NoHost

LEMMA AskedIs ==
  /\ Asked \in Asks
  /\ \A table, p : AskApart(Asked, table, p)
<1>1. Asked \in Asks
  BY NoInstIs DEF Asked, Asks
<1>2. Asked.against = {} /\ Asked.at = "none"
  BY DEF Asked
<1> QED BY <1>1, <1>2 DEF AskApart, ApartFrom

LEMMA PortsStart == PortsInit => PortsIInv
<1> SUFFICES ASSUME PortsInit PROVE PortsIInv
  OBVIOUS
<1>1. PortsTypeOK
  BY NoInstIs, AskedIs, PortsAssumption DEF PortsInit, PortsTypeOK, Asks
<1>2. RowsApart(inst, against, pin)
  BY DEF PortsInit, RowsApart, ApartFrom
<1>3. \A q \in Editors : asked[q] = Asked
  BY DEF PortsInit
<1> QED BY <1>1, <1>2, <1>3, AskedIs DEF PortsIInv

LEMMA PortFacts ==
  ASSUME PortsTypeOK
  PROVE  /\ inst \in [Slots -> PortRows] /\ pin \in 0..MaxPort
         /\ asked \in [Editors -> Asks] /\ against \in [Slots -> SUBSET Slots]
         /\ portEdits \in 0..MaxPortEdits /\ MaxPort \in Nat /\ MaxPortEdits \in Nat
         /\ head \in Hosts \union {NoHost}
         /\ Taken = TakenIn(inst)
         /\ \A r : Effective(r) = Binds(r, pin)
BY PortsAssumption DEF PortsTypeOK, Asks, Taken, TakenIn, Effective, Binds

LEMMA RowFields ==
  ASSUME NEW r \in PortRows
  PROVE  /\ r = [host |-> r.host, port |-> r.port, tls |-> r.tls, member |-> r.member]
         /\ r.host \in Hosts \union {NoHost, "head"} /\ r.port \in 0..MaxPort
         /\ r.tls \in {0, TlsPort} /\ r.member \in BOOLEAN
         /\ DOMAIN r = {"host", "port", "tls", "member"}
BY DEF PortRows

LEMMA AskFields ==
  ASSUME NEW e \in Asks
  PROVE  /\ e.at \in {"none", "create", "edit"} /\ e.slot \in Slots \union {"none"}
         /\ e.read \in PortRows /\ e.row \in PortRows /\ e.against \in SUBSET Slots
BY DEF Asks

(* Only a member binds what the endpoint pins.                              *)
LEMMA PinnedOnly ==
  ASSUME NEW r1, NEW r2, NEW p1, NEW p2, r1.member = FALSE, r2.member = FALSE,
         PortsApart(r1, r2, p1)
  PROVE  PortsApart(r1, r2, p2)
BY DEF PortsApart, Binds

(***************************************************************************)
(* What a comparison shows.                                                 *)
(***************************************************************************)
LEMMA ComparisonShows ==
  ASSUME PortsTypeOK, NEW row \in PortRows, NEW member, NEW self,
         ~Conflict(row, member, self), ~(row.member /\ pin # 0)
  PROVE  /\ Compared(row, member, self) \subseteq TakenIn(inst) \ {self}
         /\ ApartFrom(row, Compared(row, member, self), inst, pin)
<1>1. Binds(row, pin) = row.port
  BY DEF Binds
<1>2. \A t \in Compared(row, member, self) :
        row.port \notin {Binds(inst[t], pin), inst[t].tls}
  BY PortFacts DEF Conflict
<1> QED BY <1>1, <1>2, PortFacts DEF Compared, ApartFrom, PortsApart

LEMMA AllotmentShows ==
  ASSUME PortsTypeOK, NEW row \in PortRows, row.port \in Ports, Allotted(row.port),
         ~(row.member /\ pin # 0)
  PROVE  ApartFrom(row, Taken, inst, pin)
<1>1. Binds(row, pin) = row.port /\ row.port # 0
  BY PortsAssumption DEF Binds, Ports
<1>2. \A t \in Taken : row.port \notin InUse(inst[t])
  BY DEF Allotted
<1>3. \A t \in Taken : row.port \notin {Binds(inst[t], pin), inst[t].tls}
  BY <1>1, <1>2, PortFacts DEF InUse
<1> QED BY <1>1, <1>3 DEF ApartFrom, PortsApart

(* A request leaves with what it compared its row with.                     *)
LEMMA AwaitKeeps ==
  ASSUME PortsIInv, NEW q \in Editors, CanAsk(q), NEW what \in {"create", "edit"},
         NEW s \in Slots \union {"none"}, NEW row \in PortRows, NEW rows \in SUBSET Taken,
         what = "edit" => s \in Taken \ rows,
         ~(row.member /\ pin # 0) => ApartFrom(row, rows, inst, pin),
         Await(q, what, s, row, rows), UNCHANGED <<inst, pin, head, against>>
  PROVE  PortsIInv'
<1>1. PICK read : read = IF what = "edit" THEN inst[s] ELSE NoInst
  OBVIOUS
<1>2. PICK kept : kept = Assured(row, rows)
  OBVIOUS
<1>3. PICK e : e = [at |-> what, slot |-> s, row |-> row, read |-> read, against |-> kept]
  OBVIOUS
<1>4. /\ PortsTypeOK /\ RowsApart(inst, against, pin)
      /\ \A d \in Editors : AskApart(asked[d], inst, pin)
  BY DEF PortsIInv
<1>5. Taken = TakenIn(inst) /\ Taken \subseteq Slots /\ inst \in [Slots -> PortRows]
      /\ asked \in [Editors -> Asks]
  BY <1>4, PortFacts DEF Taken
<1>6. read \in PortRows
  BY <1>1, <1>5, NoInstIs
<1>7. kept \subseteq rows /\ ApartFrom(row, kept, inst, pin)
  BY <1>2 DEF Assured, ApartFrom
<1>8. e \in Asks
  BY <1>3, <1>5, <1>6, <1>7 DEF Asks
<1>9. AskApart(e, inst, pin)
  <2>1. e.at = what /\ e.slot = s /\ e.row = row /\ e.read = read /\ e.against = kept
    BY <1>3
  <2> QED BY <2>1, <1>1, <1>5, <1>7 DEF AskApart
<1>10. asked' = [asked EXCEPT ![q] = e] /\ portEdits' = portEdits + 1
  BY <1>1, <1>2, <1>3 DEF Await
<1>11. asked' \in [Editors -> Asks]
  BY <1>5, <1>8, <1>10
<1>12. portEdits' \in 0..MaxPortEdits
  BY <1>4, <1>10, PortFacts DEF CanAsk
<1>13. PortsTypeOK'
  BY <1>4, <1>11, <1>12 DEF PortsTypeOK, Asks
<1>14. \A d \in Editors : AskApart(asked'[d], inst, pin)
  BY <1>4, <1>5, <1>9, <1>10
<1> QED BY <1>4, <1>13, <1>14 DEF PortsIInv

LEMMA NewRow ==
  ASSUME NEW host \in Hosts \union {"head"}, NEW port \in Ports, NEW tls \in {0, TlsPort},
         NEW member \in BOOLEAN, NEW row,
         row = [host |-> host, port |-> port, tls |-> tls, member |-> member]
  PROVE  row \in PortRows /\ row.port = port /\ row.member = member
BY PortsAssumption DEF PortRows, Ports

LEMMA CreateAutoKeeps ==
  ASSUME PortsIInv, NEW q \in Editors, CreateAuto(q)
  PROVE  PortsIInv'
<1>1. CanAsk(q) /\ UNCHANGED <<inst, pin, head, against>> /\ PortsTypeOK
  BY DEF CreateAuto, PortsIInv
<1>2. PICK host \in Hosts \union {"head"}, port \in Ports, tls \in {0, TlsPort},
           member \in BOOLEAN :
        /\ Allotted(port)
        /\ Await(q, "create", "none",
                 [host |-> host, port |-> port, tls |-> tls, member |-> member], Taken)
  BY DEF CreateAuto
<1>3. PICK row : row = [host |-> host, port |-> port, tls |-> tls, member |-> member]
  OBVIOUS
<1>4. row \in PortRows /\ row.port = port
  BY <1>3, NewRow
<1>5. ~(row.member /\ pin # 0) => ApartFrom(row, Taken, inst, pin)
  BY <1>1, <1>2, <1>4, AllotmentShows
<1>6. Await(q, "create", "none", row, Taken)
  BY <1>2, <1>3
<1> QED BY <1>1, <1>4, <1>5, <1>6, AwaitKeeps

LEMMA CreateExplicitKeeps ==
  ASSUME PortsIInv, NEW q \in Editors, CreateExplicit(q)
  PROVE  PortsIInv'
<1>1. CanAsk(q) /\ UNCHANGED <<inst, pin, head, against>> /\ PortsTypeOK
  BY DEF CreateExplicit, PortsIInv
<1>2. PICK host \in Hosts \union {"head"}, port \in Ports, tls \in {0, TlsPort},
           member \in BOOLEAN :
        /\ ~Conflict([host |-> host, port |-> port, tls |-> tls, member |-> member],
                     member, "none")
        /\ Await(q, "create", "none",
                 [host |-> host, port |-> port, tls |-> tls, member |-> member],
                 Compared([host |-> host, port |-> port, tls |-> tls, member |-> member],
                          member, "none"))
  BY DEF CreateExplicit
<1>3. PICK row : row = [host |-> host, port |-> port, tls |-> tls, member |-> member]
  OBVIOUS
<1>4. PICK rows : rows = Compared(row, member, "none")
  OBVIOUS
<1>5. row \in PortRows
  BY <1>3, NewRow
<1>6. ~Conflict(row, member, "none") /\ Await(q, "create", "none", row, rows)
  BY <1>2, <1>3, <1>4
<1>7. ~(row.member /\ pin # 0) => ApartFrom(row, rows, inst, pin)
  BY <1>1, <1>4, <1>5, <1>6, ComparisonShows
<1>8. rows \in SUBSET Taken
  BY <1>4 DEF Compared
<1> QED BY <1>1, <1>5, <1>6, <1>7, <1>8, AwaitKeeps

LEMMA EditKeeps ==
  ASSUME PortsIInv, NEW q \in Editors, NEW s \in Slots, Edit(q, s)
  PROVE  PortsIInv'
<1>1. /\ CanAsk(q) /\ s \in Taken /\ UNCHANGED <<inst, pin, head, against>> /\ PortsTypeOK
      /\ RowsApart(inst, against, pin)
  BY DEF Edit, PortsIInv
<1>2. PICK row \in [host : {inst[s].host}, port : Ports, tls : {0, TlsPort},
                    member : BOOLEAN] :
        /\ row.port # inst[s].port => ~Conflict(row, row.member \/ inst[s].member, s)
        /\ Await(q, "edit", s, row,
                 IF row.port = inst[s].port
                 THEN IF row.member = inst[s].member THEN against[s] ELSE {}
                 ELSE Compared(row, row.member \/ inst[s].member, s))
  BY DEF Edit
<1>3. inst[s] \in PortRows /\ Taken = TakenIn(inst)
  BY <1>1, PortFacts
<1>4. row \in PortRows
  BY <1>3, RowFields, PortsAssumption DEF PortRows, Ports
<1>5. PICK rows : rows = IF row.port = inst[s].port
                         THEN IF row.member = inst[s].member THEN against[s] ELSE {}
                         ELSE Compared(row, row.member \/ inst[s].member, s)
  OBVIOUS
<1>6. Await(q, "edit", s, row, rows)
  BY <1>2, <1>5
<1>7. CASE row.port # inst[s].port
  <2>1. rows = Compared(row, row.member \/ inst[s].member, s)
        /\ ~Conflict(row, row.member \/ inst[s].member, s)
    BY <1>2, <1>5, <1>7
  <2>2. ~(row.member /\ pin # 0) => ApartFrom(row, rows, inst, pin)
    BY <1>1, <1>4, <2>1, ComparisonShows
  <2>3. rows \in SUBSET Taken /\ s \in Taken \ rows
    BY <1>1, <2>1 DEF Compared
  <2> QED BY <1>1, <1>4, <1>6, <2>2, <2>3, AwaitKeeps
<1>8. CASE row.port = inst[s].port /\ row.member = inst[s].member
  <2>1. rows = against[s]
    BY <1>5, <1>8
  <2>2. against[s] \subseteq Taken \ {s} /\ ApartFrom(inst[s], against[s], inst, pin)
    BY <1>1, <1>3 DEF RowsApart
  <2>3. Binds(row, pin) = Binds(inst[s], pin)
    BY <1>8 DEF Binds
  <2>4. ApartFrom(row, rows, inst, pin)
    BY <2>1, <2>2, <2>3 DEF ApartFrom, PortsApart
  <2> QED BY <1>1, <1>4, <1>6, <2>1, <2>2, <2>4, AwaitKeeps
<1>9. CASE row.port = inst[s].port /\ row.member # inst[s].member
  <2>1. rows = {} /\ ApartFrom(row, rows, inst, pin)
    BY <1>5, <1>9 DEF ApartFrom
  <2> QED BY <1>1, <1>4, <1>6, <2>1, AwaitKeeps
<1> QED BY <1>7, <1>8, <1>9

(***************************************************************************)
(* A row that changes is no longer counted on.                              *)
(***************************************************************************)
LEMMA LoseIs ==
  ASSUME PortsTypeOK, NEW s \in Slots, NEW d \in Editors
  PROVE  /\ Lose(s) \in [Editors -> Asks]
         /\ Lose(s)[d].at = asked[d].at /\ Lose(s)[d].slot = asked[d].slot
         /\ Lose(s)[d].row = asked[d].row /\ Lose(s)[d].read = asked[d].read
         /\ Lose(s)[d].against = IF asked[d].slot = s THEN {} ELSE asked[d].against \ {s}
<1>1. asked \in [Editors -> Asks]
  BY PortFacts
<1>2. \A c \in Editors : /\ asked[c] \in Asks /\ Since(s, c) \in SUBSET Slots
                         /\ [asked[c] EXCEPT !.against = Since(s, c)] \in Asks
  <2> TAKE c \in Editors
  <2>1. asked[c] \in Asks
    BY <1>1
  <2>2. Since(s, c) \in SUBSET Slots
    BY <2>1, AskFields DEF Since
  <2> QED BY <2>1, <2>2 DEF Asks
<1>3. Lose(s) = [c \in Editors |-> [asked[c] EXCEPT !.against = Since(s, c)]]
  BY DEF Lose
<1>4. Lose(s) \in [Editors -> Asks]
  BY <1>2, <1>3
<1>5. Lose(s)[d] = [asked[d] EXCEPT !.against = Since(s, d)]
  BY <1>3
<1>6. asked[d] = [at |-> asked[d].at, slot |-> asked[d].slot, read |-> asked[d].read,
                  row |-> asked[d].row, against |-> asked[d].against]
  BY <1>2 DEF Asks
<1> QED BY <1>4, <1>5, <1>6 DEF Since

(* The other rows and requests, when the row in s becomes another one.      *)
LEMMA LosersApart ==
  ASSUME PortsIInv, NEW s \in Slots, NEW r, NEW table, table = [inst EXCEPT ![s] = r],
         NEW d \in Editors
  PROVE  AskApart(Lose(s)[d], table, pin)
<1>1. PortsTypeOK /\ AskApart(asked[d], inst, pin)
  BY DEF PortsIInv
<1>2. PICK e : e = Lose(s)[d]
  OBVIOUS
<1>3. /\ e.at = asked[d].at /\ e.slot = asked[d].slot
      /\ e.row = asked[d].row /\ e.read = asked[d].read
      /\ e.against = IF asked[d].slot = s THEN {} ELSE asked[d].against \ {s}
  BY <1>1, <1>2, LoseIs
<1>4. \A t \in Slots \ {s} : table[t] = inst[t]
  BY <1>1, PortFacts
<1>5. e.against \subseteq asked[d].against \ {s}
  BY <1>3
<1>6. e.against \subseteq TakenIn(table)
  BY <1>1, <1>4, <1>5 DEF AskApart, TakenIn
<1>7. ApartFrom(e.row, e.against, table, pin)
  BY <1>1, <1>3, <1>4, <1>5 DEF AskApart, ApartFrom, TakenIn
<1>8. ASSUME e.at = "edit" /\ e.against # {}
      PROVE  e.slot \in TakenIn(table) \ e.against /\ table[e.slot] = e.read
  <2>1. e.slot # s /\ asked[d].against # {}
    BY <1>3, <1>8
  <2>2. asked[d].slot \in TakenIn(inst) \ asked[d].against
        /\ inst[asked[d].slot] = asked[d].read
    BY <1>1, <1>3, <1>8, <2>1 DEF AskApart
  <2> QED BY <1>3, <1>4, <1>5, <2>1, <2>2 DEF TakenIn
<1>9. AskApart(e, table, pin)
  BY <1>6, <1>7, <1>8 DEF AskApart
<1> QED BY <1>2, <1>9

LEMMA RowsStayApart ==
  ASSUME PortsIInv, NEW s \in Slots, NEW r, NEW table, table = [inst EXCEPT ![s] = r],
         NEW rows \in SUBSET (Taken \ {s}), NEW known,
         known = [t \in Slots |-> IF t = s THEN rows ELSE against[t] \ {s}],
         ApartFrom(r, rows, inst, pin)
  PROVE  RowsApart(table, known, pin)
<1>1. PortsTypeOK /\ RowsApart(inst, against, pin)
  BY DEF PortsIInv
<1>2. inst \in [Slots -> PortRows] /\ Taken = TakenIn(inst)
  BY <1>1, PortFacts
<1>3. table[s] = r /\ \A t \in Slots \ {s} : table[t] = inst[t]
  BY <1>2
<1>4. \A t \in TakenIn(inst) \ {s} : t \in TakenIn(table) /\ table[t] = inst[t]
  BY <1>3 DEF TakenIn
<1>5. known[s] \subseteq TakenIn(table) \ {s} /\ ApartFrom(table[s], known[s], table, pin)
  BY <1>2, <1>3, <1>4 DEF ApartFrom
<1>6. ASSUME NEW t \in Slots \ {s}
      PROVE  known[t] \subseteq TakenIn(table) \ {t} /\ ApartFrom(table[t], known[t], table, pin)
  <2>1. known[t] = against[t] \ {s}
    BY <1>6
  <2>2. against[t] \subseteq TakenIn(inst) \ {t} /\ ApartFrom(inst[t], against[t], inst, pin)
    BY <1>1, <1>6 DEF RowsApart
  <2> QED BY <1>3, <1>4, <2>1, <2>2 DEF ApartFrom
<1> QED BY <1>5, <1>6 DEF RowsApart

LEMMA DeleteInstKeeps ==
  ASSUME PortsIInv, NEW s \in Slots, DeleteInst(s)
  PROVE  PortsIInv'
<1>1. /\ s \in Taken /\ inst' = [inst EXCEPT ![s] = NoInst] /\ asked' = Lose(s)
      /\ against' = [t \in Slots |-> IF t = s THEN {} ELSE against[t] \ {s}]
      /\ pin' = pin /\ head' = head /\ portEdits' = portEdits /\ PortsTypeOK
  BY DEF DeleteInst, PortsIInv
<1>2. inst' \in [Slots -> PortRows] /\ against' \in [Slots -> SUBSET Slots]
  BY <1>1, NoInstIs, PortFacts
<1>3. RowsApart(inst', against', pin)
  <2>1. PICK rows : rows = {}
    OBVIOUS
  <2>2. /\ rows \in SUBSET (Taken \ {s}) /\ ApartFrom(NoInst, rows, inst, pin)
        /\ against' = [t \in Slots |-> IF t = s THEN rows ELSE against[t] \ {s}]
    BY <1>1, <2>1 DEF ApartFrom
  <2> QED BY <1>1, <2>2, RowsStayApart
<1>4. \A d \in Editors : AskApart(asked'[d], inst', pin)
  BY <1>1, LosersApart
<1>5. ASSUME NEW d \in Editors PROVE asked' \in [Editors -> Asks]
  BY <1>1, LoseIs
<1>6. asked' \in [Editors -> Asks]
  BY <1>1, <1>5 DEF Lose
<1>7. PortsTypeOK'
  BY <1>1, <1>2, <1>6 DEF PortsTypeOK, Asks
<1> QED BY <1>1, <1>3, <1>4, <1>7 DEF PortsIInv

LEMMA InsertKeeps ==
  ASSUME PortsIInv, NEW q \in Editors, NEW s \in Slots, Insert(q, s)
  PROVE  PortsIInv'
<1>1. PICK e : e = asked[q]
  OBVIOUS
<1>2. /\ s \notin Taken /\ inst' = [inst EXCEPT ![s] = e.row]
      /\ against' = [against EXCEPT ![s] = e.against]
      /\ asked' = [asked EXCEPT ![q] = Asked]
      /\ pin' = pin /\ head' = head /\ portEdits' = portEdits
  BY <1>1 DEF Insert
<1>3. /\ PortsTypeOK /\ RowsApart(inst, against, pin)
      /\ \A d \in Editors : AskApart(asked[d], inst, pin)
  BY DEF PortsIInv
<1>4. /\ inst \in [Slots -> PortRows] /\ asked \in [Editors -> Asks]
      /\ against \in [Slots -> SUBSET Slots] /\ Taken = TakenIn(inst)
  BY <1>3, PortFacts
<1>5. e \in Asks /\ e.row \in PortRows /\ e.against \in SUBSET Slots
  BY <1>1, <1>4, AskFields
<1>6. e.against \subseteq Taken /\ ApartFrom(e.row, e.against, inst, pin)
  BY <1>1, <1>3, <1>4 DEF AskApart
<1>7. \A t \in Slots : against[t] \subseteq Taken
  BY <1>3, <1>4 DEF RowsApart
<1>8. against' = [t \in Slots |-> IF t = s THEN e.against ELSE against[t] \ {s}]
  BY <1>2, <1>4, <1>7
<1>9. e.against \in SUBSET (Taken \ {s})
  BY <1>2, <1>6
<1>10. RowsApart(inst', against', pin)
  BY <1>2, <1>6, <1>8, <1>9, RowsStayApart
<1>11. ASSUME NEW d \in Editors PROVE AskApart(asked'[d], inst', pin)
  <2>1. CASE d = q
    BY <1>2, <1>4, <2>1, AskedIs
  <2>2. CASE d # q
    <3>1. AskApart(Lose(s)[d], inst', pin)
      BY <1>2, LosersApart
    <3>2. PICK f : f = asked[d]
      OBVIOUS
    <3>3. PICK g : g = Lose(s)[d]
      OBVIOUS
    <3>4. f \in Asks /\ AskApart(f, inst, pin) /\ asked'[d] = f
      BY <1>2, <1>3, <1>4, <2>2, <3>2
    <3>5. g.at = f.at /\ g.slot = f.slot /\ g.row = f.row /\ g.read = f.read
          /\ g.against = IF f.slot = s THEN {} ELSE f.against \ {s}
      <4>1. PICK l : l = Lose(s)
        OBVIOUS
      <4>2. /\ l[d].at = asked[d].at /\ l[d].slot = asked[d].slot
            /\ l[d].row = asked[d].row /\ l[d].read = asked[d].read
            /\ l[d].against = IF asked[d].slot = s THEN {} ELSE asked[d].against \ {s}
        <5>1. PortsTypeOK
          BY <1>3
        <5> QED BY <5>1, <4>1, LoseIs
      <4> QED BY <3>2, <3>3, <4>1, <4>2
    <3>6. f.against \subseteq Taken /\ f.against \ {s} = f.against
      BY <1>2, <1>4, <3>4 DEF AskApart
    <3>7. CASE f.slot # s
      <4>1. AskApart(g, inst', pin) /\ g.against = f.against
        BY <3>1, <3>3, <3>5, <3>6, <3>7
      <4>2. AskApart(f, inst', pin)
        BY <4>1, <3>5 DEF AskApart
      <4> QED BY <3>4, <4>2
    <3>8. CASE f.slot = s
      <4>1. ~(f.at = "edit" /\ f.against # {})
        BY <1>2, <1>4, <3>4, <3>8 DEF AskApart
      <4>2. \A t \in f.against : t \in TakenIn(inst') /\ inst'[t] = inst[t]
        BY <1>2, <1>4, <3>6 DEF TakenIn
      <4>3. AskApart(f, inst', pin)
        BY <3>4, <4>1, <4>2 DEF AskApart, ApartFrom
      <4> QED BY <3>4, <4>3
    <3> QED BY <3>7, <3>8
  <2> QED BY <2>1, <2>2
<1>12. /\ inst' \in [Slots -> PortRows] /\ against' \in [Slots -> SUBSET Slots]
       /\ asked' \in [Editors -> Asks]
  BY <1>2, <1>4, <1>5, AskedIs
<1>13. PortsTypeOK'
  BY <1>2, <1>3, <1>12 DEF PortsTypeOK, Asks
<1> QED BY <1>2, <1>10, <1>11, <1>13 DEF PortsIInv

LEMMA UpdateKeeps ==
  ASSUME PortsIInv, NEW q \in Editors, NEW s \in Slots, Update(q, s)
  PROVE  PortsIInv'
<1>1. PICK e : e = asked[q]
  OBVIOUS
<1>2. PICK r : r = Written(q, inst[s])
  OBVIOUS
<1>3. /\ e.at = "edit" /\ s = e.slot /\ s \in Taken
      /\ inst' = [inst EXCEPT ![s] = r]
      /\ against' = [t \in Slots |-> IF t = s THEN e.against ELSE against[t] \ {s}]
      /\ asked' = [Lose(s) EXCEPT ![q] = Asked]
      /\ pin' = pin /\ head' = head /\ portEdits' = portEdits
  BY <1>1, <1>2 DEF Update
<1>4. /\ PortsTypeOK /\ AskApart(e, inst, pin)
  BY <1>1 DEF PortsIInv
<1>5. /\ inst \in [Slots -> PortRows] /\ asked \in [Editors -> Asks]
      /\ against \in [Slots -> SUBSET Slots] /\ Taken = TakenIn(inst)
  BY <1>4, PortFacts
<1>6. e \in Asks /\ e.row \in PortRows /\ e.read \in PortRows /\ e.against \in SUBSET Slots
  BY <1>1, <1>5, AskFields
<1>7. r = [f \in {"host", "port", "tls", "member"} |->
             IF e.row[f] = e.read[f] THEN inst[s][f] ELSE e.row[f]]
  <2>1. DOMAIN inst[s] = {"host", "port", "tls", "member"}
    BY <1>5, RowFields
  <2> QED BY <1>1, <1>2, <2>1 DEF Written
<1>8. r \in PortRows
  <2>1. /\ r["host"] \in Hosts \union {NoHost, "head"} /\ r["port"] \in 0..MaxPort
        /\ r["tls"] \in {0, TlsPort} /\ r["member"] \in BOOLEAN
    <3>1. inst[s] \in PortRows
      BY <1>5
    <3> QED BY <1>6, <1>7, <3>1, RowFields
  <2>2. r = [host |-> r["host"], port |-> r["port"], tls |-> r["tls"], member |-> r["member"]]
    BY <1>7
  <2> QED BY <2>1, <2>2 DEF PortRows
<1>9. e.against # {} => r = e.row
  <2> SUFFICES ASSUME e.against # {} PROVE r = e.row
    OBVIOUS
  <2>1. inst[s] = e.read
    BY <1>3, <1>4 DEF AskApart
  <2>2. \A f \in {"host", "port", "tls", "member"} : r[f] = e.row[f]
    BY <1>7, <2>1
  <2>3. r = [host |-> r.host, port |-> r.port, tls |-> r.tls, member |-> r.member]
        /\ e.row = [host |-> e.row.host, port |-> e.row.port, tls |-> e.row.tls,
                    member |-> e.row.member]
    BY <1>6, <1>8, RowFields
  <2>4. r.host = e.row.host /\ r.port = e.row.port /\ r.tls = e.row.tls
        /\ r.member = e.row.member
    BY <2>2
  <2> QED BY <2>3, <2>4
<1>10. ApartFrom(r, e.against, inst, pin)
  BY <1>4, <1>9 DEF AskApart, ApartFrom
<1>11. e.against \in SUBSET (Taken \ {s})
  BY <1>3, <1>4, <1>5 DEF AskApart
<1>12. RowsApart(inst', against', pin)
  BY <1>3, <1>10, <1>11, RowsStayApart
<1>13. Lose(s) \in [Editors -> Asks]
  BY <1>4, LoseIs
<1>14. \A d \in Editors : AskApart(asked'[d], inst', pin)
  <2> TAKE d \in Editors
  <2>1. CASE d = q
    BY <1>3, <1>13, <2>1, AskedIs
  <2>2. CASE d # q
    <3>1. asked'[d] = Lose(s)[d]
      BY <1>3, <1>13, <2>2
    <3>2. AskApart(Lose(s)[d], inst', pin)
      BY <1>3, LosersApart
    <3> QED BY <3>1, <3>2
  <2> QED BY <2>1, <2>2
<1>15. /\ inst' \in [Slots -> PortRows] /\ against' \in [Slots -> SUBSET Slots]
       /\ asked' \in [Editors -> Asks]
  BY <1>3, <1>5, <1>6, <1>8, <1>13, AskedIs
<1>16. PortsTypeOK'
  BY <1>3, <1>4, <1>15 DEF PortsTypeOK, Asks
<1> QED BY <1>3, <1>12, <1>14, <1>16 DEF PortsIInv

LEMMA StaleKeeps ==
  ASSUME PortsIInv, NEW q \in Editors, Stale(q)
  PROVE  PortsIInv'
<1>1. /\ asked' = [asked EXCEPT ![q] = Asked] /\ inst' = inst /\ pin' = pin
      /\ head' = head /\ against' = against /\ portEdits' = portEdits
  BY DEF Stale
<1>2. /\ PortsTypeOK /\ RowsApart(inst, against, pin)
      /\ \A d \in Editors : AskApart(asked[d], inst, pin)
      /\ asked \in [Editors -> Asks]
  BY PortFacts DEF PortsIInv
<1>3. asked' \in [Editors -> Asks] /\ \A d \in Editors : AskApart(asked'[d], inst, pin)
  BY <1>1, <1>2, AskedIs
<1>4. PortsTypeOK'
  BY <1>1, <1>2, <1>3 DEF PortsTypeOK, Asks
<1> QED BY <1>1, <1>2, <1>3, <1>4 DEF PortsIInv

(* Whatever the endpoint pins, only members bind another port by it.        *)
LEMMA PinKeeps ==
  ASSUME PortsIInv, Pin
  PROVE  PortsIInv'
<1>1. PICK members : members = {s \in Taken : inst[s].member}
  OBVIOUS
<1>2. /\ portEdits < MaxPortEdits /\ portEdits' = portEdits + 1
      /\ pin' \in Ports \union {0} /\ inst' = inst /\ head' = head
      /\ against' = [t \in Slots |-> IF t \in members THEN {} ELSE against[t] \ members]
      /\ asked' = [q \in Editors |->
                   [asked[q] EXCEPT !.against =
                      IF asked[q].row.member THEN {} ELSE @ \ members]]
  BY <1>1 DEF Pin
<1>3. PICK p : p = pin'
  OBVIOUS
<1>4. /\ PortsTypeOK /\ RowsApart(inst, against, pin)
      /\ \A d \in Editors : AskApart(asked[d], inst, pin)
  BY DEF PortsIInv
<1>5. /\ inst \in [Slots -> PortRows] /\ asked \in [Editors -> Asks]
      /\ against \in [Slots -> SUBSET Slots] /\ Taken = TakenIn(inst)
  BY <1>4, PortFacts
<1>6. \A s \in Taken \ members : inst[s].member = FALSE
  <2> TAKE s \in Taken \ members
  <2>1. inst[s].member \in BOOLEAN
    BY <1>5, RowFields DEF Taken
  <2> QED BY <1>1, <2>1
<1>7. RowsApart(inst, against', p)
  <2> SUFFICES ASSUME NEW s \in Slots
               PROVE  /\ against'[s] \subseteq TakenIn(inst) \ {s}
                      /\ ApartFrom(inst[s], against'[s], inst, p)
    BY DEF RowsApart
  <2>1. against[s] \subseteq TakenIn(inst) \ {s} /\ ApartFrom(inst[s], against[s], inst, pin)
    BY <1>4 DEF RowsApart
  <2>2. CASE s \in members \/ against'[s] = {}
    BY <1>2, <2>2 DEF ApartFrom
  <2>3. CASE s \notin members /\ s \in Taken
    <3>1. against'[s] = against[s] \ members /\ inst[s].member = FALSE
      BY <1>2, <1>6, <2>3
    <3>2. ASSUME NEW t \in against'[s] PROVE PortsApart(inst[s], inst[t], p)
      <4>1. t \in Taken \ members /\ inst[t].member = FALSE
        BY <1>5, <1>6, <2>1, <3>1, <3>2
      <4>2. PortsApart(inst[s], inst[t], pin)
        BY <2>1, <3>1, <3>2 DEF ApartFrom
      <4> QED BY <3>1, <4>1, <4>2, PinnedOnly
    <3> QED BY <2>1, <3>1, <3>2 DEF ApartFrom
  <2>4. CASE s \notin Taken
    <3>1. inst[s] = NoInst /\ inst[s].member = FALSE /\ s \notin members
      BY <1>1, <1>5, <2>4 DEF TakenIn, NoInst
    <3>2. against'[s] = against[s] \ members
      BY <1>2, <3>1
    <3>3. ASSUME NEW t \in against'[s] PROVE PortsApart(inst[s], inst[t], p)
      <4>1. t \in Taken \ members /\ inst[t].member = FALSE
        BY <1>5, <1>6, <2>1, <3>2, <3>3
      <4>2. PortsApart(inst[s], inst[t], pin)
        BY <2>1, <3>2, <3>3 DEF ApartFrom
      <4> QED BY <3>1, <4>1, <4>2, PinnedOnly
    <3> QED BY <2>1, <3>2, <3>3 DEF ApartFrom
  <2> QED BY <2>2, <2>3, <2>4
<1>8. ASSUME NEW d \in Editors PROVE asked'[d] \in Asks /\ AskApart(asked'[d], inst, p)
  <2>1. PICK e : e = asked[d]
    OBVIOUS
  <2>2. PICK kept : kept = IF e.row.member THEN {} ELSE e.against \ members
    OBVIOUS
  <2>3. PICK g : g = [e EXCEPT !.against = kept]
    OBVIOUS
  <2>4. asked'[d] = g
    BY <1>2, <2>1, <2>2, <2>3
  <2>5. /\ e \in Asks /\ AskApart(e, inst, pin) /\ e.row \in PortRows
        /\ e.against \in SUBSET Slots
    BY <1>4, <1>5, <2>1, AskFields
  <2>6. kept \in SUBSET Slots /\ kept \subseteq e.against
    BY <2>2, <2>5
  <2>7. g \in Asks
    BY <2>3, <2>5, <2>6 DEF Asks
  <2>8. /\ g.at = e.at /\ g.slot = e.slot /\ g.row = e.row /\ g.read = e.read
        /\ g.against = kept
    BY <2>3, <2>5 DEF Asks
  <2>9. ApartFrom(e.row, kept, inst, p)
    <3> SUFFICES ASSUME NEW t \in kept PROVE PortsApart(e.row, inst[t], p)
      BY DEF ApartFrom
    <3>1. e.row.member = FALSE /\ t \in e.against \ members
      BY <2>2, <2>5, RowFields
    <3>2. t \in Taken \ members /\ inst[t].member = FALSE
      BY <1>5, <1>6, <2>5, <3>1 DEF AskApart
    <3>3. PortsApart(e.row, inst[t], pin)
      BY <2>5, <3>1 DEF AskApart, ApartFrom
    <3> QED BY <3>1, <3>2, <3>3, PinnedOnly
  <2>10. AskApart(g, inst, p)
    BY <2>5, <2>6, <2>8, <2>9 DEF AskApart
  <2> QED BY <2>4, <2>7, <2>10
<1>9. asked' \in [Editors -> Asks]
  BY <1>2, <1>8
<1>10. /\ against' \in [Slots -> SUBSET Slots] /\ pin' \in 0..MaxPort
       /\ portEdits' \in 0..MaxPortEdits
  <2>1. MaxPort \in Nat /\ MaxPortEdits \in Nat /\ portEdits \in 0..MaxPortEdits
    BY <1>4, PortFacts
  <2> QED BY <1>2, <1>5, <2>1 DEF Ports
<1>11. PortsTypeOK'
  BY <1>2, <1>4, <1>9, <1>10 DEF PortsTypeOK, Asks
<1> QED BY <1>2, <1>3, <1>7, <1>8, <1>11 DEF PortsIInv

LEMMA PortsStep ==
  ASSUME PortsIInv, [PortsNext]_portsVars
  PROVE  PortsIInv'
<1>1. CASE AddHead
  BY <1>1 DEF AddHead, PortsIInv, PortsTypeOK
<1>2. CASE UNCHANGED portsVars
  BY <1>2 DEF portsVars, PortsIInv, PortsTypeOK
<1> QED
  BY <1>1, <1>2, PinKeeps, CreateAutoKeeps, CreateExplicitKeeps, StaleKeeps, DeleteInstKeeps,
     EditKeeps, InsertKeeps, UpdateKeeps DEF PortsNext

(* Whatever requests overlap, for any slots, nodes, ports and pins: a row   *)
(* binds no port of a row its port was compared with, until one of the two  *)
(* or their endpoint changes (services/ports.py:81-108).                    *)
THEOREM PortsStayApart == PortsSpec => []PortsInv
<1>1. PortsIInv => PortsInv
  <2> SUFFICES ASSUME PortsIInv, NEW s \in Taken, NEW t \in against[s] \cap Taken
               PROVE  Effective(inst[s]) \notin {Effective(inst[t]), inst[t].tls}
    BY DEF PortsIInv, PortsInv, ComparedStayApart
  <2>1. PortsTypeOK /\ RowsApart(inst, against, pin) /\ s \in Slots
    BY DEF PortsIInv, Taken
  <2>2. PortsApart(inst[s], inst[t], pin)
    BY <2>1 DEF RowsApart, ApartFrom
  <2> QED BY <2>1, <2>2, PortFacts DEF PortsApart
<1> QED BY <1>1, PortsStart, PortsStep, PTL DEF PortsSpec
=============================================================================
