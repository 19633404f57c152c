------------------------------ MODULE NodeCerts -----------------------------
(***************************************************************************)
(* A node's certificate and the key it belongs to (services/nodecert.py,    *)
(* services/certrenew.py, the certificate routes of routers/nodes.py, the   *)
(* lifetimes of services/pki.py).  A signing request leaves a new key       *)
(* beside the live one; installing writes the certificate and then promotes *)
(* that key.  An operator with a CA of their own and the renewal loop do    *)
(* this at the same node, each with awaits between the steps.               *)
(***************************************************************************)
EXTENDS Integers, FiniteSets

CONSTANTS
  Lifetimes, \* certificate lifetimes there are, in ticks of the renewal loop
  MaxKeys,   \* bound on keys made
  MaxTick,   \* bound on the clock
  MaxEvents  \* bound on failures, missed intervals, uploads, requests and settings

ASSUME NodeCertsAssumption ==
  /\ Lifetimes \subseteq Nat \ {0, 1, 2} /\ Lifetimes # {}
  /\ MaxKeys \in Nat \ {0} /\ MaxTick \in Nat /\ MaxEvents \in Nat

VARIABLES
  certOf,  \* the key the node's certificate file was issued for
  liveKey, \* the key file
  newKey,  \* the staged key file, 0 when there is none
  keys,    \* keys made so far
  nodeRow, \* Node.tls_csr_pem set or not, tls_issued_at, tls_not_after; a certificate
  named,   \* Node.fqdn is set
  source, ttl, \* Setting.node_cert_source, node_cert_ttl_hours
  hour,    \* the clock
  work,    \* operator and renewer: place, keys, the lifetime and the row as loaded
  excused, \* history: an install was cut, two overlapped, or its key was not staged
  steady,  \* history: no setting and no name changed since the last install
  failing, \* history: intervals in a row without a pass that judged or renewed
  events

certVars == <<certOf, liveKey, newKey, keys, nodeRow, named, source, ttl, hour, work,
              excused, steady, failing, events>>
files    == <<certOf, liveKey, newKey>>
settings == <<named, source, ttl>>

Foreign == MaxKeys + 2 \* a key the node never had
Actors  == {"operator", "renewer"}
Away    == {"idle", "look"} \* places that are not at the node
CertPlaces == Away \union {"key", "sign", "request", "stage", "cert", "promote", "reload",
                           "commit"}
NodeRows0 == [csr : BOOLEAN, issued : 0..MaxTick, until : Nat, known : BOOLEAN]
Unloaded == [csr |-> FALSE, issued |-> 0, until |-> 0, known |-> FALSE]
Idle == [pc |-> "idle", key |-> 0, own |-> 0, ttl |-> 0, row |-> Unloaded]
CertWorks == [pc : CertPlaces, key : 0..Foreign, own : 0..MaxKeys,
              ttl : Lifetimes \union {0}, row : NodeRows0]

CertsTypeOK ==
  /\ certOf \in 0..Foreign /\ liveKey \in 0..MaxKeys /\ newKey \in 0..MaxKeys
  /\ keys \in 0..MaxKeys /\ nodeRow \in NodeRows0
  /\ named \in BOOLEAN /\ source \in {"none", "manual", "openbao"} /\ ttl \in Lifetimes
  /\ hour \in 0..MaxTick /\ failing \in 0..MaxTick /\ events \in 0..MaxEvents
  /\ work \in [Actors -> CertWorks]
  /\ excused \in BOOLEAN /\ steady \in BOOLEAN

CertsInit ==
  /\ certOf = 0 /\ liveKey = 0 /\ newKey = 0 /\ keys = 0
  /\ nodeRow = Unloaded
  /\ named \in BOOLEAN /\ source \in {"none", "openbao"} /\ ttl \in Lifetimes
  /\ hour = 0 /\ work = [a \in Actors |-> Idle]
  /\ excused = FALSE /\ steady = TRUE /\ failing = 0 /\ events = 0

-----------------------------------------------------------------------------
CertAt(a, place) == work[a].pc = place

Proceed(a, w) ==
  /\ work' = [work EXCEPT ![a] = w]
  /\ excused' = (excused \/ \A b \in Actors : work'[b].pc \notin Away)

Event == events < MaxEvents /\ events' = events + 1

(* Mutant: renewal waits until the lifetime is over.                        *)
BugRenewAfter(life) == life

(* lifetime_policy: renewal starts with a third of the lifetime left.       *)
RenewAfter(life) == (2 * life) \div 3

(* renewal_due: the age since the portal installed it, by the set lifetime. *)
RenewalDue(row, life) == row.known => hour - row.issued >= RenewAfter(life)

-----------------------------------------------------------------------------
(* An interval passes and the loop's pass begins.  It loads the setting and *)
(* the rows, and comes to the node after those before it: nothing without   *)
(* OpenBao, nothing for a node without a name.                              *)
RenewTick ==
  /\ CertAt("renewer", "idle") /\ hour < MaxTick /\ hour' = hour + 1
  /\ IF source = "openbao" /\ named
     THEN Proceed("renewer", [Idle EXCEPT !.pc = "look", !.ttl = ttl, !.row = nodeRow])
     ELSE UNCHANGED <<work, excused>>
  /\ UNCHANGED <<files, keys, nodeRow, settings, steady, failing, events>>

(* An interval passes without a pass: the last one is still at work, there  *)
(* or at another node, or the portal is down.                               *)
TickMissed ==
  /\ hour < MaxTick /\ hour' = hour + 1 /\ failing' = failing + 1
  /\ IF CertAt("renewer", "idle") THEN Event ELSE events' = events
  /\ UNCHANGED <<files, keys, nodeRow, settings, work, excused, steady>>

(* The pass comes to the node, with the row and the settings it loaded.     *)
Judged == source = "openbao" /\ named /\ work["renewer"].ttl = ttl

Look ==
  LET w == work["renewer"] IN
  /\ CertAt("renewer", "look")
  /\ IF RenewalDue(w.row, w.ttl)
     THEN /\ Proceed("renewer", [w EXCEPT !.pc = "key",
                                          !.row = [Unloaded EXCEPT !.csr = w.row.csr]])
          /\ failing' = failing
     ELSE /\ Proceed("renewer", Idle)
          /\ failing' = IF Judged THEN 0 ELSE failing + 1
  /\ UNCHANGED <<files, keys, nodeRow, settings, hour, steady, events>>

(* create_csr.                                                              *)
AskCsr ==
  /\ CertAt("operator", "idle") /\ Event /\ named
  /\ Proceed("operator", [Idle EXCEPT !.pc = "key", !.row.csr = nodeRow.csr])
  /\ UNCHANGED <<files, keys, nodeRow, settings, hour, steady, failing>>

(* An upload whose certificate is installed with this key.                  *)
Uploads(w, staged) ==
  /\ work' = [work EXCEPT !["operator"] = w]
  /\ excused' = (excused \/ w.key # staged \/ work["renewer"].pc \notin Away)

(* upload_certificate checks names and dates, and not the key: it may be    *)
(* any, when a request is pending and when a key is pasted beside it.       *)
Upload ==
  /\ CertAt("operator", "idle") /\ Event /\ named
  /\ \E life \in Lifetimes, key \in 1..keys + 1 \union {Foreign} :
       LET row == [Unloaded EXCEPT !.csr = nodeRow.csr, !.until = hour + life] IN
       \/ /\ nodeRow.csr /\ key # keys + 1
          /\ Uploads([pc |-> "cert", key |-> key, own |-> 0, ttl |-> 0, row |-> row], newKey)
          /\ keys' = keys
       \/ /\ keys < MaxKeys /\ keys' = keys + 1
          /\ Uploads([pc |-> "stage", key |-> key, own |-> keys', ttl |-> 0, row |-> row],
                     keys')
  /\ UNCHANGED <<files, nodeRow, settings, hour, steady, failing>>

-----------------------------------------------------------------------------
(* Mutant: the request is made over the live key.                           *)
BugMakeKey(a) ==
  /\ CertAt(a, "key") /\ keys < MaxKeys
  /\ keys' = keys + 1 /\ liveKey' = keys' /\ newKey' = 0
  /\ Proceed(a, [work[a] EXCEPT !.key = keys',
                 !.pc = IF a = "renewer" THEN "sign" ELSE "request"])
  /\ UNCHANGED <<certOf, nodeRow, settings, hour, steady, failing, events>>

(* csr_command: a new key beside the live one, over any staged before.      *)
MakeKey(a) ==
  /\ CertAt(a, "key") /\ keys < MaxKeys
  /\ keys' = keys + 1 /\ newKey' = keys'
  /\ Proceed(a, [work[a] EXCEPT !.key = keys',
                 !.pc = IF a = "renewer" THEN "sign" ELSE "request"])
  /\ UNCHANGED <<certOf, liveKey, nodeRow, settings, hour, steady, failing, events>>

CommitCsr ==
  /\ CertAt("operator", "request")
  /\ nodeRow' = [nodeRow EXCEPT !.csr = TRUE]
  /\ Proceed("operator", Idle)
  /\ UNCHANGED <<files, keys, settings, hour, steady, failing, events>>

(* sign_csr and the check of what came back; the role may grant less.       *)
Sign ==
  /\ CertAt("renewer", "sign")
  /\ \E life \in {l \in Lifetimes : l <= work["renewer"].ttl} :
       Proceed("renewer", [work["renewer"] EXCEPT !.pc = "cert", !.ttl = 0,
                                                  !.row.until = hour + life])
  /\ UNCHANGED <<files, keys, nodeRow, settings, hour, steady, failing, events>>

StageKey ==
  /\ CertAt("operator", "stage")
  /\ newKey' = work["operator"].own
  /\ Proceed("operator", [work["operator"] EXCEPT !.pc = "cert", !.own = 0])
  /\ UNCHANGED <<certOf, liveKey, keys, nodeRow, settings, hour, steady, failing, events>>

(* install: the certificate, then the staged key if there is one.           *)
WriteCert(a) ==
  /\ CertAt(a, "cert")
  /\ certOf' = work[a].key
  /\ Proceed(a, [work[a] EXCEPT !.pc = "promote"])
  /\ UNCHANGED <<liveKey, newKey, keys, nodeRow, settings, hour, steady, failing, events>>

(* Mutant: a key that is live already is kept.                              *)
BugPromoted == IF newKey # 0 /\ liveKey = 0 THEN newKey ELSE liveKey
Promoted == IF newKey # 0 THEN newKey ELSE liveKey

PromoteKey(a) ==
  /\ CertAt(a, "promote")
  /\ liveKey' = Promoted /\ newKey' = 0
  /\ Proceed(a, [work[a] EXCEPT !.key = 0,
                 !.pc = IF a = "renewer" THEN "reload" ELSE "commit"])
  /\ UNCHANGED <<certOf, keys, nodeRow, settings, hour, steady, failing, events>>

(* The renewal dates its row after the reload, and goes on to other nodes   *)
(* before the pass is committed.                                            *)
Dated ==
  /\ CertAt("renewer", "reload")
  /\ Proceed("renewer", [work["renewer"] EXCEPT !.pc = "commit", !.row.issued = hour])
  /\ UNCHANGED <<files, keys, nodeRow, settings, hour, steady, failing, events>>

(* What the session changed since it loaded the row.                        *)
IssuedBy(a) == IF a = "renewer" THEN work[a].row.issued ELSE hour

CommitCert(a) ==
  /\ CertAt(a, "commit")
  /\ nodeRow' = [csr |-> ~work[a].row.csr /\ nodeRow.csr, issued |-> IssuedBy(a),
                 until |-> work[a].row.until, known |-> TRUE]
  /\ steady' = TRUE
  /\ failing' = hour - IssuedBy(a)
  /\ Proceed(a, Idle)
  /\ UNCHANGED <<files, keys, settings, hour, events>>

(* SSH, the CA or the commit fails, or the portal dies there.               *)
CertFails(a) ==
  /\ work[a].pc # "idle" /\ Event
  /\ work' = [work EXCEPT ![a] = Idle]
  /\ excused' = (excused \/ CertAt(a, "promote"))
  /\ failing' = IF a = "renewer" THEN failing + 1 ELSE failing
  /\ UNCHANGED <<files, keys, nodeRow, settings, hour, steady>>

SetSource ==
  /\ Event
  /\ \/ source' \in {"none", "manual", "openbao"} \ {source} /\ ttl' = ttl
     \/ ttl' \in Lifetimes \ {ttl} /\ source' = source
  /\ steady' = FALSE
  /\ UNCHANGED <<files, keys, nodeRow, named, hour, work, excused, failing>>

(* update_node sets or clears the DNS name.                                 *)
SetName ==
  /\ Event /\ named' = ~named /\ steady' = FALSE
  /\ UNCHANGED <<files, keys, nodeRow, source, ttl, hour, work, excused, failing>>

CertsNext ==
  \/ RenewTick \/ TickMissed \/ Look \/ AskCsr \/ Upload \/ CommitCsr \/ Sign \/ StageKey
  \/ Dated \/ SetSource \/ SetName
  \/ \E a \in Actors : MakeKey(a) \/ WriteCert(a) \/ PromoteKey(a) \/ CommitCert(a)
                       \/ CertFails(a)

CertsSpec == CertsInit /\ [][CertsNext]_certVars

-----------------------------------------------------------------------------
Installing == \E a \in Actors : CertAt(a, "promote")

(* A node's key and certificate match but between the two writes of an      *)
(* install, or after one was cut there, after the operator and the renewal  *)
(* were at the node at once, or after a certificate was uploaded that is    *)
(* not of the key it is installed with, which nothing compares              *)
(* (services/nodecert.py:203-220, routers/nodes.py:264-285).                *)
MismatchHasCause == certOf = liveKey \/ Installing \/ excused

(* By the node's row, a certificate that was installed with more than two   *)
(* thirds of the set lifetime before it, and an interval more for each that *)
(* passed without a finished pass, is renewed before it expires, as long as *)
(* neither the settings nor the node's name have changed since              *)
(* (services/pki.py:86-89, 121, services/certrenew.py:95-117).              *)
RenewedInTime ==
  ( /\ source = "openbao" /\ named /\ nodeRow.known /\ steady
    /\ 3 * (nodeRow.until - nodeRow.issued) > 2 * ttl + 3 * failing )
  => hour < nodeRow.until

(* What certificates keep: the types, keys that match, and renewals in      *)
(* time (services/nodecert.py:187-222).                                     *)
CertsInv == CertsTypeOK /\ MismatchHasCause /\ RenewedInTime
=============================================================================
