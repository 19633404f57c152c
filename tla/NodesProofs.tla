------------------------------ MODULE NodesProofs ------------------------------
(***************************************************************************)
(* The work on the nodes, for any number of operations, keys and rows: no   *)
(* SSH connection is left behind, a node's certificate belongs to its key   *)
(* and is renewed in time, and a node's samples are its own.  And the files *)
(* of a model, for any tasks, workers, rows and restarts: who is in flight  *)
(* has a cause, and who is present has the files.  And the cluster, for any *)
(* nodes, images and jobs: what is recorded of it is true.                  *)
(***************************************************************************)
EXTENDS SshPool, NodeCerts, Sampler, ModelFiles, ClusterSetup, SequenceTheorems, TLAPS

Fetches(o) == op[o].at \in {"getting", "getting dials"}
Dials(o)   == op[o].at \in {"getting dials", "working dials"}

(* An operation has a client while it gets one or works, and that client is *)
(* the pooled one or a stray.                                               *)
ClientsKnown ==
  /\ 0 \notin strays
  /\ \A o \in SshOps :
       /\ op[o].client = 0 <=> op[o].at \in {"idle", "asking"}
       /\ op[o].client # 0 => op[o].client = pooled \/ op[o].client \in strays

(* get holds the pool's lock, so that the pool has its client or, dropped,  *)
(* none; connect holds the client's, which has no connection meanwhile.     *)
LocksHold ==
  /\ \A o, p \in SshOps : Fetches(o) /\ Fetches(p) => o = p
  /\ \A o \in SshOps : Fetches(o) => pooled \in {0, op[o].client}
  /\ \A o, p \in SshOps : Dials(o) /\ Dials(p) /\ op[o].client = op[p].client => o = p
  /\ \A o \in SshOps : Dials(o) => ssh[op[o].client] = 0

SshIInv == SshTypeOK /\ ClientsKnown /\ LocksHold /\ OpenIsTended

LEMMA SshNumbers == MaxClients \in Nat /\ MaxLinks \in Nat /\ MaxEdits \in Nat
BY SshBounds

(* The values an operation can have, and what can be changed of one.        *)
LEMMA NoOpIsUse == NoOp \in Uses /\ NoOp.client = 0 /\ NoOp.at = "idle"
BY SshNumbers DEF Uses, NoOp

LEMMA AskIsUse == \A e \in 0..MaxEdits : [at |-> "asking", read |-> e, client |-> 0] \in Uses
BY SshNumbers DEF Uses

LEMMA UseClient == \A u \in Uses : u.client \in 0..MaxClients /\ u.read \in 0..MaxEdits
BY SshNumbers DEF Uses

LEMMA GetIsUse ==
  \A u \in Uses : \A c \in 0..MaxClients :
    [u EXCEPT !.at = "getting", !.client = c] \in Uses
BY SshNumbers DEF Uses

LEMMA MoveIsUse ==
  \A u \in Uses : \A a \in {"getting dials", "working", "working dials"} :
    [u EXCEPT !.at = a] \in Uses
BY SshNumbers DEF Uses

LEMMA SshFacts ==
  ASSUME SshIInv
  PROVE  /\ SshTypeOK /\ ClientsKnown /\ LocksHold /\ OpenIsTended
         /\ op \in [SshOps -> Uses] /\ \A o \in SshOps : op[o].client \in 0..MaxClients
         /\ pooled \in 0..MaxClients /\ made \in 0..MaxClients
         /\ ssh \in [Clients -> 0..dialled] /\ dialled \in Nat /\ 0 \notin open
<1>1. SshTypeOK /\ ClientsKnown /\ LocksHold /\ OpenIsTended
  BY DEF SshIInv
<1>2. op \in [SshOps -> Uses] /\ \A o \in SshOps : op[o].client \in 0..MaxClients
  BY <1>1, UseClient DEF SshTypeOK
<1>3. pooled \in 0..MaxClients /\ made \in 0..MaxClients /\ 0 \notin open /\ dialled \in Nat
  BY <1>1, SshNumbers DEF SshTypeOK
<1> QED
  BY <1>1, <1>2, <1>3 DEF SshTypeOK

LEMMA IsClient == \A c \in 0..MaxClients : c # 0 => c \in Clients
BY SshNumbers DEF Clients

LEMMA DialClients ==
  ASSUME SshIInv, NEW p \in SshOps, Dials(p)
  PROVE  op[p].client \in Clients /\ op[p].client # 0 /\ ssh[op[p].client] = 0
<1>1. op[p].client # 0
  BY SshFacts DEF ClientsKnown, Dials
<1>2. op[p].client \in 0..MaxClients
  BY SshFacts
<1>3. ssh[op[p].client] = 0
  BY SshFacts DEF LocksHold
<1> QED
  BY <1>1, <1>2, <1>3, IsClient

LEMMA Moved ==
  ASSUME SshIInv, NEW o \in SshOps,
         NEW a \in {"getting dials", "working", "working dials"},
         op' = [op EXCEPT ![o].at = a]
  PROVE  /\ op' \in [SshOps -> Uses] /\ op'[o].at = a /\ op'[o].client = op[o].client
         /\ \A p \in SshOps : p # o => op'[p] = op[p]
<1>1. op \in [SshOps -> Uses] /\ op[o] \in Uses
  BY SshFacts
<1>2. [op[o] EXCEPT !.at = a] \in Uses
  BY <1>1, MoveIsUse
<1>3. op' \in [SshOps -> Uses] /\ \A p \in SshOps : p # o => op'[p] = op[p]
  BY <1>1, <1>2
<1>4. op'[o] = [op[o] EXCEPT !.at = a]
  BY <1>1
<1>5. op'[o].at = a /\ op'[o].client = op[o].client
  BY <1>1, <1>4 DEF Uses
<1> QED
  BY <1>3, <1>5

LEMMA Got ==
  ASSUME SshIInv, NEW o \in SshOps, NEW c \in 0..MaxClients,
         op' = [op EXCEPT ![o].at = "getting", ![o].client = c]
  PROVE  /\ op' \in [SshOps -> Uses] /\ op'[o].at = "getting" /\ op'[o].client = c
         /\ \A p \in SshOps : p # o => op'[p] = op[p]
<1>1. op \in [SshOps -> Uses] /\ op[o] \in Uses
  BY SshFacts
<1>2. [op[o] EXCEPT !.at = "getting", !.client = c] \in Uses
  BY <1>1, GetIsUse
<1>3. op'[o] = [op[o] EXCEPT !.at = "getting", !.client = c]
  BY <1>1
<1>4. op' \in [SshOps -> Uses] /\ \A p \in SshOps : p # o => op'[p] = op[p]
  BY <1>1, <1>2
<1>5. op'[o].at = "getting" /\ op'[o].client = c
  BY <1>1, <1>3 DEF Uses
<1> QED
  BY <1>4, <1>5

LEMMA SshStart == SshInit => SshIInv
<1> SUFFICES ASSUME SshInit PROVE SshIInv
  OBVIOUS
<1>1. /\ edition = 0 /\ dropping = FALSE /\ pooled = 0 /\ made = 0 /\ open = {}
      /\ conn = [c \in Clients |-> 0] /\ ssh = [c \in Clients |-> 0]
      /\ dialled = 0 /\ op = [o \in SshOps |-> NoOp] /\ strays = {}
  BY DEF SshInit
<1>2. SshTypeOK
  <2>1. 0 \in 0..MaxEdits /\ 0 \in 0..0 /\ 0 \in 0..MaxClients /\ 0 \in 0..MaxLinks
    BY SshNumbers
  <2> QED
    BY <1>1, <2>1, NoOpIsUse DEF SshTypeOK
<1>3. ClientsKnown /\ LocksHold /\ OpenIsTended
  BY <1>1, NoOpIsUse DEF ClientsKnown, LocksHold, OpenIsTended, Fetches, Dials
<1> QED
  BY <1>2, <1>3 DEF SshIInv

LEMMA AskKeeps == ASSUME SshIInv, NEW o \in SshOps, Ask(o) PROVE SshIInv'
<1>1. /\ op' = [op EXCEPT ![o] = [at |-> "asking", read |-> edition, client |-> 0]]
      /\ UNCHANGED <<edition, dropping, pooled, made, conn, ssh, open, dialled, strays>>
  BY DEF Ask
<1>2. edition \in 0..MaxEdits
  BY SshFacts DEF SshTypeOK
<1>3. /\ op' \in [SshOps -> Uses] /\ op'[o].at = "asking" /\ op'[o].client = 0
      /\ \A p \in SshOps : p # o => op'[p] = op[p]
  BY <1>1, <1>2, SshFacts, AskIsUse
<1>4. SshTypeOK'
  BY <1>1, <1>3, SshFacts DEF SshTypeOK, Clients
<1>5. ClientsKnown'
  BY <1>1, <1>3, SshFacts DEF ClientsKnown
<1>6. LocksHold'
  BY <1>1, <1>3, SshFacts DEF LocksHold, Fetches, Dials
<1>7. OpenIsTended'
  BY <1>1, SshFacts DEF OpenIsTended, Clients
<1> QED
  BY <1>4, <1>5, <1>6, <1>7 DEF SshIInv

LEMMA GetKeeps == ASSUME SshIInv, NEW o \in SshOps, Get(o) PROVE SshIInv'
<1> DEFINE Same == pooled # 0 /\ conn[pooled] = op[o].read
<1>1. /\ op[o].at = "asking" /\ \A p \in SshOps : ~Fetches(p)
      /\ UNCHANGED <<edition, dropping, dialled>>
  BY DEF Get, PoolLocked, Fetches
<1>2. CASE Same
  <2>1. /\ op' = [op EXCEPT ![o].at = "getting", ![o].client = pooled]
        /\ UNCHANGED <<pooled, made, conn, ssh, open, strays>>
    BY <1>2 DEF Get
  <2>2. /\ op' \in [SshOps -> Uses] /\ op'[o].at = "getting" /\ op'[o].client = pooled
        /\ \A p \in SshOps : p # o => op'[p] = op[p]
    BY <2>1, SshFacts, Got
  <2>3. SshTypeOK'
    BY <1>1, <2>1, <2>2, SshFacts DEF SshTypeOK, Clients
  <2>4. ClientsKnown'
    BY <1>2, <2>1, <2>2, SshFacts DEF ClientsKnown
  <2>5. LocksHold'
    BY <1>1, <2>1, <2>2, SshFacts DEF LocksHold, Fetches, Dials
  <2>6. OpenIsTended'
    BY <2>1, SshFacts DEF OpenIsTended, Clients
  <2> QED
    BY <2>3, <2>4, <2>5, <2>6 DEF SshIInv
<1>3. CASE ~Same
  <2>1. /\ made < MaxClients /\ made' = made + 1 /\ pooled' = made'
        /\ conn' = [conn EXCEPT ![made'] = op[o].read]
        /\ ssh' = Closed(pooled) /\ open' = Replaced
        /\ strays' = Strayed({})
        /\ op' = [op EXCEPT ![o].at = "getting", ![o].client = made']
    BY <1>3 DEF Get
  <2>2. made' \in 1..MaxClients /\ made' # 0 /\ made' \in Clients /\ made' \in 0..MaxClients
    BY <2>1, SshFacts, SshNumbers DEF Clients
  <2>3. /\ op' \in [SshOps -> Uses] /\ op'[o].at = "getting" /\ op'[o].client = made'
        /\ \A p \in SshOps : p # o => op'[p] = op[p]
    BY <2>1, <2>2, Got
  <2>4. /\ strays \subseteq strays' /\ strays' \subseteq Clients /\ 0 \notin strays'
        /\ \A p \in SshOps : op[p].client = pooled /\ pooled # 0 => pooled \in strays'
    <3>1. pooled # 0 => pooled \in Clients
      BY SshFacts, SshNumbers DEF Clients
    <3>2. strays \subseteq Clients /\ 0 \notin strays
      BY SshFacts DEF SshTypeOK, ClientsKnown
    <3> QED
      BY <2>1, <3>1, <3>2 DEF Strayed, Users
  <2>5. /\ ssh' \in [Clients -> 0..dialled]
        /\ \A c \in Clients : c # pooled => ssh'[c] = ssh[c]
        /\ \A c \in Clients : ssh[c] = 0 => ssh'[c] = 0
    BY <2>1, SshFacts DEF Closed
  <2>6. open' \subseteq open /\ (pooled # 0 => ssh[pooled] \notin open')
    BY <2>1 DEF Replaced, Link
  <2>7. SshTypeOK'
    <3>1. edition' \in 0..MaxEdits /\ dropping' \in BOOLEAN
      BY <1>1, SshFacts DEF SshTypeOK
    <3>2. conn' \in [Clients -> 0..MaxEdits]
      BY <2>1, SshFacts, UseClient DEF SshTypeOK
    <3>3. pooled' \in 0..made' /\ made' \in 0..MaxClients
      BY <2>1, <2>2, SshNumbers
    <3>4. dialled' \in 0..MaxLinks /\ open' \subseteq 1..dialled'
      BY <1>1, <2>6, SshFacts DEF SshTypeOK
    <3> QED
      BY <1>1, <2>3, <2>4, <2>5, <3>1, <3>2, <3>3, <3>4 DEF SshTypeOK, Clients
  <2>8. ClientsKnown'
    BY <1>1, <2>1, <2>2, <2>3, <2>4, SshFacts DEF ClientsKnown
  <2>9. LocksHold'
    <3>1. \A p, q \in SshOps : Fetches(p)' /\ Fetches(q)' => p = q
      BY <1>1, <2>3 DEF Fetches
    <3>2. \A p \in SshOps : Fetches(p)' => pooled' \in {0, op'[p].client}
      BY <1>1, <2>1, <2>3 DEF Fetches
    <3>3. \A p \in SshOps : Dials(p)' => Dials(p) /\ op'[p] = op[p]
      BY <2>3 DEF Dials
    <3>4. \A p \in SshOps : Dials(p) => op[p].client \in Clients /\ ssh[op[p].client] = 0
      BY DialClients
    <3> QED
      BY <2>5, <3>1, <3>2, <3>3, <3>4, SshFacts DEF LocksHold
  <2>10. OpenIsTended'
    <3>1. ASSUME NEW l \in open' PROVE \E c \in Clients : ssh'[c] = l /\ c \in strays'
      <4>1. PICK c \in Clients : ssh[c] = l /\ (c = pooled \/ c \in strays)
        BY <2>6, <3>1, SshFacts DEF OpenIsTended
      <4>2. c # pooled
        BY <2>2, <2>6, <3>1, <4>1, SshNumbers DEF Clients
      <4> QED
        BY <2>4, <2>5, <4>1, <4>2
    <3> QED
      BY <3>1 DEF OpenIsTended, Clients
  <2> QED
    BY <2>7, <2>8, <2>9, <2>10 DEF SshIInv
<1> QED
  BY <1>2, <1>3

LEMMA ConnectedKeeps == ASSUME SshIInv, NEW o \in SshOps, Connected(o) PROVE SshIInv'
<1>1. /\ op[o].at = "getting" /\ op' = [op EXCEPT ![o].at = "working"]
      /\ UNCHANGED <<edition, dropping, pooled, made, conn, ssh, open, dialled, strays>>
  BY DEF Connected, Moves
<1>2. /\ op' \in [SshOps -> Uses] /\ op'[o].at = "working" /\ op'[o].client = op[o].client
      /\ \A p \in SshOps : p # o => op'[p] = op[p]
  BY <1>1, Moved
<1>3. SshTypeOK'
  BY <1>1, <1>2, SshFacts DEF SshTypeOK, Clients
<1>4. ClientsKnown'
  BY <1>1, <1>2, SshFacts DEF ClientsKnown
<1>5. LocksHold'
  BY <1>1, <1>2, SshFacts DEF LocksHold, Fetches, Dials
<1>6. OpenIsTended'
  BY <1>1, SshFacts DEF OpenIsTended, Clients
<1> QED
  BY <1>3, <1>4, <1>5, <1>6 DEF SshIInv

LEMMA DialKeeps == ASSUME SshIInv, NEW o \in SshOps, Dial(o) PROVE SshIInv'
<1> DEFINE c == op[o].client
           to == IF op[o].at = "getting" THEN "getting dials" ELSE "working dials"
<1>1. /\ op[o].at \in {"getting", "working"} /\ ssh[c] \notin open
      /\ ssh' = Closed(c) /\ op' = [op EXCEPT ![o].at = to]
      /\ \A p \in SshOps : op[p].client = c => ~Dials(p)
      /\ UNCHANGED <<edition, dropping, pooled, made, conn, open, dialled, strays>>
  BY DEF Dial, Usable, Dialling, Users, Dials, Moves
<1>9. /\ to \in {"getting dials", "working dials"}
      /\ to = "getting dials" => op[o].at = "getting"
  OBVIOUS
<1> HIDE DEF to
<1>2. c \in Clients
  <2>1. c # 0
    BY <1>1, SshFacts DEF ClientsKnown
  <2> QED
    BY <2>1, SshFacts, IsClient
<1>3. /\ op' \in [SshOps -> Uses] /\ op'[o].at = to /\ op'[o].client = c
      /\ \A p \in SshOps : p # o => op'[p] = op[p]
  BY <1>1, <1>9, Moved
<1>4. /\ ssh' \in [Clients -> 0..dialled] /\ ssh'[c] = 0
      /\ \A d \in Clients : d # c => ssh'[d] = ssh[d]
  BY <1>1, <1>2, SshFacts DEF Closed
<1>5. SshTypeOK'
  BY <1>1, <1>3, <1>4, SshFacts DEF SshTypeOK, Clients
<1>6. ClientsKnown'
  <2>1. c # 0 /\ (c = pooled \/ c \in strays) /\ 0 \notin strays
    BY <1>1, SshFacts DEF ClientsKnown
  <2>2. op'[o].at \notin {"idle", "asking"}
    BY <1>3, <1>9
  <2>3. \A p \in SshOps : p # o =>
          /\ op'[p].client = 0 <=> op'[p].at \in {"idle", "asking"}
          /\ op'[p].client # 0 => op'[p].client = pooled \/ op'[p].client \in strays
    BY <1>3, SshFacts DEF ClientsKnown
  <2> QED
    BY <1>1, <1>3, <2>1, <2>2, <2>3 DEF ClientsKnown
<1>7. LocksHold'
  <2>1. /\ \A p, q \in SshOps : Fetches(p)' /\ Fetches(q)' => p = q
        /\ \A p \in SshOps : Fetches(p)' => pooled' \in {0, op'[p].client}
    BY <1>1, <1>3, <1>9, SshFacts DEF LocksHold, Fetches
  <2>2. \A p, q \in SshOps : Dials(p)' /\ Dials(q)' /\ op'[p].client = op'[q].client => p = q
    BY <1>1, <1>3, <1>9, SshFacts DEF LocksHold, Dials
  <2>3. ASSUME NEW p \in SshOps, Dials(p)' PROVE ssh'[op'[p].client] = 0
    <3>1. CASE p = o
      BY <1>3, <1>4, <3>1
    <3>2. CASE p # o
      <4>1. Dials(p) /\ op'[p] = op[p]
        BY <1>3, <2>3, <3>2 DEF Dials
      <4>2. op[p].client \in Clients /\ ssh[op[p].client] = 0
        BY <4>1, DialClients
      <4> QED
        BY <1>4, <4>1, <4>2
    <3> QED
      BY <3>1, <3>2
  <2> QED
    BY <2>1, <2>2, <2>3 DEF LocksHold
<1>8. OpenIsTended'
  <2>1. ASSUME NEW l \in open
        PROVE  \E d \in Clients : ssh'[d] = l /\ (d = pooled \/ d \in strays)
    <3>1. PICK d \in Clients : ssh[d] = l /\ (d = pooled \/ d \in strays)
      BY <2>1, SshFacts DEF OpenIsTended
    <3> QED
      BY <1>1, <1>4, <2>1, <3>1
  <2> QED
    BY <1>1, <2>1 DEF OpenIsTended, Clients
<1> QED
  BY <1>5, <1>6, <1>7, <1>8 DEF SshIInv

LEMMA DialSucceedsKeeps ==
  ASSUME SshIInv, NEW o \in SshOps, DialSucceeds(o) PROVE SshIInv'
<1> DEFINE c == op[o].client
<1>1. /\ Dials(o) /\ dialled < MaxLinks /\ dialled' = dialled + 1
      /\ open' = open \union {dialled'} /\ ssh' = [ssh EXCEPT ![c] = dialled']
      /\ op' = [op EXCEPT ![o].at = "working"]
      /\ UNCHANGED <<edition, dropping, pooled, made, conn, strays>>
  BY DEF DialSucceeds, Dials, Moves
<1>2. c \in Clients /\ ssh[c] = 0 /\ c # 0
  BY <1>1, DialClients
<1>3. /\ op' \in [SshOps -> Uses] /\ op'[o].at = "working" /\ op'[o].client = c
      /\ \A p \in SshOps : p # o => op'[p] = op[p]
  BY <1>1, Moved
<1>4. /\ ssh'[c] = dialled' /\ \A d \in Clients : d # c => ssh'[d] = ssh[d]
      /\ dialled' \in 0..MaxLinks /\ dialled' \in 1..dialled' /\ ssh' \in [Clients -> 0..dialled']
  BY <1>1, <1>2, SshFacts, SshNumbers
<1>5. SshTypeOK'
  <2>1. open \subseteq 1..dialled'
    BY <1>1, SshFacts DEF SshTypeOK
  <2> QED
    BY <1>1, <1>3, <1>4, <2>1, SshFacts DEF SshTypeOK, Clients
<1>6. ClientsKnown'
  BY <1>1, <1>2, <1>3, SshFacts DEF ClientsKnown
<1>7. LocksHold'
  <2>1. /\ \A p, q \in SshOps : Fetches(p)' /\ Fetches(q)' => p = q
        /\ \A p \in SshOps : Fetches(p)' => pooled' \in {0, op'[p].client}
    BY <1>1, <1>3, SshFacts DEF LocksHold, Fetches
  <2>2. \A p \in SshOps : Dials(p)' => p # o /\ Dials(p) /\ op'[p] = op[p]
    BY <1>3 DEF Dials
  <2>3. ASSUME NEW p \in SshOps, Dials(p)' PROVE ssh'[op'[p].client] = 0
    <3>1. op[p].client \in Clients /\ ssh[op[p].client] = 0
      BY <2>2, <2>3, DialClients
    <3>2. op[p].client # c
      BY <1>1, <2>2, <2>3, SshFacts DEF LocksHold
    <3> QED
      BY <1>4, <2>2, <2>3, <3>1, <3>2
  <2>4. \A p, q \in SshOps : Dials(p)' /\ Dials(q)' /\ op'[p].client = op'[q].client => p = q
    BY <2>2, SshFacts DEF LocksHold
  <2> QED
    BY <2>1, <2>3, <2>4 DEF LocksHold
<1>8. OpenIsTended'
  <2>1. c = pooled \/ c \in strays
    BY <1>2, SshFacts DEF ClientsKnown
  <2>2. ASSUME NEW l \in open
        PROVE  \E d \in Clients : ssh'[d] = l /\ (d = pooled \/ d \in strays)
    BY <1>2, <1>4, SshFacts DEF OpenIsTended
  <2> QED
    BY <1>1, <1>2, <1>4, <2>1, <2>2 DEF OpenIsTended, Clients
<1> QED
  BY <1>5, <1>6, <1>7, <1>8 DEF SshIInv

(* An operation ends; its client is as it was, and stays pooled or a stray. *)
LEMMA EndKeeps ==
  ASSUME SshIInv, NEW o \in SshOps, op' = [op EXCEPT ![o] = NoOp],
         UNCHANGED <<made, dialled, conn, edition, dropping>>,
         ssh' \in [Clients -> 0..dialled], \A d \in Clients : ssh[d] = 0 => ssh'[d] = 0,
         pooled' \in {0, pooled}, open' \subseteq open,
         strays \subseteq strays', strays' \subseteq strays \union {pooled}, 0 \notin strays',
         \A p \in SshOps \ {o} : op[p].client = pooled /\ pooled # 0
                                 => pooled' = pooled \/ pooled \in strays',
         OpenIsTended'
  PROVE  SshIInv'
<1>1. /\ op' \in [SshOps -> Uses] /\ op'[o].at = "idle" /\ op'[o].client = 0
      /\ \A p \in SshOps : p # o => op'[p] = op[p]
  BY SshFacts, NoOpIsUse
<1>2. SshTypeOK'
  <2>1. strays' \subseteq Clients
    BY SshFacts, SshNumbers DEF SshTypeOK, Clients
  <2>2. pooled' \in 0..made
    BY SshFacts, SshNumbers DEF SshTypeOK
  <2> QED
    BY <1>1, <2>1, <2>2, SshFacts DEF SshTypeOK, Clients
<1>3. ClientsKnown'
  BY <1>1, SshFacts DEF ClientsKnown
<1>4. LocksHold'
  <2>1. /\ \A p, q \in SshOps : Fetches(p)' /\ Fetches(q)' => p = q
        /\ \A p \in SshOps : Fetches(p)' => pooled' \in {0, op'[p].client}
    BY <1>1, SshFacts DEF LocksHold, Fetches
  <2>2. \A p \in SshOps : Dials(p)' => p # o /\ Dials(p) /\ op'[p] = op[p]
    BY <1>1 DEF Dials
  <2>3. \A p \in SshOps : Dials(p) => op[p].client \in Clients /\ ssh[op[p].client] = 0
    BY DialClients
  <2> QED
    BY <2>1, <2>2, <2>3, SshFacts DEF LocksHold
<1> QED
  BY <1>2, <1>3, <1>4 DEF SshIInv

LEMMA DialFailsKeeps == ASSUME SshIInv, NEW o \in SshOps, DialFails(o) PROVE SshIInv'
<1>1. /\ Dials(o) /\ op' = [op EXCEPT ![o] = NoOp]
      /\ UNCHANGED <<edition, dropping, made, conn, ssh, open, dialled>>
  BY DEF DialFails, Dials
<1>2. CASE op[o].at = "getting dials"
  <2>1. pooled' = 0 /\ strays' = Strayed({o})
    BY <1>2 DEF DialFails
  <2>2. /\ strays \subseteq strays' /\ strays' \subseteq strays \union {pooled} /\ 0 \notin strays'
        /\ \A p \in SshOps \ {o} : op[p].client = pooled /\ pooled # 0 => pooled \in strays'
    BY <2>1, SshFacts DEF ClientsKnown, Strayed, Users
  <2>3. pooled # 0 => ssh[pooled] = 0
    BY <1>1, <1>2, SshFacts DEF LocksHold, Fetches
  <2>4. OpenIsTended'
    <3>1. ASSUME NEW l \in open PROVE \E c \in Clients : ssh[c] = l /\ c \in strays
      <4>1. PICK c \in Clients : ssh[c] = l /\ (c = pooled \/ c \in strays)
        BY <3>1, SshFacts DEF OpenIsTended
      <4>2. c # pooled
        BY <2>3, <3>1, <4>1, SshFacts, SshNumbers DEF Clients
      <4> QED
        BY <4>1, <4>2
    <3> QED
      BY <1>1, <2>2, <3>1 DEF OpenIsTended, Clients
  <2> QED
    BY <1>1, <2>1, <2>2, <2>4, SshFacts, EndKeeps
<1>3. CASE op[o].at # "getting dials"
  <2>1. pooled' = pooled /\ strays' = strays
    BY <1>3 DEF DialFails
  <2>2. OpenIsTended' /\ 0 \notin strays'
    BY <1>1, <2>1, SshFacts DEF OpenIsTended, ClientsKnown, Clients
  <2> QED
    BY <1>1, <2>1, <2>2, SshFacts, EndKeeps
<1> QED
  BY <1>2, <1>3

LEMMA FinishKeeps == ASSUME SshIInv, NEW o \in SshOps, Finish(o) PROVE SshIInv'
<1>1. /\ op' = [op EXCEPT ![o] = NoOp]
      /\ UNCHANGED <<edition, dropping, pooled, made, conn, ssh, open, dialled, strays>>
  BY DEF Finish
<1>2. OpenIsTended' /\ 0 \notin strays'
  BY <1>1, SshFacts DEF OpenIsTended, ClientsKnown, Clients
<1> QED
  BY <1>1, <1>2, SshFacts, EndKeeps

LEMMA RunFailsKeeps == ASSUME SshIInv, NEW o \in SshOps, RunFails(o) PROVE SshIInv'
<1> DEFINE c == op[o].client
<1>1. /\ op[o].at = "working" /\ op' = [op EXCEPT ![o] = NoOp]
      /\ ssh' = Closed(c) /\ open' = open \ {ssh[c]}
      /\ UNCHANGED <<edition, dropping, pooled, made, conn, dialled, strays>>
  BY DEF RunFails
<1>2. /\ ssh' \in [Clients -> 0..dialled]
      /\ \A d \in Clients : (d # c => ssh'[d] = ssh[d]) /\ (ssh[d] = 0 => ssh'[d] = 0)
  BY <1>1, SshFacts DEF Closed
<1>3. OpenIsTended' /\ 0 \notin strays'
  BY <1>1, <1>2, SshFacts DEF OpenIsTended, ClientsKnown, Clients
<1> QED
  BY <1>1, <1>2, <1>3, SshFacts, EndKeeps

LEMMA LinkKeeps == ASSUME SshIInv, LinkDies \/ EditNode PROVE SshIInv'
<1>1. /\ open' \subseteq open
      /\ UNCHANGED <<pooled, made, conn, ssh, dialled, op, strays>>
  BY DEF LinkDies, EditNode
<1>2. edition' \in 0..MaxEdits /\ dropping' \in BOOLEAN
  <2>1. edition \in 0..MaxEdits /\ dropping \in BOOLEAN
    BY SshFacts DEF SshTypeOK
  <2>2. CASE LinkDies
    BY <2>1, <2>2 DEF LinkDies
  <2>3. CASE EditNode
    BY <2>1, <2>3, SshNumbers DEF EditNode
  <2> QED
    BY <2>2, <2>3
<1>3. SshTypeOK'
  BY <1>1, <1>2, SshFacts DEF SshTypeOK, Clients
<1>4. ClientsKnown'
  BY <1>1, SshFacts DEF ClientsKnown
<1>5. LocksHold'
  BY <1>1, SshFacts DEF LocksHold, Fetches, Dials
<1>6. OpenIsTended'
  BY <1>1, SshFacts DEF OpenIsTended, Clients
<1> QED
  BY <1>3, <1>4, <1>5, <1>6 DEF SshIInv

LEMMA DropKeeps == ASSUME SshIInv, Drop PROVE SshIInv'
<1>1. /\ dropping' = FALSE /\ pooled' = 0 /\ strays' = Strayed({})
      /\ open' = open \ Link(pooled) /\ ssh' = Closed(pooled)
      /\ UNCHANGED <<edition, made, conn, dialled, op>>
  BY DEF Drop
<1>2. /\ strays \subseteq strays' /\ strays' \subseteq strays \union {pooled} /\ 0 \notin strays'
      /\ \A p \in SshOps : op[p].client = pooled /\ pooled # 0 => pooled \in strays'
  BY <1>1, SshFacts DEF ClientsKnown, Strayed, Users
<1>3. /\ ssh' \in [Clients -> 0..dialled]
      /\ \A c \in Clients : (c # pooled => ssh'[c] = ssh[c]) /\ (ssh[c] = 0 => ssh'[c] = 0)
  BY <1>1, SshFacts DEF Closed
<1>4. open' \subseteq open /\ (pooled # 0 => ssh[pooled] \notin open')
  BY <1>1 DEF Link
<1>5. SshTypeOK'
  <2>1. strays' \subseteq Clients
    BY <1>2, SshFacts, SshNumbers DEF SshTypeOK, Clients
  <2>2. 0 \in 0..made
    BY SshFacts, SshNumbers
  <2>3. /\ edition' \in 0..MaxEdits /\ conn' \in [Clients -> 0..MaxEdits]
        /\ open' \subseteq 1..dialled
    BY <1>1, <1>4, SshFacts DEF SshTypeOK, Clients
  <2> QED
    BY <1>1, <1>3, <2>1, <2>2, <2>3, SshFacts DEF SshTypeOK, Clients
<1>6. ClientsKnown'
  BY <1>1, <1>2, SshFacts DEF ClientsKnown
<1>7. LocksHold'
  <2>1. \A p \in SshOps : Dials(p) => op[p].client \in Clients /\ ssh[op[p].client] = 0
    BY DialClients
  <2> QED
    BY <1>1, <1>3, <2>1, SshFacts DEF LocksHold, Fetches, Dials
<1>8. OpenIsTended'
  <2>1. ASSUME NEW l \in open' PROVE \E c \in Clients : ssh'[c] = l /\ c \in strays'
    <3>1. PICK c \in Clients : ssh[c] = l /\ (c = pooled \/ c \in strays)
      BY <1>4, <2>1, SshFacts DEF OpenIsTended
    <3>2. c # pooled
      BY <1>4, <2>1, <3>1, SshNumbers DEF Clients
    <3> QED
      BY <1>2, <1>3, <3>1, <3>2
  <2> QED
    BY <2>1 DEF OpenIsTended, Clients
<1> QED
  BY <1>5, <1>6, <1>7, <1>8 DEF SshIInv

LEMMA SshStep == SshIInv /\ [SshNext]_sshVars => SshIInv'
<1> SUFFICES ASSUME SshIInv, [SshNext]_sshVars PROVE SshIInv'
  OBVIOUS
<1>1. CASE UNCHANGED sshVars
  BY <1>1
     DEF sshVars, SshIInv, SshTypeOK, ClientsKnown, LocksHold, OpenIsTended, Fetches, Dials
<1>2. CASE SshNext
  BY <1>2, AskKeeps, GetKeeps, ConnectedKeeps, DialKeeps, DialSucceedsKeeps,
     DialFailsKeeps, FinishKeeps, RunFailsKeeps, LinkKeeps, DropKeeps DEF SshNext
<1> QED
  BY <1>1, <1>2

(* No connection is left open behind everybody's back, for any number of    *)
(* operations, clients, links and edits: each is that of the pooled client  *)
(* or of one that left the pool in use (ssh/pool.py:27-47).                 *)
THEOREM ConnectionsAreTended == SshSpec => []SshInv
<1>1. SshIInv => SshInv
  BY DEF SshIInv, SshInv
<1> QED
  BY <1>1, SshStart, SshStep, PTL DEF SshSpec

-----------------------------------------------------------------------------
(* Who installs a certificate has one.                                      *)
HasKey ==
  \A a \in Actors :
    work[a].pc \in {"sign", "stage", "cert", "promote"} => work[a].key # 0

(* Unless something excuses a mismatch: one actor at the node at a time,    *)
(* whose key is the staged one until it is promoted, and the live key is    *)
(* that of the certificate but between the two writes.                      *)
Keyed ==
  /\ \E b \in Actors : work[b].pc \in Away
  /\ \A a \in Actors : work[a].pc \in {"sign", "cert", "promote"} => work[a].key = newKey
  /\ \A a \in Actors : work[a].pc = "stage" => work[a].key = work[a].own
  /\ \A a \in Actors : work[a].pc = "promote" => newKey = certOf
  /\ certOf = liveKey \/ Installing

(* A pass loaded no later row than there is, and what it dated is past.     *)
Loaded ==
  /\ nodeRow.issued <= hour
  /\ work["renewer"].pc = "look" =>
       /\ work["renewer"].ttl \in Lifetimes
       /\ work["renewer"].row.known =>
            nodeRow.known /\ work["renewer"].row.issued <= nodeRow.issued
  /\ work["renewer"].pc = "commit" => work["renewer"].row.issued <= hour

(* A renewal that is due and not under way has lost a pass for each         *)
(* interval since it was due; a pass takes an interval.                     *)
InHand ==
  /\ failing <= hour /\ (work["renewer"].pc # "idle" => failing < hour)
  /\ source = "openbao" /\ named /\ nodeRow.known /\ steady =>
       /\ hour - nodeRow.issued <= RenewAfter(ttl) + failing
       /\ work["renewer"].pc = "idle" => hour - nodeRow.issued < RenewAfter(ttl) + failing

CertIInv == CertsTypeOK /\ HasKey /\ (~excused => Keyed) /\ Loaded /\ InHand

LEMMA CertNumbers ==
  /\ MaxKeys \in Nat /\ MaxKeys # 0 /\ MaxTick \in Nat /\ MaxEvents \in Nat
  /\ \A l \in Lifetimes : l \in Nat /\ l >= 3
  /\ Foreign \in Nat /\ 0 \in 0..Foreign /\ 0 \in 0..MaxKeys
  /\ \A k \in 0..MaxKeys : k \in 0..Foreign
BY NodeCertsAssumption DEF Foreign

LEMMA RenewAfterIs ==
  ASSUME NEW l \in Nat, l >= 3
  PROVE  RenewAfter(l) \in Nat /\ RenewAfter(l) > 0 /\ 3 * RenewAfter(l) <= 2 * l
BY DEF RenewAfter

LEMMA UnloadedIs == Unloaded \in NodeRows0 /\ Idle \in CertWorks /\ Idle.pc = "idle"
<1>1. Unloaded \in NodeRows0
  BY CertNumbers DEF Unloaded, NodeRows0
<1> QED
  BY <1>1, CertNumbers DEF Idle, CertWorks, CertPlaces, Away

(* The values of a row and of an actor's work, and what is made of them.    *)
LEMMA RowFields ==
  \A r \in NodeRows0 :
    r.csr \in BOOLEAN /\ r.issued \in 0..MaxTick /\ r.until \in Nat /\ r.known \in BOOLEAN
BY DEF NodeRows0

LEMMA WorkFields ==
  \A w \in CertWorks :
    /\ w.pc \in CertPlaces /\ w.key \in 0..Foreign /\ w.own \in 0..MaxKeys
    /\ w.row \in NodeRows0
BY DEF CertWorks

LEMMA LookWork ==
  ASSUME NEW row \in NodeRows0, NEW t \in Lifetimes
  PROVE  LET v == [Idle EXCEPT !.pc = "look", !.ttl = t, !.row = row] IN
         v \in CertWorks /\ v.pc = "look" /\ v.ttl = t /\ v.row = row
<1>1. Idle \in CertWorks
  BY UnloadedIs
<1> QED
  BY <1>1 DEF CertWorks, CertPlaces, Away

LEMMA AskRow ==
  ASSUME NEW c \in BOOLEAN, NEW u \in Nat
  PROVE  [Unloaded EXCEPT !.csr = c, !.until = u] \in NodeRows0
         /\ [Unloaded EXCEPT !.csr = c] \in NodeRows0
BY UnloadedIs DEF NodeRows0

LEMMA DueWork ==
  ASSUME NEW w \in CertWorks
  PROVE  LET v == [w EXCEPT !.pc = "key", !.row = [Unloaded EXCEPT !.csr = w.row.csr]] IN
         v \in CertWorks /\ v.pc = "key"
<1>1. w.row.csr \in BOOLEAN /\ 0 \in Nat
  BY WorkFields, RowFields
<1>2. [Unloaded EXCEPT !.csr = w.row.csr] \in NodeRows0
  BY <1>1, AskRow
<1> DEFINE r == [Unloaded EXCEPT !.csr = w.row.csr]
<1>3. r \in NodeRows0
  BY <1>2
<1> HIDE DEF r
<1>4. LET v == [w EXCEPT !.pc = "key", !.row = r] IN v \in CertWorks /\ v.pc = "key"
  BY <1>3 DEF CertWorks, CertPlaces
<1> QED
  BY <1>4 DEF r

LEMMA AskWork ==
  ASSUME NEW c \in BOOLEAN
  PROVE  LET v == [Idle EXCEPT !.pc = "key", !.row.csr = c] IN
         v \in CertWorks /\ v.pc = "key"
<1>1. Idle \in CertWorks
  BY UnloadedIs
<1> QED
  BY <1>1 DEF CertWorks, CertPlaces, NodeRows0

LEMMA UploadWork ==
  ASSUME NEW row \in NodeRows0, NEW k \in 0..Foreign, NEW o \in 0..MaxKeys,
         NEW pc \in {"cert", "stage"}
  PROVE  [pc |-> pc, key |-> k, own |-> o, ttl |-> 0, row |-> row] \in CertWorks
BY DEF CertWorks, CertPlaces

LEMMA KeyWork ==
  ASSUME NEW w \in CertWorks, NEW k \in 0..Foreign, NEW pc \in {"sign", "request"}
  PROVE  LET v == [w EXCEPT !.key = k, !.pc = pc] IN
         v \in CertWorks /\ v.key = k /\ v.pc = pc
BY DEF CertWorks, CertPlaces

LEMMA SignWork ==
  ASSUME NEW w \in CertWorks, NEW u \in Nat
  PROVE  LET v == [w EXCEPT !.pc = "cert", !.ttl = 0, !.row.until = u] IN
         v \in CertWorks /\ v.key = w.key /\ v.pc = "cert"
BY DEF CertWorks, CertPlaces, NodeRows0

LEMMA StageWork ==
  ASSUME NEW w \in CertWorks
  PROVE  LET v == [w EXCEPT !.pc = "cert", !.own = 0] IN
         v \in CertWorks /\ v.key = w.key /\ v.pc = "cert"
BY CertNumbers DEF CertWorks, CertPlaces

LEMMA GoWork ==
  ASSUME NEW w \in CertWorks
  PROVE  LET v == [w EXCEPT !.pc = "promote"] IN
         v \in CertWorks /\ v.key = w.key /\ v.pc = "promote"
BY DEF CertWorks, CertPlaces

LEMMA DoneWork ==
  ASSUME NEW w \in CertWorks, NEW pc \in {"reload", "commit"}
  PROVE  LET v == [w EXCEPT !.key = 0, !.pc = pc] IN v \in CertWorks /\ v.pc = pc
BY CertNumbers DEF CertWorks, CertPlaces

LEMMA DateWork ==
  ASSUME NEW w \in CertWorks, NEW h \in 0..MaxTick
  PROVE  LET v == [w EXCEPT !.pc = "commit", !.row.issued = h] IN
         v \in CertWorks /\ v.pc = "commit" /\ v.row.issued = h
BY DEF CertWorks, CertPlaces, NodeRows0

LEMMA CertFacts ==
  ASSUME CertIInv
  PROVE  /\ CertsTypeOK /\ HasKey /\ (~excused => Keyed) /\ Loaded /\ InHand
         /\ work \in [Actors -> CertWorks] /\ nodeRow \in NodeRows0
         /\ \A a \in Actors : work[a] \in CertWorks
         /\ "operator" \in Actors /\ "renewer" \in Actors
         /\ keys \in Nat /\ hour \in Nat /\ failing \in Nat /\ nodeRow.issued \in Nat
         /\ excused \in BOOLEAN /\ ttl \in Lifetimes /\ ttl \in Nat
         /\ RenewAfter(ttl) \in Nat /\ RenewAfter(ttl) > 0
<1>1. CertsTypeOK /\ HasKey /\ (~excused => Keyed) /\ Loaded /\ InHand
  BY DEF CertIInv
<1>2. work \in [Actors -> CertWorks] /\ nodeRow \in NodeRows0 /\ excused \in BOOLEAN
  BY <1>1 DEF CertsTypeOK
<1>3. keys \in Nat /\ hour \in Nat /\ failing \in Nat /\ ttl \in Lifetimes
  BY <1>1, CertNumbers DEF CertsTypeOK
<1>4. ttl \in Nat /\ ttl >= 3
  BY <1>3, CertNumbers
<1>5. RenewAfter(ttl) \in Nat /\ RenewAfter(ttl) > 0
  BY <1>4, RenewAfterIs
<1>6. nodeRow.issued \in Nat
  <2>1. nodeRow.issued \in 0..MaxTick
    BY <1>2, RowFields
  <2> QED
    BY <2>1, CertNumbers
<1>7. "operator" \in Actors /\ "renewer" \in Actors
  BY DEF Actors
<1> QED
  BY <1>1, <1>2, <1>3, <1>4, <1>5, <1>6, <1>7

LEMMA CertsStart == CertsInit => CertIInv
<1> SUFFICES ASSUME CertsInit PROVE CertIInv
  OBVIOUS
<1>1. /\ certOf = 0 /\ liveKey = 0 /\ newKey = 0 /\ keys = 0 /\ nodeRow = Unloaded
      /\ named \in BOOLEAN /\ source \in {"none", "openbao"} /\ ttl \in Lifetimes
      /\ hour = 0 /\ work = [a \in Actors |-> Idle]
      /\ excused = FALSE /\ steady = TRUE /\ failing = 0 /\ events = 0
  BY DEF CertsInit
<1>2. \A a \in Actors : work[a] = Idle /\ work[a].pc = "idle"
  BY <1>1, UnloadedIs
<1>3. "renewer" \in Actors
  BY DEF Actors
<1>4. CertsTypeOK
  <2>1. 0 \in 0..MaxKeys /\ 0 \in 0..MaxTick /\ 0 \in 0..MaxEvents /\ 0 \in 0..Foreign
    BY CertNumbers
  <2> QED
    BY <1>1, <2>1, UnloadedIs DEF CertsTypeOK
<1>5. HasKey
  BY <1>2 DEF HasKey
<1>6. Keyed
  BY <1>1, <1>2, <1>3 DEF Keyed, Away
<1>7. Loaded /\ InHand
  BY <1>1, <1>2, <1>3 DEF Loaded, InHand, Unloaded
<1> QED
  BY <1>4, <1>5, <1>6, <1>7 DEF CertIInv

(* One actor moves, and unless that is excused it is alone at the node.     *)
OneMoves(a, w) ==
  /\ work' = [work EXCEPT ![a] = w] /\ excused' \in BOOLEAN
  /\ ~excused' => ~excused /\ \A b \in Actors : b # a => work[b].pc \in Away

LEMMA WorkMoved ==
  ASSUME CertIInv, NEW a \in Actors, NEW w \in CertWorks, work' = [work EXCEPT ![a] = w]
  PROVE  /\ work' \in [Actors -> CertWorks] /\ work'[a] = w
         /\ \A b \in Actors : b # a => work'[b] = work[b]
BY CertFacts

(* With the key an actor brings to the node, it was away or alone there.    *)
LEMMA ProceedIs ==
  ASSUME CertIInv, NEW a \in Actors, NEW w \in CertWorks, Proceed(a, w),
         work[a].pc \notin Away \/ w.pc \notin Away
  PROVE  OneMoves(a, w)
<1>1. work' = [work EXCEPT ![a] = w]
  BY DEF Proceed
<1>2. work'[a] = w /\ \A b \in Actors : b # a => work'[b] = work[b]
  BY <1>1, WorkMoved
<1>3. excused' = (excused \/ \A b \in Actors : work'[b].pc \notin Away)
  BY DEF Proceed
<1>4. ASSUME ~excused' PROVE ~excused /\ \E b \in Actors : work'[b].pc \in Away
  BY <1>3, <1>4
<1>5. ASSUME ~excused', NEW b \in Actors, b # a PROVE work[b].pc \in Away
  <2>1. \A c \in Actors : c = a \/ c = b
    BY <1>5 DEF Actors
  <2>2. CASE w.pc \notin Away
    BY <1>2, <1>4, <1>5, <2>1, <2>2
  <2>3. CASE work[a].pc \notin Away
    BY <1>4, <1>5, <2>1, <2>3, CertFacts DEF Keyed
  <2> QED
    BY <2>2, <2>3
<1>6. excused' \in BOOLEAN
  BY <1>3
<1> QED
  BY <1>1, <1>4, <1>5, <1>6 DEF OneMoves

LEMMA UploadsIs ==
  ASSUME CertIInv, NEW w \in CertWorks, NEW staged, Uploads(w, staged)
  PROVE  OneMoves("operator", w) /\ (~excused' => w.key = staged)
<1>1. /\ work' = [work EXCEPT !["operator"] = w]
      /\ excused' = (excused \/ w.key # staged \/ work["renewer"].pc \notin Away)
  BY DEF Uploads
<1>2. \A b \in Actors : b # "operator" => b = "renewer"
  BY DEF Actors
<1> QED
  BY <1>1, <1>2, CertFacts DEF OneMoves

-----------------------------------------------------------------------------
(* The types.                                                               *)
LEMMA EventTypes ==
  ASSUME CertIInv, Event
  PROVE  events' \in 0..MaxEvents
BY CertFacts, CertNumbers DEF Event, CertsTypeOK

LEMMA SameTypes ==
  ASSUME CertIInv
  PROVE  /\ certOf \in 0..Foreign /\ liveKey \in 0..MaxKeys /\ newKey \in 0..MaxKeys
         /\ keys \in 0..MaxKeys /\ nodeRow \in NodeRows0 /\ hour \in 0..MaxTick
         /\ failing \in 0..MaxTick /\ events \in 0..MaxEvents /\ steady \in BOOLEAN
         /\ named \in BOOLEAN /\ source \in {"none", "manual", "openbao"}
         /\ ttl \in Lifetimes
BY CertFacts DEF CertsTypeOK

(* A step that goes on with the work of one actor and is none of the clock. *)
LEMMA ActorTypes ==
  ASSUME CertIInv, NEW a \in Actors, NEW w \in CertWorks,
         work' = [work EXCEPT ![a] = w], excused' \in BOOLEAN,
         certOf' \in 0..Foreign, liveKey' \in 0..MaxKeys, newKey' \in 0..MaxKeys,
         keys' \in 0..MaxKeys, nodeRow' \in NodeRows0,
         failing' \in 0..MaxTick, events' \in 0..MaxEvents, steady' \in BOOLEAN,
         UNCHANGED <<named, source, ttl, hour>>
  PROVE  CertsTypeOK'
<1>1. work' \in [Actors -> CertWorks]
  BY CertFacts
<1> QED
  BY <1>1, SameTypes DEF CertsTypeOK

(* The keys, after a step of one actor: only what it is about to do matters.*)
KeyReady(w) ==
  /\ w.pc \in {"sign", "cert", "promote"} => w.key = newKey'
  /\ w.pc = "stage" => w.key = w.own
  /\ w.pc = "promote" => newKey' = certOf'
  /\ certOf' = liveKey' \/ w.pc = "promote"

LEMMA KeyStep ==
  ASSUME CertIInv, NEW a \in Actors, NEW w \in CertWorks, OneMoves(a, w),
         w.pc \in {"sign", "stage", "cert", "promote"} => w.key # 0,
         ~excused' => KeyReady(w)
  PROVE  HasKey' /\ (~excused' => Keyed')
<1>1. work' = [work EXCEPT ![a] = w]
  BY DEF OneMoves
<1>2. work'[a] = w /\ \A b \in Actors : b # a => work'[b] = work[b]
  BY <1>1, WorkMoved
<1>3. HasKey'
  BY <1>2, CertFacts DEF HasKey
<1>4. ASSUME ~excused' PROVE Keyed'
  <2>1. \E b \in Actors : b # a
    BY DEF Actors
  <2>2. \A b \in Actors : b # a => work'[b].pc \in Away
    BY <1>2, <1>4 DEF OneMoves
  <2>3. KeyReady(w)
    BY <1>4
  <2>4. \A b \in Actors : work'[b].pc \in {"sign", "cert", "promote"}
                             => work'[b].key = newKey'
    BY <1>2, <2>2, <2>3 DEF KeyReady, Away
  <2>5. \A b \in Actors : work'[b].pc = "stage" => work'[b].key = work'[b].own
    BY <1>2, <2>2, <2>3 DEF KeyReady, Away
  <2>6. \A b \in Actors : work'[b].pc = "promote" => newKey' = certOf'
    BY <1>2, <2>2, <2>3 DEF KeyReady, Away
  <2>7. certOf' = liveKey' \/ Installing'
    BY <1>2, <2>3 DEF KeyReady, Installing, CertAt
  <2> QED
    BY <2>1, <2>2, <2>4, <2>5, <2>6, <2>7 DEF Keyed
<1> QED
  BY <1>3, <1>4

(* A step that leaves the files and whoever is at the node as they are.     *)
LEMMA KeysStay ==
  ASSUME CertIInv, UNCHANGED <<certOf, liveKey, newKey, work, excused>>
  PROVE  HasKey' /\ (~excused' => Keyed')
BY CertFacts DEF HasKey, Keyed, Installing, CertAt

LEMMA KeysAway ==
  ASSUME CertIInv, NEW a \in Actors, NEW w \in CertWorks, work' = [work EXCEPT ![a] = w],
         work[a].pc \in Away, w.pc \in Away, excused' = excused,
         UNCHANGED <<certOf, liveKey, newKey>>
  PROVE  HasKey' /\ (~excused' => Keyed')
<1>1. work'[a] = w /\ \A b \in Actors : b # a => work'[b] = work[b]
  BY WorkMoved
<1>2. \A b \in Actors : work'[b] = work[b] \/ (work[b].pc \in Away /\ work'[b].pc \in Away)
  BY <1>1
<1>3. HasKey'
  BY <1>2, CertFacts DEF HasKey, Away
<1>4. ASSUME ~excused' PROVE Keyed'
  <2>1. Keyed
    BY <1>4, CertFacts
  <2>2. certOf' = liveKey' \/ Installing'
    BY <1>2, <2>1 DEF Keyed, Installing, CertAt, Away
  <2>3. /\ \A b \in Actors : work'[b].pc \in {"sign", "cert", "promote"}
                                => work'[b].key = newKey'
        /\ \A b \in Actors : work'[b].pc = "stage" => work'[b].key = work'[b].own
        /\ \A b \in Actors : work'[b].pc = "promote" => newKey' = certOf'
    BY <1>2, <2>1 DEF Keyed, Away
  <2>4. \E b \in Actors : work'[b].pc \in Away
    BY <1>2, <2>1 DEF Keyed
  <2> QED
    BY <2>2, <2>3, <2>4 DEF Keyed
<1> QED
  BY <1>3, <1>4

(* An actor at the node, once its step is seen not to be excused.           *)
LEMMA Alone ==
  ASSUME CertIInv, NEW a \in Actors, NEW w, OneMoves(a, w), ~excused'
  PROVE  /\ Keyed
         /\ work[a].pc # "promote" => certOf = liveKey
<1>1. Keyed /\ \A b \in Actors : b # a => work[b].pc \in Away
  BY CertFacts DEF OneMoves
<1> QED
  BY <1>1 DEF Keyed, Installing, CertAt, Away

(* What a pass has in hand stays with steps that move neither the clock nor *)
(* the row's dates, nor begin, judge, date or end a renewal.                *)
LEMMA HandStays ==
  ASSUME CertIInv, UNCHANGED <<named, source, ttl, hour, steady, failing>>,
         nodeRow'.known = nodeRow.known, nodeRow'.issued = nodeRow.issued,
         \/ work'["renewer"] = work["renewer"]
         \/ /\ work["renewer"].pc # "idle"
            /\ work'["renewer"].pc \notin {"idle", "look", "commit"}
  PROVE  Loaded' /\ InHand'
<1>1. Loaded /\ InHand
  BY CertFacts
<1>2. Loaded'
  BY <1>1 DEF Loaded
<1>3. InHand'
  BY <1>1 DEF InHand
<1> QED
  BY <1>2, <1>3

-----------------------------------------------------------------------------
(* The steps of an actor at the node.                                       *)
LEMMA AskKeyKeeps == ASSUME CertIInv, AskCsr PROVE CertIInv'
<1> DEFINE w == [Idle EXCEPT !.pc = "key", !.row.csr = nodeRow.csr]
<1>1. /\ work["operator"].pc = "idle" /\ Event /\ Proceed("operator", w)
      /\ UNCHANGED <<certOf, liveKey, newKey, keys, nodeRow, named, source, ttl, hour,
                     steady, failing>>
  BY DEF AskCsr, CertAt, files, settings
<1>2. w \in CertWorks /\ w.pc = "key"
  <2>1. nodeRow.csr \in BOOLEAN
    BY CertFacts, RowFields
  <2> QED
    BY <2>1, AskWork
<1> HIDE DEF w
<1>3. OneMoves("operator", w)
  <2>1. w.pc \notin Away
    BY <1>2 DEF Away
  <2> QED
    BY <1>1, <1>2, <2>1, CertFacts, ProceedIs
<1>4. CertsTypeOK'
  BY <1>1, <1>2, <1>3, CertFacts, SameTypes, EventTypes, ActorTypes DEF OneMoves
<1>5. HasKey' /\ (~excused' => Keyed')
  <2>1. ~excused' => KeyReady(w)
    BY <1>1, <1>2, <1>3, CertFacts, Alone DEF KeyReady
  <2> QED
    BY <1>2, <1>3, <2>1, CertFacts, KeyStep
<1>6. Loaded' /\ InHand'
  <2>1. work'["renewer"] = work["renewer"]
    BY <1>2, <1>3, CertFacts, WorkMoved DEF OneMoves
  <2> QED
    BY <1>1, <2>1, HandStays
<1> QED
  BY <1>4, <1>5, <1>6 DEF CertIInv

(* Who is at work at the node stays there, and the hand is as it was.       *)
LEMMA HandGoes ==
  ASSUME CertIInv, NEW a \in Actors, NEW w \in CertWorks, OneMoves(a, w),
         work[a].pc # "idle",
         a = "renewer" => w.pc \notin {"idle", "look", "commit"},
         UNCHANGED <<named, source, ttl, hour, steady, failing>>,
         nodeRow'.known = nodeRow.known, nodeRow'.issued = nodeRow.issued
  PROVE  Loaded' /\ InHand'
<1>1. work'[a] = w /\ \A b \in Actors : b # a => work'[b] = work[b]
  BY WorkMoved DEF OneMoves
<1>2. \/ work'["renewer"] = work["renewer"]
      \/ /\ work["renewer"].pc # "idle"
         /\ work'["renewer"].pc \notin {"idle", "look", "commit"}
  BY <1>1, CertFacts
<1> QED
  BY <1>2, HandStays

LEMMA MakeKeyKeeps == ASSUME CertIInv, NEW a \in Actors, MakeKey(a) PROVE CertIInv'
<1> DEFINE to == IF a = "renewer" THEN "sign" ELSE "request"
           w == [work[a] EXCEPT !.key = keys', !.pc = to]
<1>1. /\ work[a].pc = "key" /\ keys < MaxKeys /\ keys' = keys + 1 /\ newKey' = keys'
      /\ Proceed(a, w)
      /\ UNCHANGED <<certOf, liveKey, nodeRow, named, source, ttl, hour, steady, failing,
                     events>>
  BY DEF MakeKey, CertAt, settings
<1>2. to \in {"sign", "request"} /\ keys' \in 0..MaxKeys /\ keys' # 0
  BY <1>1, CertFacts, CertNumbers
<1> HIDE DEF to
<1>3. w \in CertWorks /\ w.key = keys' /\ w.pc \in {"sign", "request"}
  <2>1. work[a] \in CertWorks /\ keys' \in 0..Foreign
    BY <1>2, CertFacts, CertNumbers
  <2>2. w \in CertWorks
    BY <1>2, <2>1, KeyWork
  <2>3. w.key = keys' /\ w.pc = to
    BY <1>2, <2>1 DEF CertWorks
  <2> QED
    BY <1>2, <2>2, <2>3
<1> HIDE DEF w
<1>4. OneMoves(a, w)
  <2>1. w.pc \notin Away
    BY <1>3 DEF Away
  <2> QED
    BY <1>1, <1>3, <2>1, ProceedIs
<1>5. CertsTypeOK'
  BY <1>1, <1>2, <1>3, <1>4, SameTypes, ActorTypes DEF OneMoves
<1>6. HasKey' /\ (~excused' => Keyed')
  <2>1. ~excused' => KeyReady(w)
    BY <1>1, <1>3, <1>4, Alone DEF KeyReady
  <2> QED
    BY <1>2, <1>3, <1>4, <2>1, KeyStep
<1>7. Loaded' /\ InHand'
  <2>1. w.pc \notin {"idle", "look", "commit"} /\ work[a].pc # "idle"
    BY <1>1, <1>3
  <2> QED
    BY <1>1, <1>3, <1>4, <2>1, HandGoes
<1> QED
  BY <1>5, <1>6, <1>7 DEF CertIInv

LEMMA CommitCsrKeeps == ASSUME CertIInv, CommitCsr PROVE CertIInv'
<1>1. /\ work["operator"].pc = "request" /\ Proceed("operator", Idle)
      /\ nodeRow' = [nodeRow EXCEPT !.csr = TRUE]
      /\ UNCHANGED <<certOf, liveKey, newKey, keys, named, source, ttl, hour, steady,
                     failing, events>>
  BY DEF CommitCsr, CertAt, files, settings
<1>2. /\ nodeRow' \in NodeRows0 /\ nodeRow'.known = nodeRow.known
      /\ nodeRow'.issued = nodeRow.issued
  BY <1>1, CertFacts DEF NodeRows0
<1>3. OneMoves("operator", Idle)
  <2>1. work["operator"].pc \notin Away
    BY <1>1 DEF Away
  <2> QED
    BY <1>1, <2>1, CertFacts, UnloadedIs, ProceedIs
<1>4. CertsTypeOK'
  BY <1>1, <1>2, <1>3, CertFacts, SameTypes, UnloadedIs, ActorTypes DEF OneMoves
<1>5. HasKey' /\ (~excused' => Keyed')
  <2>1. ~excused' => KeyReady(Idle)
    BY <1>1, <1>3, CertFacts, UnloadedIs, Alone DEF KeyReady
  <2> QED
    BY <1>3, <2>1, CertFacts, UnloadedIs, KeyStep
<1>6. Loaded' /\ InHand'
  BY <1>1, <1>2, <1>3, CertFacts, UnloadedIs, HandGoes
<1> QED
  BY <1>4, <1>5, <1>6 DEF CertIInv

(* A step of an actor at the node that makes no key and dates nothing.      *)
LEMMA WorkKeeps ==
  ASSUME CertIInv, NEW a \in Actors, NEW w \in CertWorks, OneMoves(a, w),
         work[a].pc # "idle", a = "renewer" => w.pc \notin {"idle", "look", "commit"},
         w.pc \in {"sign", "stage", "cert", "promote"} => w.key # 0,
         ~excused' => KeyReady(w),
         certOf' \in 0..Foreign, liveKey' \in 0..MaxKeys, newKey' \in 0..MaxKeys,
         UNCHANGED <<keys, nodeRow, named, source, ttl, hour, steady, failing, events>>
  PROVE  CertIInv'
<1>1. CertsTypeOK'
  BY SameTypes, ActorTypes DEF OneMoves
<1>2. HasKey' /\ (~excused' => Keyed')
  BY KeyStep
<1>3. Loaded' /\ InHand'
  BY HandGoes
<1> QED
  BY <1>1, <1>2, <1>3 DEF CertIInv

LEMMA SignKeeps == ASSUME CertIInv, Sign PROVE CertIInv'
<1>1. /\ work["renewer"].pc = "sign"
      /\ UNCHANGED <<certOf, liveKey, newKey, keys, nodeRow, named, source, ttl, hour,
                     steady, failing, events>>
  BY DEF Sign, CertAt, files, settings
<1>2. PICK life \in Lifetimes :
        Proceed("renewer", [work["renewer"] EXCEPT !.pc = "cert", !.ttl = 0,
                                                   !.row.until = hour + life])
  BY DEF Sign
<1> DEFINE w == [work["renewer"] EXCEPT !.pc = "cert", !.ttl = 0,
                                        !.row.until = hour + life]
<1>3. w \in CertWorks /\ w.key = work["renewer"].key /\ w.pc = "cert"
  <2>1. hour + life \in Nat
    BY CertFacts, CertNumbers
  <2> QED
    BY <2>1, CertFacts, SignWork
<1>4. Proceed("renewer", w)
  BY <1>2
<1> HIDE DEF w
<1>5. OneMoves("renewer", w)
  <2>1. w.pc \notin Away
    BY <1>3 DEF Away
  <2> QED
    BY <1>3, <1>4, <2>1, CertFacts, ProceedIs
<1>6. w.key # 0
  BY <1>1, <1>3, CertFacts DEF HasKey
<1>7. ~excused' => KeyReady(w)
  BY <1>1, <1>3, <1>5, CertFacts, Alone DEF Keyed, KeyReady
<1> QED
  BY <1>1, <1>3, <1>5, <1>6, <1>7, CertFacts, SameTypes, WorkKeeps

LEMMA StageKeyKeeps == ASSUME CertIInv, StageKey PROVE CertIInv'
<1> DEFINE w == [work["operator"] EXCEPT !.pc = "cert", !.own = 0]
<1>1. /\ work["operator"].pc = "stage" /\ newKey' = work["operator"].own
      /\ Proceed("operator", w)
      /\ UNCHANGED <<certOf, liveKey, keys, nodeRow, named, source, ttl, hour, steady,
                     failing, events>>
  BY DEF StageKey, CertAt, settings
<1>2. /\ w \in CertWorks /\ w.key = work["operator"].key /\ w.pc = "cert"
      /\ newKey' \in 0..MaxKeys
  BY <1>1, CertFacts, StageWork, WorkFields
<1> HIDE DEF w
<1>3. OneMoves("operator", w)
  <2>1. w.pc \notin Away
    BY <1>2 DEF Away
  <2> QED
    BY <1>1, <1>2, <2>1, CertFacts, ProceedIs
<1>4. w.key # 0
  BY <1>1, <1>2, CertFacts DEF HasKey
<1>5. ~excused' => KeyReady(w)
  BY <1>1, <1>2, <1>3, CertFacts, Alone DEF Keyed, KeyReady
<1> QED
  BY <1>1, <1>2, <1>3, <1>4, <1>5, CertFacts, SameTypes, WorkKeeps

LEMMA WriteCertKeeps == ASSUME CertIInv, NEW a \in Actors, WriteCert(a) PROVE CertIInv'
<1> DEFINE w == [work[a] EXCEPT !.pc = "promote"]
<1>1. /\ work[a].pc = "cert" /\ certOf' = work[a].key /\ Proceed(a, w)
      /\ UNCHANGED <<liveKey, newKey, keys, nodeRow, named, source, ttl, hour, steady,
                     failing, events>>
  BY DEF WriteCert, CertAt, settings
<1>2. /\ w \in CertWorks /\ w.key = work[a].key /\ w.pc = "promote"
      /\ certOf' \in 0..Foreign
  BY <1>1, CertFacts, GoWork, WorkFields
<1> HIDE DEF w
<1>3. OneMoves(a, w)
  <2>1. w.pc \notin Away
    BY <1>2 DEF Away
  <2> QED
    BY <1>1, <1>2, <2>1, ProceedIs
<1>4. w.key # 0
  BY <1>1, <1>2, CertFacts DEF HasKey
<1>5. ~excused' => KeyReady(w)
  BY <1>1, <1>2, <1>3, Alone DEF Keyed, KeyReady
<1> QED
  BY <1>1, <1>2, <1>3, <1>4, <1>5, SameTypes, WorkKeeps

LEMMA PromoteKeyKeeps == ASSUME CertIInv, NEW a \in Actors, PromoteKey(a) PROVE CertIInv'
<1> DEFINE to == IF a = "renewer" THEN "reload" ELSE "commit"
           w == [work[a] EXCEPT !.key = 0, !.pc = to]
<1>1. /\ work[a].pc = "promote" /\ liveKey' = Promoted /\ newKey' = 0 /\ Proceed(a, w)
      /\ UNCHANGED <<certOf, keys, nodeRow, named, source, ttl, hour, steady, failing,
                     events>>
  BY DEF PromoteKey, CertAt, settings
<1>2. to \in {"reload", "commit"} /\ (a = "renewer" => to = "reload")
  OBVIOUS
<1> HIDE DEF to
<1>3. w \in CertWorks /\ w.pc = to
  BY <1>2, CertFacts, DoneWork
<1>4. liveKey' \in 0..MaxKeys /\ newKey' \in 0..MaxKeys
  BY <1>1, SameTypes, CertNumbers DEF Promoted
<1> HIDE DEF w
<1>5. OneMoves(a, w)
  <2>1. w.pc \notin Away
    BY <1>2, <1>3 DEF Away
  <2> QED
    BY <1>1, <1>3, <2>1, ProceedIs
<1>6. ~excused' => KeyReady(w)
  <2> SUFFICES ASSUME ~excused' PROVE KeyReady(w)
    OBVIOUS
  <2>1. Keyed /\ newKey = certOf /\ work[a].key = newKey /\ work[a].key # 0
    BY <1>1, <1>5, Alone, CertFacts DEF Keyed, HasKey
  <2>2. certOf' = liveKey'
    BY <1>1, <2>1 DEF Promoted
  <2> QED
    BY <1>2, <1>3, <2>2 DEF KeyReady
<1> QED
  BY <1>1, <1>2, <1>3, <1>4, <1>5, <1>6, SameTypes, WorkKeeps

LEMMA DatedKeeps == ASSUME CertIInv, Dated PROVE CertIInv'
<1> DEFINE w == [work["renewer"] EXCEPT !.pc = "commit", !.row.issued = hour]
<1>1. /\ work["renewer"].pc = "reload" /\ Proceed("renewer", w)
      /\ UNCHANGED <<certOf, liveKey, newKey, keys, nodeRow, named, source, ttl, hour,
                     steady, failing, events>>
  BY DEF Dated, CertAt, files, settings
<1>2. w \in CertWorks /\ w.pc = "commit" /\ w.row.issued = hour
  BY CertFacts, SameTypes, DateWork
<1> HIDE DEF w
<1>3. OneMoves("renewer", w)
  <2>1. w.pc \notin Away
    BY <1>2 DEF Away
  <2> QED
    BY <1>1, <1>2, <2>1, CertFacts, ProceedIs
<1>4. CertsTypeOK'
  BY <1>1, <1>2, <1>3, CertFacts, SameTypes, ActorTypes DEF OneMoves
<1>5. HasKey' /\ (~excused' => Keyed')
  <2>1. ~excused' => KeyReady(w)
    BY <1>1, <1>2, <1>3, CertFacts, Alone DEF KeyReady
  <2> QED
    BY <1>2, <1>3, <2>1, CertFacts, KeyStep
<1>6. Loaded' /\ InHand'
  <2>1. work'["renewer"] = w
    BY <1>2, <1>3, CertFacts, WorkMoved DEF OneMoves
  <2>2. Loaded'
    BY <1>1, <1>2, <2>1, CertFacts DEF Loaded
  <2>3. InHand'
    BY <1>1, <1>2, <2>1, CertFacts DEF InHand
  <2> QED
    BY <2>2, <2>3
<1> QED
  BY <1>4, <1>5, <1>6 DEF CertIInv

LEMMA CommitCertKeeps == ASSUME CertIInv, NEW a \in Actors, CommitCert(a) PROVE CertIInv'
<1> DEFINE done == IssuedBy(a)
<1>1. /\ work[a].pc = "commit" /\ Proceed(a, Idle)
      /\ nodeRow' = [csr |-> ~work[a].row.csr /\ nodeRow.csr, issued |-> done,
                     until |-> work[a].row.until, known |-> TRUE]
      /\ steady' = TRUE /\ failing' = hour - done
      /\ UNCHANGED <<certOf, liveKey, newKey, keys, named, source, ttl, hour, events>>
  BY DEF CommitCert, CertAt, files, settings
<1>2. /\ done \in 0..MaxTick /\ done <= hour /\ (a = "operator" => done = hour)
      /\ done \in Nat
  <2>1. work[a].row \in NodeRows0 /\ hour \in 0..MaxTick /\ hour \in Nat
    BY CertFacts, WorkFields, SameTypes
  <2>2. work[a].row.issued \in 0..MaxTick
    BY <2>1, RowFields
  <2>3. a = "renewer" => work[a].row.issued <= hour
    BY <1>1, CertFacts DEF Loaded
  <2>4. done \in 0..MaxTick /\ done <= hour /\ (a = "operator" => done = hour)
    BY <2>1, <2>2, <2>3 DEF IssuedBy
  <2> QED
    BY <2>4, CertNumbers
<1> HIDE DEF done
<1>3. nodeRow' \in NodeRows0
  <2>1. work[a].row \in NodeRows0
    BY CertFacts, WorkFields
  <2>2. work[a].row.csr \in BOOLEAN /\ work[a].row.until \in Nat
    BY <2>1, RowFields
  <2>3. (~work[a].row.csr /\ nodeRow.csr) \in BOOLEAN
    OBVIOUS
  <2> QED
    BY <1>1, <1>2, <2>2, <2>3 DEF NodeRows0
<1>4. nodeRow'.issued = done /\ nodeRow'.known
  BY <1>1
<1>5. OneMoves(a, Idle)
  <2>1. work[a].pc \notin Away
    BY <1>1 DEF Away
  <2> QED
    BY <1>1, <2>1, UnloadedIs, ProceedIs
<1>6. failing' \in 0..MaxTick /\ failing' \in Nat /\ failing' <= hour
  BY <1>1, <1>2, SameTypes, CertNumbers
<1>7. CertsTypeOK'
  BY <1>1, <1>3, <1>5, <1>6, SameTypes, UnloadedIs, ActorTypes DEF OneMoves
<1>8. HasKey' /\ (~excused' => Keyed')
  <2>1. ~excused' => KeyReady(Idle)
    BY <1>1, <1>5, UnloadedIs, Alone DEF KeyReady
  <2> QED
    BY <1>5, <2>1, UnloadedIs, KeyStep
<1>9. work'[a] = Idle /\ \A b \in Actors : b # a => work'[b] = work[b]
  BY <1>5, UnloadedIs, WorkMoved DEF OneMoves
<1>10. a = "operator" \/ a = "renewer"
  BY DEF Actors
<1>11. Loaded'
  <2>1. nodeRow'.issued <= hour'
    BY <1>1, <1>2, <1>4
  <2>2. CASE a = "renewer"
    BY <1>9, <2>1, <2>2, UnloadedIs DEF Loaded
  <2>3. CASE a = "operator"
    <3>1. work'["renewer"] = work["renewer"]
      BY <1>9, <2>3, CertFacts
    <3>2. work["renewer"].row.issued \in Nat
      <4>1. work["renewer"].row \in NodeRows0
        BY CertFacts, WorkFields
      <4>2. work["renewer"].row.issued \in 0..MaxTick
        BY <4>1, RowFields
      <4> QED
        BY <4>2, CertNumbers
    <3>3. work["renewer"].pc = "look" =>
            /\ work["renewer"].ttl \in Lifetimes
            /\ work["renewer"].row.known => work["renewer"].row.issued <= hour
      BY <3>2, CertFacts DEF Loaded
    <3>4. nodeRow'.issued = hour
      BY <1>2, <1>4, <2>3
    <3> QED
      BY <1>1, <1>4, <2>1, <3>1, <3>3, <3>4, CertFacts DEF Loaded
  <2> QED
    BY <1>10, <2>2, <2>3
<1>12. InHand'
  <2>1. work'["renewer"].pc # "idle" => failing' < hour
    <3>1. CASE a = "renewer"
      BY <1>9, <3>1, UnloadedIs
    <3>2. CASE a = "operator"
      <4>1. failing' = 0
        BY <1>1, <1>2, <3>2, CertFacts
      <4>2. work'["renewer"] = work["renewer"]
        BY <1>9, <3>2, CertFacts
      <4>3. work["renewer"].pc # "idle" => failing < hour
        BY CertFacts DEF InHand
      <4> QED
        BY <4>1, <4>2, <4>3, CertFacts
    <3> QED
      BY <1>10, <3>1, <3>2
  <2>2. hour' = hour /\ ttl' = ttl /\ hour - done = failing'
    BY <1>1
  <2>3. /\ hour' - nodeRow'.issued <= RenewAfter(ttl') + failing'
        /\ hour' - nodeRow'.issued < RenewAfter(ttl') + failing'
    BY <1>4, <1>6, <2>2, CertFacts
  <2> QED
    BY <1>6, <2>1, <2>2, <2>3 DEF InHand
<1> QED
  BY <1>7, <1>8, <1>11, <1>12 DEF CertIInv

-----------------------------------------------------------------------------
(* A pass that is lost takes its interval.                                  *)
LEMMA PassLost ==
  ASSUME CertIInv, work["renewer"].pc # "idle", failing' = failing + 1,
         work'["renewer"].pc = "idle",
         UNCHANGED <<nodeRow, named, source, ttl, hour, steady>>
  PROVE  Loaded' /\ InHand' /\ failing' \in 0..MaxTick
<1>1. Loaded /\ InHand /\ failing < hour
  BY CertFacts DEF InHand
<1>2. Loaded'
  BY <1>1 DEF Loaded
<1>3. InHand'
  BY <1>1, CertFacts DEF InHand
<1>4. failing' \in 0..MaxTick
  BY <1>1, CertFacts, SameTypes, CertNumbers
<1> QED
  BY <1>2, <1>3, <1>4

LEMMA CertFailsKeeps == ASSUME CertIInv, NEW a \in Actors, CertFails(a) PROVE CertIInv'
<1>1. /\ work[a].pc # "idle" /\ Event /\ work' = [work EXCEPT ![a] = Idle]
      /\ excused' = (excused \/ work[a].pc = "promote")
      /\ failing' = IF a = "renewer" THEN failing + 1 ELSE failing
      /\ UNCHANGED <<certOf, liveKey, newKey, keys, nodeRow, named, source, ttl, hour, steady>>
  BY DEF CertFails, CertAt, files, settings
<1>2. work'[a] = Idle /\ \A b \in Actors : b # a => work'[b] = work[b]
  BY <1>1, UnloadedIs, WorkMoved
<1>3. Loaded' /\ InHand' /\ failing' \in 0..MaxTick
  <2>1. CASE a = "renewer"
    <3>1. work'["renewer"].pc = "idle" /\ failing' = failing + 1
      BY <1>1, <1>2, <2>1, UnloadedIs
    <3> QED
      BY <1>1, <2>1, <3>1, PassLost
  <2>2. CASE a # "renewer"
    <3>1. work'["renewer"] = work["renewer"] /\ failing' = failing
      BY <1>1, <1>2, <2>2, CertFacts
    <3> QED
      BY <1>1, <3>1, HandStays, SameTypes
  <2> QED
    BY <2>1, <2>2
<1>4. CertsTypeOK'
  <2>1. events' \in 0..MaxEvents /\ excused' \in BOOLEAN
    BY <1>1, EventTypes
  <2> QED
    BY <1>1, <1>3, <2>1, SameTypes, UnloadedIs, ActorTypes
<1>5. HasKey' /\ (~excused' => Keyed')
  <2>1. CASE work[a].pc = "look"
    <3>1. excused' = excused /\ work[a].pc \in Away /\ Idle.pc \in Away
      BY <1>1, <2>1, CertFacts, UnloadedIs DEF Away
    <3> QED
      BY <1>1, <3>1, UnloadedIs, KeysAway
  <2>2. CASE work[a].pc # "look"
    <3>1. OneMoves(a, Idle)
      <4>1. work[a].pc \notin Away /\ excused' \in BOOLEAN /\ (~excused' => ~excused)
        BY <1>1, <2>2 DEF Away
      <4>2. ASSUME ~excused', NEW b \in Actors, b # a PROVE work[b].pc \in Away
        <5>1. \A c \in Actors : c = a \/ c = b
          BY <4>2 DEF Actors
        <5> QED
          BY <4>1, <4>2, <5>1, CertFacts DEF Keyed
      <4> QED
        BY <1>1, <4>1, <4>2 DEF OneMoves
    <3>2. ~excused' => KeyReady(Idle)
      BY <1>1, <3>1, UnloadedIs, Alone DEF KeyReady
    <3> QED
      BY <3>1, <3>2, UnloadedIs, KeyStep
  <2> QED
    BY <2>1, <2>2
<1> QED
  BY <1>3, <1>4, <1>5 DEF CertIInv

(* An upload, of a certificate to be installed with a staged or pasted key. *)
LEMMA UploadsKeep ==
  ASSUME CertIInv, NEW row \in NodeRows0, NEW key \in 0..Foreign, key # 0,
         NEW own \in 0..MaxKeys, NEW pc \in {"cert", "stage"}, NEW staged,
         pc = "cert" => staged = newKey, pc = "stage" => staged = own,
         work["operator"].pc = "idle", Event,
         Uploads([pc |-> pc, key |-> key, own |-> own, ttl |-> 0, row |-> row], staged),
         keys' \in 0..MaxKeys,
         UNCHANGED <<certOf, liveKey, newKey, nodeRow, named, source, ttl, hour, steady,
                     failing>>
  PROVE  CertIInv'
<1> DEFINE w == [pc |-> pc, key |-> key, own |-> own, ttl |-> 0, row |-> row]
<1>1. w \in CertWorks /\ w.pc = pc /\ w.key = key /\ w.own = own /\ Uploads(w, staged)
  BY UploadWork
<1> HIDE DEF w
<1>2. OneMoves("operator", w) /\ (~excused' => w.key = staged)
  BY <1>1, UploadsIs
<1>3. CertsTypeOK'
  BY <1>1, <1>2, CertFacts, SameTypes, EventTypes, ActorTypes DEF OneMoves
<1>4. HasKey' /\ (~excused' => Keyed')
  <2>1. ~excused' => KeyReady(w)
    BY <1>1, <1>2, CertFacts, Alone DEF KeyReady
  <2> QED
    BY <1>1, <1>2, <2>1, CertFacts, KeyStep
<1>5. work'["renewer"] = work["renewer"]
  BY <1>1, <1>2, CertFacts, WorkMoved DEF OneMoves
<1>6. Loaded' /\ InHand'
  BY <1>5, HandStays
<1> QED
  BY <1>3, <1>4, <1>6 DEF CertIInv

LEMMA UploadKeeps == ASSUME CertIInv, Upload PROVE CertIInv'
<1>1. /\ work["operator"].pc = "idle" /\ Event
      /\ UNCHANGED <<certOf, liveKey, newKey, nodeRow, named, source, ttl, hour, steady,
                     failing>>
  BY DEF Upload, files, settings, CertAt
<1>2. PICK life \in Lifetimes, key \in 1..keys + 1 \union {Foreign} :
        LET row == [Unloaded EXCEPT !.csr = nodeRow.csr, !.until = hour + life] IN
        \/ /\ nodeRow.csr /\ key # keys + 1
           /\ Uploads([pc |-> "cert", key |-> key, own |-> 0, ttl |-> 0, row |-> row], newKey)
           /\ keys' = keys
        \/ /\ keys < MaxKeys /\ keys' = keys + 1
           /\ Uploads([pc |-> "stage", key |-> key, own |-> keys', ttl |-> 0, row |-> row],
                      keys')
  BY DEF Upload
<1> DEFINE row == [Unloaded EXCEPT !.csr = nodeRow.csr, !.until = hour + life]
<1>3. row \in NodeRows0
  <2>1. nodeRow.csr \in BOOLEAN /\ hour + life \in Nat
    BY CertFacts, RowFields, CertNumbers
  <2> QED
    BY <2>1, AskRow
<1>4. key \in 0..Foreign /\ key # 0
  <2>1. keys \in 0..MaxKeys /\ Foreign = MaxKeys + 2
    BY SameTypes DEF Foreign
  <2> QED
    BY <2>1, CertNumbers
<1>5. CASE /\ Uploads([pc |-> "cert", key |-> key, own |-> 0, ttl |-> 0, row |-> row], newKey)
           /\ keys' = keys
  <2>1. keys' \in 0..MaxKeys /\ 0 \in 0..MaxKeys
    BY <1>5, SameTypes, CertNumbers
  <2> HIDE DEF row
  <2> QED
    BY <1>1, <1>3, <1>4, <1>5, <2>1, UploadsKeep
<1>6. CASE /\ keys < MaxKeys /\ keys' = keys + 1
           /\ Uploads([pc |-> "stage", key |-> key, own |-> keys', ttl |-> 0, row |-> row],
                      keys')
  <2>1. keys' \in 0..MaxKeys
    BY <1>6, CertFacts, CertNumbers
  <2> HIDE DEF row
  <2> QED
    BY <1>1, <1>3, <1>4, <1>6, <2>1, UploadsKeep
<1> QED
  BY <1>2, <1>5, <1>6

(* The settings, the name and the clock.                                    *)
LEMMA SettingsKeep == ASSUME CertIInv, SetSource \/ SetName PROVE CertIInv'
<1>1. /\ Event /\ steady' = FALSE
      /\ source' \in {"none", "manual", "openbao"} /\ ttl' \in Lifetimes /\ named' \in BOOLEAN
      /\ UNCHANGED <<certOf, liveKey, newKey, keys, nodeRow, hour, work, excused, failing>>
  BY SameTypes DEF SetSource, SetName, files
<1>2. CertsTypeOK'
  BY <1>1, CertFacts, EventTypes DEF CertsTypeOK
<1>3. Loaded' /\ InHand'
  BY <1>1, CertFacts DEF Loaded, InHand
<1> QED
  BY <1>1, <1>2, <1>3, KeysStay DEF CertIInv

LEMMA HourTypes ==
  ASSUME CertIInv, hour < MaxTick, hour' = hour + 1
  PROVE  hour' \in 0..MaxTick /\ hour' \in Nat
BY CertFacts, CertNumbers

LEMMA RenewTickKeeps == ASSUME CertIInv, RenewTick PROVE CertIInv'
<1> DEFINE w == [Idle EXCEPT !.pc = "look", !.ttl = ttl, !.row = nodeRow]
<1>1. /\ work["renewer"].pc = "idle" /\ hour < MaxTick /\ hour' = hour + 1
      /\ UNCHANGED <<certOf, liveKey, newKey, keys, nodeRow, named, source, ttl, steady,
                     failing, events>>
  BY DEF RenewTick, CertAt, files, settings
<1>2. w \in CertWorks /\ w.pc = "look" /\ w.ttl = ttl /\ w.row = nodeRow
  BY CertFacts, LookWork
<1>3. hour' \in 0..MaxTick
  BY <1>1, HourTypes
<1>4. IF source = "openbao" /\ named THEN Proceed("renewer", w) ELSE UNCHANGED <<work, excused>>
  BY DEF RenewTick
<1> HIDE DEF w
<1>5. Loaded /\ InHand /\ failing <= hour
  BY CertFacts DEF InHand
<1>6. CASE ~(source = "openbao" /\ named)
  <2>1. UNCHANGED <<work, excused>>
    BY <1>4, <1>6
  <2>2. CertsTypeOK'
    BY <1>1, <1>3, <2>1, CertFacts DEF CertsTypeOK
  <2>3. Loaded'
    BY <1>1, <1>5, <2>1, CertFacts DEF Loaded
  <2>4. InHand'
    BY <1>1, <1>5, <1>6, <2>1, CertFacts DEF InHand
  <2> QED
    BY <1>1, <2>1, <2>2, <2>3, <2>4, KeysStay DEF CertIInv
<1>7. CASE source = "openbao" /\ named
  <2>1. work' = [work EXCEPT !["renewer"] = w]
    BY <1>4, <1>7 DEF Proceed
  <2>2. work'["renewer"] = w /\ work' \in [Actors -> CertWorks]
    BY <1>2, <2>1, CertFacts, WorkMoved
  <2>3. excused' = excused
    <3>1. work'["renewer"].pc \in Away
      BY <1>2, <2>2 DEF Away
    <3>2. excused' = (excused \/ \A b \in Actors : work'[b].pc \notin Away)
      BY <1>4, <1>7 DEF Proceed
    <3> QED
      BY <3>1, <3>2, CertFacts
  <2>4. CertsTypeOK'
    BY <1>1, <1>3, <2>2, <2>3, CertFacts DEF CertsTypeOK
  <2>5. Loaded'
    BY <1>1, <1>2, <1>5, <2>2, CertFacts DEF Loaded
  <2>6. InHand'
    BY <1>1, <1>2, <1>5, <2>2, CertFacts DEF InHand
  <2>7. HasKey' /\ (~excused' => Keyed')
    <3>1. work["renewer"].pc \in Away /\ w.pc \in Away
      BY <1>1, <1>2 DEF Away
    <3> QED
      BY <1>1, <1>2, <2>1, <2>3, <3>1, CertFacts, KeysAway
  <2> QED
    BY <2>4, <2>5, <2>6, <2>7 DEF CertIInv
<1> QED
  BY <1>6, <1>7

LEMMA TickMissedKeeps == ASSUME CertIInv, TickMissed PROVE CertIInv'
<1>1. /\ hour < MaxTick /\ hour' = hour + 1 /\ failing' = failing + 1
      /\ Event \/ events' = events
      /\ UNCHANGED <<certOf, liveKey, newKey, keys, nodeRow, named, source, ttl, work, excused,
                     steady>>
  BY DEF TickMissed, files, settings
<1>2. Loaded /\ InHand /\ failing <= hour /\ work["renewer"].row.issued \in Nat
  <2>1. work["renewer"].row \in NodeRows0
    BY CertFacts, WorkFields
  <2>2. work["renewer"].row.issued \in 0..MaxTick
    BY <2>1, RowFields
  <2> QED
    BY <2>2, CertFacts, CertNumbers DEF InHand
<1>3. CertsTypeOK'
  <2>1. hour' \in 0..MaxTick /\ failing' \in 0..MaxTick
    BY <1>1, <1>2, CertFacts, CertNumbers
  <2>2. events' \in 0..MaxEvents
    BY <1>1, EventTypes, SameTypes
  <2> QED
    BY <1>1, <2>1, <2>2, CertFacts DEF CertsTypeOK
<1>4. Loaded'
  BY <1>1, <1>2, CertFacts DEF Loaded
<1>5. InHand'
  BY <1>1, <1>2, CertFacts DEF InHand
<1> QED
  BY <1>1, <1>3, <1>4, <1>5, KeysStay DEF CertIInv

(* A pass that finds the node not due, by the settings there still are, has *)
(* the row's own date or an earlier one.                                    *)
LEMMA NotDue ==
  ASSUME CertIInv, work["renewer"].pc = "look",
         ~RenewalDue(work["renewer"].row, work["renewer"].ttl), Judged
  PROVE  hour - nodeRow.issued < RenewAfter(ttl)
<1>1. /\ work["renewer"].row.known
      /\ ~(hour - work["renewer"].row.issued >= RenewAfter(work["renewer"].ttl))
      /\ work["renewer"].ttl = ttl
  BY DEF RenewalDue, Judged
<1>2. work["renewer"].row.issued <= nodeRow.issued
  BY <1>1, CertFacts DEF Loaded
<1>3. work["renewer"].row.issued \in Nat
  <2>1. work["renewer"].row \in NodeRows0
    BY CertFacts, WorkFields
  <2>2. work["renewer"].row.issued \in 0..MaxTick
    BY <2>1, RowFields
  <2> QED
    BY <2>2, CertNumbers
<1> QED
  BY <1>1, <1>2, <1>3, CertFacts

LEMMA LookKeeps == ASSUME CertIInv, Look PROVE CertIInv'
<1> DEFINE r == work["renewer"]
           w == [r EXCEPT !.pc = "key", !.row = [Unloaded EXCEPT !.csr = r.row.csr]]
<1>1. /\ r.pc = "look"
      /\ UNCHANGED <<certOf, liveKey, newKey, keys, nodeRow, named, source, ttl, hour, steady,
                     events>>
  BY DEF Look, CertAt, files, settings
<1>2. CASE RenewalDue(r.row, r.ttl)
  <2>1. Proceed("renewer", w) /\ failing' = failing
    BY <1>2 DEF Look
  <2>2. w \in CertWorks /\ w.pc = "key"
    BY CertFacts, DueWork
  <2> HIDE DEF w
  <2>3. OneMoves("renewer", w)
    <3>1. w.pc \notin Away
      BY <2>2 DEF Away
    <3> QED
      BY <2>1, <2>2, <3>1, CertFacts, ProceedIs
  <2>4. ~excused' => KeyReady(w)
    BY <1>1, <2>2, <2>3, CertFacts, Alone DEF KeyReady
  <2> QED
    BY <1>1, <2>1, <2>2, <2>3, <2>4, CertFacts, SameTypes, WorkKeeps
<1>3. CASE ~RenewalDue(r.row, r.ttl)
  <2>1. Proceed("renewer", Idle) /\ failing' = IF Judged THEN 0 ELSE failing + 1
    BY <1>3 DEF Look
  <2>2. work' = [work EXCEPT !["renewer"] = Idle]
    BY <2>1 DEF Proceed
  <2>3. work'["renewer"] = Idle
    BY <2>2, UnloadedIs, CertFacts, WorkMoved
  <2>4. work["renewer"].pc \in Away /\ Idle.pc \in Away /\ Idle.pc = "idle"
    BY <1>1, UnloadedIs DEF Away
  <2>5. excused' = excused
    <3>1. excused' = (excused \/ \A b \in Actors : work'[b].pc \notin Away)
      BY <2>1 DEF Proceed
    <3> QED
      BY <2>3, <2>4, <3>1, CertFacts
  <2>6. Loaded' /\ InHand' /\ failing' \in 0..MaxTick
    <3>1. CASE ~Judged
      <4>1. failing' = failing + 1 /\ work'["renewer"].pc = "idle"
        BY <2>1, <2>3, <2>4, <3>1
      <4> QED
        BY <1>1, <4>1, PassLost
    <3>2. CASE Judged
      <4>1. hour - nodeRow.issued < RenewAfter(ttl) /\ failing' = 0
        BY <1>1, <1>3, <2>1, <3>2, NotDue
      <4>2. Loaded'
        BY <1>1, <2>3, <2>4, CertFacts DEF Loaded
      <4>3. InHand'
        BY <1>1, <2>3, <2>4, <4>1, CertFacts DEF InHand
      <4> QED
        BY <4>1, <4>2, <4>3, CertNumbers
    <3> QED
      BY <3>1, <3>2
  <2>7. HasKey' /\ (~excused' => Keyed')
    BY <1>1, <2>2, <2>4, <2>5, UnloadedIs, CertFacts, KeysAway
  <2>8. CertsTypeOK'
    <3>1. excused' \in BOOLEAN
      BY <2>5, CertFacts
    <3> QED
      BY <1>1, <2>2, <2>6, <3>1, SameTypes, UnloadedIs, CertFacts, ActorTypes
  <2> QED
    BY <2>6, <2>7, <2>8 DEF CertIInv
<1> QED
  BY <1>2, <1>3

LEMMA CertStep == CertIInv /\ [CertsNext]_certVars => CertIInv'
<1> SUFFICES ASSUME CertIInv, [CertsNext]_certVars PROVE CertIInv'
  OBVIOUS
<1>1. CASE UNCHANGED certVars
  <2>1. /\ UNCHANGED <<certOf, liveKey, newKey, work, excused>>
        /\ UNCHANGED <<keys, nodeRow, named, source, ttl, hour, steady, failing, events>>
    BY <1>1 DEF certVars
  <2>2. CertsTypeOK'
    BY <2>1, CertFacts DEF CertsTypeOK
  <2>3. Loaded' /\ InHand'
    BY <2>1, HandStays
  <2> QED
    BY <2>1, <2>2, <2>3, KeysStay DEF CertIInv
<1>2. CASE CertsNext
  BY <1>2, RenewTickKeeps, TickMissedKeeps, LookKeeps, AskKeyKeeps, UploadKeeps,
     CommitCsrKeeps, SignKeeps, StageKeyKeeps, DatedKeeps, SettingsKeep, MakeKeyKeeps,
     WriteCertKeeps, PromoteKeyKeeps, CommitCertKeeps, CertFailsKeeps DEF CertsNext
<1> QED
  BY <1>1, <1>2

(* A node's key and certificate match unless an install is between its two  *)
(* writes or something excuses it, an upload that is not of its key among   *)
(* them; and a certificate that was installed with more than two thirds of  *)
(* the set lifetime before it is renewed in time, unless that margin is     *)
(* used up by intervals without a finished pass, for every set of lifetimes *)
(* (services/nodecert.py:187-222, services/certrenew.py:95-117).            *)
THEOREM CertificatesKept == CertsSpec => []CertsInv
<1>1. ASSUME CertIInv PROVE CertsInv
  <2>1. CertsTypeOK
    BY <1>1, CertFacts
  <2>2. MismatchHasCause
    BY <1>1, CertFacts DEF MismatchHasCause, Keyed
  <2>3. RenewedInTime
    <3> SUFFICES ASSUME source = "openbao", named, nodeRow.known, steady,
                        3 * (nodeRow.until - nodeRow.issued) > 2 * ttl + 3 * failing
                 PROVE  hour < nodeRow.until
      BY DEF RenewedInTime
    <3>1. hour - nodeRow.issued <= RenewAfter(ttl) + failing
      BY <1>1, CertFacts DEF InHand
    <3>2. ttl \in Nat /\ RenewAfter(ttl) \in Nat /\ 3 * RenewAfter(ttl) <= 2 * ttl
      BY <1>1, CertFacts, CertNumbers, RenewAfterIs
    <3>3. /\ nodeRow.issued \in Nat /\ hour \in Nat /\ failing \in Nat
          /\ nodeRow.until \in Nat
      BY <1>1, CertFacts, RowFields
    <3> QED
      BY <3>1, <3>2, <3>3
  <2> QED
    BY <2>1, <2>2, <2>3 DEF CertsInv
<1>2. CertIInv => CertsInv
  BY <1>1
<1> QED
  BY <1>2, CertsStart, CertStep, PTL DEF CertsSpec

-----------------------------------------------------------------------------
(* Of a node that is present under an id no task still held: its task is    *)
(* not over and samples its own row, and the manager knows the id unless    *)
(* the row is newer than what it read.                                      *)
OwnTask(n) ==
  /\ sampler[n] # "ended" /\ (sampler[n] = "sampling" => under[n] = node[n])
  /\ sample[n].of = 0 \/ sample[n].of = node[n]
  /\ n \notin newcomers =>
       IF manager.acting THEN n \in manager.ids ELSE sampler[n] # "none"

(* An id without a task has no caches.                                      *)
Clean(n) == sampler[n] = "none" => sample[n] = NoSample /\ rates[n] = 0

OwnTasks == \A n \in Present \ reused : OwnTask(n)
AllClean == \A n \in NodeIds : Clean(n)

(* A baseline is the last sample's, which reached the node; under an id no  *)
(* task still held, rates are computed against the node's own counters.     *)
OwnRates(n) ==
  /\ rates[n] # 0 => sample[n].of = rates[n] /\ sample[n].reached
  /\ n \notin reused => /\ sample[n].against \in {0, sample[n].of}
                        /\ sampler[n] = "sampling" => rates[n] \in {0, under[n]}
RatesOwn == \A n \in NodeIds : OwnRates(n)

SamplerIInv == SamplerTypeOK /\ OwnTasks /\ AllClean /\ RatesOwn

LEMMA SamplerNumbers == MaxNodes \in Nat /\ MaxAdds \in Nat /\ 0 \in 0..MaxAdds
BY SamplerBounds

LEMMA SamplerFacts ==
  ASSUME SamplerIInv
  PROVE  /\ SamplerTypeOK
         /\ \A n \in NodeIds : node[n] # 0 /\ n \notin reused => OwnTask(n)
         /\ \A n \in NodeIds : Clean(n) /\ OwnRates(n)
         /\ node \in [NodeIds -> 0..MaxAdds] /\ under \in [NodeIds -> 0..MaxAdds]
         /\ sampler \in [NodeIds -> {"none", "rest", "sampling", "ended"}]
         /\ sample \in [NodeIds -> SampleRecs]
         /\ rates \in [NodeIds -> 0..MaxAdds]
         /\ manager.acting \in BOOLEAN /\ manager.ids \subseteq NodeIds
BY DEF SamplerIInv, SamplerTypeOK, OwnTasks, AllClean, RatesOwn, Present

LEMMA NoSampleIs ==
  NoSample \in SampleRecs /\ NoSample.of = 0 /\ NoSample.against = 0
BY SamplerNumbers DEF NoSample, SampleRecs

LEMMA SamplerStart == SamplerInit => SamplerIInv
<1> SUFFICES ASSUME SamplerInit PROVE SamplerIInv
  OBVIOUS
<1>1. /\ node = [n \in NodeIds |-> 0] /\ sampler = [n \in NodeIds |-> "none"]
      /\ under = [n \in NodeIds |-> 0] /\ sample = [n \in NodeIds |-> NoSample]
      /\ rates = [n \in NodeIds |-> 0]
      /\ manager = [acting |-> FALSE, ids |-> {}]
      /\ added = 0 /\ newcomers = {} /\ reused = {}
  BY DEF SamplerInit
<1>2. SamplerTypeOK
  BY <1>1, SamplerNumbers, NoSampleIs DEF SamplerTypeOK
<1>3. OwnTasks /\ AllClean /\ RatesOwn
  BY <1>1, NoSampleIs DEF OwnTasks, AllClean, Clean, RatesOwn, OwnRates, Present
<1> QED
  BY <1>2, <1>3 DEF SamplerIInv

(* What a step must keep, said of each id.                                  *)
LEMMA SamplerKept ==
  ASSUME SamplerTypeOK',
         \A n \in NodeIds : node'[n] # 0 /\ n \notin reused' => OwnTask(n)',
         \A n \in NodeIds : Clean(n)',
         \A n \in NodeIds : OwnRates(n)'
  PROVE  SamplerIInv'
BY DEF SamplerIInv, OwnTasks, AllClean, RatesOwn, Present

LEMMA CreateNodeKeeps == ASSUME SamplerIInv, CreateNode PROVE SamplerIInv'
<1> DEFINE m == NextNode
<1>1. /\ m \in NodeIds /\ added < MaxAdds /\ added' = added + 1
      /\ node' = [node EXCEPT ![m] = added'] /\ newcomers' = newcomers \union {m}
      /\ reused' = IF m \in Held \union manager.ids THEN reused \union {m} ELSE reused \ {m}
      /\ UNCHANGED <<sampler, under, sample, rates, manager>>
  BY DEF CreateNode
<1> HIDE DEF m
<1>2. SamplerTypeOK'
  <2>1. added' \in 0..MaxAdds
    BY <1>1, SamplerFacts, SamplerNumbers DEF SamplerTypeOK
  <2> QED
    BY <1>1, <2>1, SamplerFacts DEF SamplerTypeOK
<1>3. ASSUME NEW n \in NodeIds, node'[n] # 0, n \notin reused' PROVE OwnTask(n)'
  <2>1. CASE n = m
    <3>1. sampler[n] = "none"
      BY <1>1, <1>3, <2>1 DEF Held
    <3>2. sample[n].of = 0
      BY <3>1, SamplerFacts, NoSampleIs DEF Clean
    <3> QED
      BY <1>1, <2>1, <3>1, <3>2 DEF OwnTask
  <2>2. CASE n # m
    <3>1. node'[n] = node[n] /\ n \notin reused /\ (n \notin newcomers' => n \notin newcomers)
      BY <1>1, <1>3, <2>2, SamplerFacts
    <3>2. OwnTask(n)
      BY <1>3, <3>1, SamplerFacts
    <3> QED
      BY <1>1, <3>1, <3>2 DEF OwnTask
  <2> QED
    BY <2>1, <2>2
<1>4. \A n \in NodeIds : Clean(n)'
  BY <1>1, SamplerFacts DEF Clean
<1>5. ASSUME NEW n \in NodeIds PROVE OwnRates(n)'
  <2>1. CASE n \notin reused' /\ n \in reused
    <3>1. sampler[n] = "none"
      BY <1>1, <2>1 DEF Held
    <3>2. sample[n].against = 0
      BY <3>1, SamplerFacts, NoSampleIs DEF Clean
    <3> QED
      BY <1>1, <3>1, <3>2, SamplerFacts DEF OwnRates
  <2>2. CASE n \in reused' \/ n \notin reused
    BY <1>1, <2>2, SamplerFacts DEF OwnRates
  <2> QED BY <2>1, <2>2
<1> QED
  BY <1>2, <1>3, <1>4, <1>5, SamplerKept

LEMMA DeleteNodeKeeps == ASSUME SamplerIInv, NEW m \in NodeIds, DeleteNode(m) PROVE SamplerIInv'
<1>1. /\ node' = [node EXCEPT ![m] = 0]
      /\ UNCHANGED <<sampler, under, sample, rates, manager, added, newcomers, reused>>
  BY DEF DeleteNode
<1>2. SamplerTypeOK'
  BY <1>1, SamplerFacts, SamplerNumbers DEF SamplerTypeOK
<1>3. ASSUME NEW n \in NodeIds, node'[n] # 0, n \notin reused' PROVE OwnTask(n)'
  <2>1. node'[n] = node[n] /\ OwnTask(n)
    BY <1>1, <1>3, SamplerFacts
  <2> QED
    BY <1>1, <2>1 DEF OwnTask
<1>4. \A n \in NodeIds : Clean(n)'
  BY <1>1, SamplerFacts DEF Clean
<1>5. \A n \in NodeIds : OwnRates(n)'
  BY <1>1, SamplerFacts DEF OwnRates
<1> QED
  BY <1>2, <1>3, <1>4, <1>5, SamplerKept

LEMMA ManagerReadsKeeps == ASSUME SamplerIInv, ManagerReads PROVE SamplerIInv'
<1>1. /\ manager' = [acting |-> TRUE, ids |-> Present] /\ newcomers' = {}
      /\ UNCHANGED <<node, sampler, under, sample, rates, added, reused>>
  BY DEF ManagerReads
<1>2. SamplerTypeOK'
  BY <1>1, SamplerFacts DEF SamplerTypeOK, Present
<1>3. ASSUME NEW n \in NodeIds, node'[n] # 0, n \notin reused' PROVE OwnTask(n)'
  <2>1. OwnTask(n) /\ n \in Present
    BY <1>1, <1>3, SamplerFacts DEF Present
  <2> QED
    BY <1>1, <2>1 DEF OwnTask
<1>4. \A n \in NodeIds : Clean(n)'
  BY <1>1, SamplerFacts DEF Clean
<1>5. \A n \in NodeIds : OwnRates(n)'
  BY <1>1, SamplerFacts DEF OwnRates
<1> QED
  BY <1>2, <1>3, <1>4, <1>5, SamplerKept

LEMMA ManagerActsKeeps == ASSUME SamplerIInv, ManagerActs PROVE SamplerIInv'
<1> DEFINE ids == manager.ids
<1>1. /\ manager.acting /\ manager' = [acting |-> FALSE, ids |-> {}]
      /\ sampler' = [n \in NodeIds |-> IF n \in ids
                          THEN IF sampler[n] = "none" THEN "rest" ELSE sampler[n] ELSE "none"]
      /\ sample' = [n \in NodeIds |-> IF n \in Held \ ids THEN NoSample ELSE sample[n]]
      /\ rates' = [n \in NodeIds |-> IF n \in Held \ ids THEN 0 ELSE rates[n]]
      /\ UNCHANGED <<node, under, added, newcomers, reused>>
  BY DEF ManagerActs, Forgotten
<1> HIDE DEF ids
<1>2. SamplerTypeOK'
  <2>1. sampler' \in [NodeIds -> {"none", "rest", "sampling", "ended"}]
    BY <1>1, SamplerFacts
  <2>2. sample' \in [NodeIds -> SampleRecs]
    <3> DEFINE S == SampleRecs
    <3>1. NoSample \in S /\ sample \in [NodeIds -> S]
      BY SamplerFacts, NoSampleIs
    <3> HIDE DEF S
    <3>2. sample' \in [NodeIds -> S]
      BY <1>1, <3>1
    <3> QED
      BY <3>2 DEF S
  <2>3. rates' \in [NodeIds -> 0..MaxAdds]
    BY <1>1, SamplerFacts, SamplerNumbers
  <2> QED
    BY <1>1, <2>1, <2>2, <2>3, SamplerFacts DEF SamplerTypeOK
<1>3. ASSUME NEW n \in NodeIds, node'[n] # 0, n \notin reused' PROVE OwnTask(n)'
  <2>1. OwnTask(n)
    BY <1>1, <1>3, SamplerFacts
  <2>2. /\ sampler'[n] # "ended" /\ (sampler'[n] = "sampling" => sampler[n] = "sampling")
        /\ n \in ids => sampler'[n] # "none"
    BY <1>1, <2>1, SamplerFacts DEF OwnTask
  <2>3. sample'[n] = NoSample \/ sample'[n] = sample[n]
    BY <1>1
  <2>4. sample'[n].of = 0 \/ sample'[n].of = node[n]
    BY <2>1, <2>3, NoSampleIs DEF OwnTask
  <2>5. n \notin newcomers => n \in ids
    BY <1>1, <2>1 DEF OwnTask, ids
  <2>6. ~manager'.acting
    BY <1>1
  <2> QED
    BY <1>1, <2>1, <2>2, <2>4, <2>5, <2>6 DEF OwnTask
<1>4. ASSUME NEW n \in NodeIds PROVE Clean(n)'
  <2>1. CASE n \in Held \ ids
    BY <1>1, <2>1 DEF Clean
  <2>2. CASE n \notin Held \ ids
    <3>1. sampler'[n] = "none" => sampler[n] = "none"
      BY <1>1, <2>2 DEF Held
    <3> QED
      BY <1>1, <2>2, <3>1, SamplerFacts DEF Clean
  <2> QED
    BY <2>1, <2>2
<1>5. ASSUME NEW n \in NodeIds PROVE OwnRates(n)'
  <2>1. CASE n \in Held \ ids
    <3>1. rates'[n] = 0 /\ sample'[n].against = 0
      BY <1>1, <2>1, NoSampleIs
    <3> QED
      BY <1>1, <3>1, SamplerFacts DEF OwnRates
  <2>2. CASE n \notin Held \ ids
    <3>1. rates'[n] = rates[n] /\ sample'[n] = sample[n]
      BY <1>1, <2>2
    <3>2. sampler'[n] = "sampling" => sampler[n] = "sampling"
      BY <1>1, SamplerFacts
    <3> QED
      BY <1>1, <3>1, <3>2, SamplerFacts DEF OwnRates
  <2> QED BY <2>1, <2>2
<1> QED
  BY <1>2, <1>3, <1>4, <1>5, SamplerKept

LEMMA SampleBeginsKeeps ==
  ASSUME SamplerIInv, NEW m \in NodeIds, SampleBegins(m) PROVE SamplerIInv'
<1>1. /\ sampler[m] = "rest"
      /\ sampler' = [sampler EXCEPT ![m] = IF node[m] = 0 THEN "ended" ELSE "sampling"]
      /\ under' = [under EXCEPT ![m] = node[m]]
      /\ UNCHANGED <<node, sample, rates, manager, added, newcomers, reused>>
  BY DEF SampleBegins
<1>2. SamplerTypeOK'
  <2>1. under' \in [NodeIds -> 0..MaxAdds]
    BY <1>1, SamplerFacts
  <2>2. sampler' \in [NodeIds -> {"none", "rest", "sampling", "ended"}]
    BY <1>1, SamplerFacts
  <2> QED
    BY <1>1, <2>1, <2>2, SamplerFacts DEF SamplerTypeOK
<1>3. ASSUME NEW n \in NodeIds, node'[n] # 0, n \notin reused' PROVE OwnTask(n)'
  <2>1. OwnTask(n)
    BY <1>1, <1>3, SamplerFacts
  <2>2. CASE n = m
    <3>1. sampler'[n] = "sampling" /\ under'[n] = node[n]
      BY <1>1, <1>3, <2>2, SamplerFacts
    <3> QED
      BY <1>1, <2>1, <3>1 DEF OwnTask
  <2>3. CASE n # m
    <3>1. sampler'[n] = sampler[n] /\ under'[n] = under[n]
      BY <1>1, <2>3, SamplerFacts
    <3> QED
      BY <1>1, <2>1, <3>1 DEF OwnTask
  <2> QED
    BY <2>2, <2>3
<1>4. ASSUME NEW n \in NodeIds PROVE Clean(n)'
  <2>1. sampler'[n] = "none" => sampler[n] = "none"
    BY <1>1, SamplerFacts
  <2> QED
    BY <1>1, <2>1, SamplerFacts DEF Clean
<1>5. ASSUME NEW n \in NodeIds PROVE OwnRates(n)'
  <2>1. OwnRates(n) /\ UNCHANGED <<sample, rates, reused>>
    BY <1>1, SamplerFacts
  <2>2. CASE n = m /\ node[n] # 0 /\ n \notin reused
    <3>1. rates[n] \in {0, node[n]} /\ under'[n] = node[n]
      BY <1>1, <2>1, <2>2, SamplerFacts DEF OwnRates, OwnTask
    <3> QED
      BY <2>1, <3>1 DEF OwnRates
  <2>3. CASE n = m /\ node[n] = 0
    <3>1. sampler'[n] = "ended"
      BY <1>1, <2>3, SamplerFacts
    <3> QED
      BY <2>1, <3>1 DEF OwnRates
  <2>4. CASE n \in reused
    BY <2>1, <2>4 DEF OwnRates
  <2>5. CASE n # m
    <3>1. sampler'[n] = sampler[n] /\ under'[n] = under[n]
      BY <1>1, <2>5, SamplerFacts
    <3> QED
      BY <2>1, <3>1 DEF OwnRates
  <2> QED BY <2>2, <2>3, <2>4, <2>5
<1> QED
  BY <1>2, <1>3, <1>4, <1>5, SamplerKept

LEMMA SampleEndsKeeps ==
  ASSUME SamplerIInv, NEW m \in NodeIds, SampleEnds(m) PROVE SamplerIInv'
<1>1. /\ sampler[m] = "sampling" /\ sampler' = [sampler EXCEPT ![m] = "rest"]
      /\ UNCHANGED <<node, under, manager, added, newcomers, reused>>
  BY DEF SampleEnds
<1>2. PICK reached \in BOOLEAN :
        /\ sample' = [sample EXCEPT ![m] = [of |-> under[m], reached |-> reached,
                                            against |-> IF reached THEN rates[m] ELSE 0]]
        /\ rates' = [rates EXCEPT ![m] = Baseline(m, reached)]
  BY DEF SampleEnds
<1>3. /\ under[m] \in 0..MaxAdds /\ Baseline(m, reached) \in {0, under[m]}
      /\ Baseline(m, reached) # 0 => reached = TRUE /\ Baseline(m, reached) = under[m]
      /\ (IF reached THEN rates[m] ELSE 0) \in {0, rates[m]} /\ rates[m] \in 0..MaxAdds
  BY SamplerFacts DEF Baseline
<1> DEFINE against == IF reached THEN rates[m] ELSE 0
<1> HIDE DEF against
<1>4. /\ sample'[m] = [of |-> under[m], reached |-> reached, against |-> against]
      /\ rates'[m] = Baseline(m, reached)
      /\ sampler'[m] = "rest"
      /\ \A n \in NodeIds : n # m => /\ sample'[n] = sample[n] /\ rates'[n] = rates[n]
                                     /\ sampler'[n] = sampler[n]
  BY <1>1, <1>2, SamplerFacts DEF against
<1>5. SamplerTypeOK'
  <2>1. sampler' \in [NodeIds -> {"none", "rest", "sampling", "ended"}]
    BY <1>1, SamplerFacts
  <2>2. sample' \in [NodeIds -> SampleRecs]
    <3> DEFINE s == [of |-> under[m], reached |-> reached, against |-> against]
    <3>1. s \in SampleRecs
      BY <1>3, SamplerNumbers DEF SampleRecs, against
    <3>2. sample' = [sample EXCEPT ![m] = s]
      BY <1>2 DEF against
    <3> HIDE DEF s
    <3> QED
      BY <3>1, <3>2, SamplerFacts
  <2>3. rates' \in [NodeIds -> 0..MaxAdds]
    BY <1>2, <1>3, SamplerFacts, SamplerNumbers
  <2> QED
    BY <1>1, <2>1, <2>2, <2>3, SamplerFacts DEF SamplerTypeOK
<1>6. ASSUME NEW n \in NodeIds, node'[n] # 0, n \notin reused' PROVE OwnTask(n)'
  <2>1. OwnTask(n)
    BY <1>1, <1>6, SamplerFacts
  <2>2. CASE n = m
    <3>1. sample'[n].of = node[n]
      BY <1>1, <1>4, <2>1, <2>2 DEF OwnTask
    <3> QED
      BY <1>1, <1>4, <2>1, <2>2, <3>1 DEF OwnTask
  <2>3. CASE n # m
    BY <1>1, <1>4, <2>1, <2>3 DEF OwnTask
  <2> QED
    BY <2>2, <2>3
<1>7. ASSUME NEW n \in NodeIds PROVE Clean(n)'
  <2>1. CASE n = m
    BY <1>4, <2>1 DEF Clean
  <2>2. CASE n # m
    BY <1>4, <2>2, SamplerFacts DEF Clean
  <2> QED
    BY <2>1, <2>2
<1>8. ASSUME NEW n \in NodeIds PROVE OwnRates(n)'
  <2>1. CASE n = m
    <3>1. rates'[n] # 0 => sample'[n].of = rates'[n] /\ sample'[n].reached
      BY <1>3, <1>4, <2>1
    <3>2. n \notin reused => against \in {0, under[m]}
      BY <1>1, <1>3, <2>1, SamplerFacts DEF OwnRates, against
    <3>3. /\ sample'[n].against = against /\ sample'[n].of = under[m]
          /\ sampler'[n] # "sampling" /\ reused' = reused
      BY <1>1, <1>4, <2>1
    <3> QED
      BY <3>1, <3>2, <3>3 DEF OwnRates
  <2>2. CASE n # m
    BY <1>1, <1>4, <2>2, SamplerFacts DEF OwnRates
  <2> QED
    BY <2>1, <2>2
<1> QED
  BY <1>5, <1>6, <1>7, <1>8, SamplerKept

LEMMA SamplerStep == SamplerIInv /\ [SamplerNext]_samplerVars => SamplerIInv'
<1> SUFFICES ASSUME SamplerIInv, [SamplerNext]_samplerVars PROVE SamplerIInv'
  OBVIOUS
<1>1. CASE UNCHANGED samplerVars
  BY <1>1 DEF samplerVars, SamplerIInv, SamplerTypeOK, OwnTasks, OwnTask, AllClean, Clean,
     RatesOwn, OwnRates, Present
<1>2. CASE SamplerNext
  BY <1>2, CreateNodeKeeps, DeleteNodeKeeps, ManagerReadsKeeps, ManagerActsKeeps,
     SampleBeginsKeeps, SampleEndsKeeps DEF SamplerNext
<1> QED
  BY <1>1, <1>2

(* A configured node has a running sampler once the manager has been round, *)
(* what the portal shows of it is of its own row, and rates are computed    *)
(* across no outage and against its own counters only, but for an id taken  *)
(* again while a former task still held it; for any number of ids and rows  *)
(* (services/telemetry.py:479-561, 763-791).                                *)
THEOREM NodesAreSampled == SamplerSpec => []SamplerInv
<1>1. ASSUME SamplerIInv PROVE SamplerInv
  <2>1. EveryNodeSampled
    <3> SUFFICES ASSUME NEW n \in NodeIds, node[n] # 0, n \notin reused, n \notin newcomers
                 PROVE  /\ ~manager.acting => sampler[n] \in {"rest", "sampling"}
                        /\ sample[n].of \in {0, node[n]}
      BY DEF EveryNodeSampled, Present
    <3>1. OwnTask(n)
      BY <1>1, SamplerFacts
    <3> QED
      BY <1>1, <3>1, SamplerFacts DEF OwnTask
  <2>2. RatesWithinReach
    BY <1>1, SamplerFacts DEF RatesWithinReach, OwnRates
  <2> QED
    BY <1>1, <2>1, <2>2, SamplerFacts DEF SamplerInv
<1>2. SamplerIInv => SamplerInv
  BY <1>1
<1> QED
  BY <1>2, SamplerStart, SamplerStep, PTL DEF SamplerSpec
-----------------------------------------------------------------------------
(* What a task keeps, as a record.                                          *)
FileRecs ==
  [kind : TaskKinds, pc : TaskPlaces, row : 0..MaxRows, status : ModelStatuses,
   nodes : [Hosts -> NodeRows], at : Hosts, left : SUBSET Hosts,
   saw : [Hosts -> {"unknown", "none", "there"}], ok : BOOLEAN, drop : BOOLEAN,
   stale : BOOLEAN]

WorkPlaces == {"prepare", "run", "running", "over", "rsync", "verify"}
SyncPlaces == {"pick", "mark sync", "rsync", "verify", "sync failed"}

(* Who is idle holds nothing; a download is at the head until its sync; a   *)
(* task past its load has a row, and one between a mark and the outcome     *)
(* marked that node itself.                                                 *)
Placed(t) ==
  LET k == task[t] IN
  /\ k.pc = "idle" => k = NoTask
  /\ k.pc \notin SyncPlaces => k.at = HeadNode
  /\ k.row <= rows
  /\ k.pc \notin {"idle", "asked", "load", "look"} => k.row # 0
  /\ k.pc \in WorkPlaces => k.nodes[k.at].status \in InFlight
  /\ k.kind = "delete" => k.pc \in {"asked", "load", "rm"}
  /\ \A n \in Hosts : /\ k.saw[n] # "unknown" => k.pc \in {"rm", "probe"}
                      /\ k.saw[n] = "there" => k.kind # "delete"

Filled(n) == disk[n] # "none" \/ n \in doubt

(* A transfer that went well, and a probe that saw files, left them there,  *)
(* unless a delete overlapped.                                              *)
Delivered(t) ==
  LET k == task[t] IN
  /\ k.pc = "over" /\ k.ok => Filled(HeadNode)
  /\ k.pc = "verify" => Filled(k.at)
  /\ \A n \in Hosts : k.saw[n] = "there" => Filled(n)

(* A delete that nothing overlapped loaded what is still said of presence,  *)
(* or its row is gone and nothing is said, but by others.                   *)
Fresh(t) ==
  LET k == task[t] IN
  k.kind = "delete" /\ k.pc = "rm" => \A n \in Hosts :
    \/ n \in doubt \/ ~nodeState[n].present
    \/ /\ k.row = model.id /\ ~k.stale
       /\ k.nodes[n].present = nodeState[n].present

TaskOK(t) == Placed(t) /\ Delivered(t) /\ Fresh(t)

ContainerRuns == container \in FileTasks => task[container].pc = "running"
RowsKnown     == model.id <= rows /\ (model.id = 0 => nodeState = NoCopies)
Overlapped    == doubt = Hosts \/
  \A u, v \in FileTasks : task[u].kind = "delete" /\ Active(v) => u = v

FilesIInv ==
  /\ FilesTypeOK /\ ContainerRuns /\ RowsKnown /\ Overlapped
  /\ \A t \in FileTasks : TaskOK(t)
  /\ InFlightHasCause /\ PresentIsThere

-----------------------------------------------------------------------------
LEMMA FilesTyped ==
  FilesTypeOK <=>
    /\ model \in [id : 0..MaxRows, status : ModelStatuses]
    /\ nodeState \in [Hosts -> NodeRows]
    /\ disk \in [Hosts -> {"none", "partial", "full"}]
    /\ container \in FileTasks \union {"none", "orphan"}
    /\ task \in [FileTasks -> FileRecs]
    /\ adrift \subseteq Hosts /\ doubt \subseteq Hosts
    /\ rows \in 0..MaxRows /\ ops \in 0..MaxOps /\ cuts \in 0..MaxCuts
BY DEF FilesTypeOK, FileRecs

LEMMA NoTaskFacts ==
  /\ NoTask \in FileRecs
  /\ NoTask.pc = "idle" /\ NoTask.kind = "none" /\ NoTask.row = 0
  /\ NoTask.at = HeadNode
  /\ \A n \in Hosts : NoTask.saw[n] = "unknown"
<1>1. HeadNode \in Hosts /\ 0 \in 0..MaxRows
  BY FilesBounds DEF Hosts
<1>2. NoCopies \in [Hosts -> NodeRows]
  BY DEF NoCopies, Absent, NodeRows, ModelStatuses, InFlight
<1>3. [n \in Hosts |-> "unknown"] \in [Hosts -> {"unknown", "none", "there"}]
  OBVIOUS
<1>4. NoTask \in FileRecs
  BY <1>1, <1>2, <1>3 DEF NoTask, FileRecs, TaskKinds, TaskPlaces, ModelStatuses, FileOps
<1> QED
  BY <1>4 DEF NoTask

LEMMA RecFields ==
  ASSUME NEW r \in FileRecs
  PROVE  /\ r.kind \in TaskKinds /\ r.pc \in TaskPlaces /\ r.row \in 0..MaxRows
         /\ r.status \in ModelStatuses /\ r.nodes \in [Hosts -> NodeRows]
         /\ r.at \in Hosts /\ r.left \subseteq Hosts
         /\ r.saw \in [Hosts -> {"unknown", "none", "there"}]
         /\ r.ok \in BOOLEAN /\ r.drop \in BOOLEAN /\ r.stale \in BOOLEAN
BY DEF FileRecs

LEMMA NodeRowFields ==
  ASSUME NEW f \in [Hosts -> NodeRows], NEW n \in Hosts
  PROVE  f[n].status \in ModelStatuses /\ f[n].present \in BOOLEAN
BY DEF NodeRows

(* All of a task but its place.                                             *)
Alike(s, r) ==
  /\ s.kind = r.kind /\ s.row = r.row /\ s.status = r.status /\ s.nodes = r.nodes
  /\ s.at = r.at /\ s.left = r.left /\ s.saw = r.saw /\ s.ok = r.ok /\ s.drop = r.drop
  /\ s.stale = r.stale

LEMMA PcTo ==
  ASSUME NEW r \in FileRecs, NEW p \in TaskPlaces
  PROVE  /\ [r EXCEPT !.pc = p] \in FileRecs
         /\ [r EXCEPT !.pc = p].pc = p /\ Alike([r EXCEPT !.pc = p], r)
BY DEF FileRecs, Alike

Others(T) == \A u \in FileTasks \ T : task'[u] = task[u]

LEMMA StepFacts ==
  ASSUME FilesTypeOK, NEW t \in FileTasks, NEW p \in TaskPlaces, Step(t, p)
  PROVE  /\ task' \in [FileTasks -> FileRecs] /\ Others({t})
         /\ task'[t].pc = p /\ Alike(task'[t], task[t])
<1>1. task \in [FileTasks -> FileRecs]
  BY FilesTyped
<1>2. PICK r \in {[task[t] EXCEPT !.pc = p]} : r = [task[t] EXCEPT !.pc = p]
  OBVIOUS
<1>3. r \in FileRecs /\ r.pc = p /\ Alike(r, task[t])
  BY <1>1, <1>2, PcTo
<1>4. task' = [task EXCEPT ![t] = r]
  BY <1>1, <1>2 DEF Step
<1> QED
  BY <1>1, <1>3, <1>4 DEF Others

LEMMA EndFacts ==
  ASSUME FilesTypeOK, NEW t \in FileTasks, EndOf(t)
  PROVE  /\ task' \in [FileTasks -> FileRecs] /\ Others({t}) /\ task'[t] = NoTask
         /\ adrift \subseteq adrift' /\ adrift' \subseteq Hosts
         /\ \A n \in Hosts : WorksOn(t, n) /\ nodeState[n].status \in InFlight
                               => n \in adrift'
         /\ container' = IF container = t THEN "orphan" ELSE container
         /\ container' \in FileTasks \union {"none", "orphan"}
<1>1. task \in [FileTasks -> FileRecs] /\ adrift \subseteq Hosts
      /\ container \in FileTasks \union {"none", "orphan"}
  BY FilesTyped
<1>2. task' = [task EXCEPT ![t] = NoTask]
  BY DEF EndOf
<1>3. task' \in [FileTasks -> FileRecs] /\ Others({t}) /\ task'[t] = NoTask
  BY <1>1, <1>2, NoTaskFacts DEF Others
<1>4. adrift' = adrift \union
        {n \in Hosts : WorksOn(t, n) /\ nodeState[n].status \in InFlight}
  BY DEF EndOf
<1>5. container' = IF container = t THEN "orphan" ELSE container
  BY DEF EndOf
<1> QED
  BY <1>1, <1>3, <1>4, <1>5

-----------------------------------------------------------------------------
(* A task that does not move keeps what it has, whoever else moves.         *)
LEMMA OthersOK ==
  ASSUME NEW u \in FileTasks, TaskOK(u), task'[u] = task[u], rows <= rows',
         rows \in Nat, rows' \in Nat, task[u] \in FileRecs,
         doubt \subseteq doubt', doubt' \subseteq Hosts,
         task[u].pc # "idle" =>
           \A n \in Hosts : disk[n] # "none" => disk'[n] # "none" \/ n \in doubt',
         \/ doubt' = Hosts
         \/ model'.id = model.id /\ \A n \in Hosts :
              n \in doubt' \/ nodeState'[n].present = nodeState[n].present
         \/ \A n \in Hosts : ~nodeState'[n].present
         \/ ~(task[u].kind = "delete" /\ task[u].pc = "rm")
  PROVE  TaskOK(u)'
<1>1. Placed(u)'
  <2>1. task[u].row \in Nat
    BY RecFields, FilesBounds
  <2> QED
    BY <2>1 DEF TaskOK, Placed
<1>2. Delivered(u)'
  <2>1. CASE task[u].pc = "idle"
    BY <2>1, NoTaskFacts DEF TaskOK, Placed, Delivered
  <2>2. CASE task[u].pc # "idle"
    <3>1. \A n \in Hosts : Filled(n) => Filled(n)'
      BY <2>2 DEF Filled
    <3>2. HeadNode \in Hosts /\ task[u].at \in Hosts
      BY RecFields DEF Hosts
    <3> QED
      BY <3>1, <3>2 DEF TaskOK, Delivered
  <2> QED
    BY <2>1, <2>2
<1>3. Fresh(u)'
  BY DEF TaskOK, Fresh
<1> QED
  BY <1>1, <1>2, <1>3 DEF TaskOK

LEMMA QuietTyped ==
  ASSUME FilesTypeOK, UNCHANGED <<model, nodeState, bounds>>,
         task' \in [FileTasks -> FileRecs],
         disk' \in [Hosts -> {"none", "partial", "full"}],
         container' \in FileTasks \union {"none", "orphan"},
         adrift' \subseteq Hosts, doubt' \subseteq Hosts
  PROVE  FilesTypeOK' /\ UNCHANGED rows
BY DEF FilesTypeOK, FileRecs, bounds

LEMMA TypeFacts ==
  ASSUME FilesTypeOK
  PROVE  /\ task \in [FileTasks -> FileRecs]
         /\ disk \in [Hosts -> {"none", "partial", "full"}]
         /\ container \in FileTasks \union {"none", "orphan"}
         /\ adrift \subseteq Hosts /\ doubt \subseteq Hosts /\ rows \in Nat
         /\ nodeState \in [Hosts -> NodeRows]
         /\ model \in [id : 0..MaxRows, status : ModelStatuses]
         /\ model.id \in Nat
<1>1. rows \in 0..MaxRows /\ model \in [id : 0..MaxRows, status : ModelStatuses]
  BY FilesTyped
<1>2. rows \in Nat /\ model.id \in Nat
  BY <1>1, FilesBounds
<1> QED
  BY <1>1, <1>2, FilesTyped

(* Fewer are active, and no task becomes a delete.                          *)
LEMMA OverlapKeeps ==
  ASSUME Overlapped, doubt \subseteq doubt', doubt' \subseteq Hosts,
         \A u \in FileTasks : /\ Active(u)' => Active(u)
                              /\ task'[u].kind = "delete" => task[u].kind = "delete"
  PROVE  Overlapped'
BY DEF Overlapped

(* A step that writes no row.                                               *)
LEMMA QuietKeeps ==
  ASSUME FilesIInv, FilesTypeOK', NEW T \in SUBSET FileTasks, Others(T),
         UNCHANGED <<model, nodeState, rows>>, doubt \subseteq doubt',
         adrift \subseteq adrift', ContainerRuns', Overlapped',
         \A u \in FileTasks \ T : Active(u) => \A n \in Hosts :
           disk[n] # "none" => disk'[n] # "none" \/ n \in doubt',
         \A n \in Hosts : disk[n] # "none" /\ disk'[n] = "none" =>
           n \in doubt' \/ \E t \in T : Removed(t, n)',
         \A t \in T : TaskOK(t)',
         \A t \in T, n \in Hosts : WorksOn(t, n) =>
           \/ WorksOn(t, n)' \/ n \in adrift' \/ nodeState[n].status \notin InFlight,
         \A t \in T, n \in Hosts : Removed(t, n) =>
           Removed(t, n)' \/ n \in doubt' \/ ~nodeState[n].present
  PROVE  FilesIInv'
<1>1. FilesTypeOK /\ doubt' \subseteq Hosts /\ rows \in Nat
      /\ task \in [FileTasks -> FileRecs]
  BY FilesTyped, FilesBounds DEF FilesIInv, FilesTypeOK
<1>2. ASSUME NEW u \in FileTasks PROVE TaskOK(u)'
  <2>1. CASE u \in T
    BY <2>1
  <2>2. CASE u \notin T
    <3>1. task'[u] = task[u] /\ TaskOK(u) /\ task[u] \in FileRecs
      BY <1>1, <2>2 DEF Others, FilesIInv
    <3>2. task[u].pc # "idle" =>
            \A n \in Hosts : disk[n] # "none" => disk'[n] # "none" \/ n \in doubt'
      BY <2>2 DEF Active
    <3>3. rows <= rows'
      BY <1>1
    <3>4. /\ model'.id = model.id
          /\ \A n \in Hosts :
               n \in doubt' \/ nodeState'[n].present = nodeState[n].present
      OBVIOUS
    <3> QED
      BY <1>1, <3>1, <3>2, <3>3, <3>4, OthersOK
  <2> QED
    BY <2>1, <2>2
<1>3. RowsKnown'
  BY DEF FilesIInv, RowsKnown
<1>4. InFlightHasCause'
  <2> SUFFICES ASSUME NEW n \in Hosts, nodeState[n].status \in InFlight
               PROVE  n \in adrift' \/ \E t \in FileTasks : WorksOn(t, n)'
    BY DEF InFlightHasCause
  <2>1. n \in adrift \/ \E t \in FileTasks : WorksOn(t, n)
    BY DEF FilesIInv, InFlightHasCause
  <2>2. ASSUME NEW t \in FileTasks \ T, WorksOn(t, n) PROVE WorksOn(t, n)'
    BY <2>2 DEF Others, WorksOn
  <2> QED
    BY <2>1, <2>2
<1>5. PresentIsThere'
  <2> SUFFICES ASSUME NEW n \in Hosts, nodeState[n].present, disk'[n] = "none"
               PROVE  n \in doubt' \/ \E t \in FileTasks : Removed(t, n)'
    BY DEF PresentIsThere
  <2>1. CASE disk[n] # "none"
    BY <2>1
  <2>2. CASE disk[n] = "none"
    <3>1. n \in doubt \/ \E t \in FileTasks : Removed(t, n)
      BY <2>2 DEF FilesIInv, PresentIsThere
    <3>2. ASSUME NEW t \in FileTasks \ T, Removed(t, n) PROVE Removed(t, n)'
      BY <3>2 DEF Others, Removed
    <3> QED
      BY <3>1, <3>2
  <2> QED
    BY <2>1, <2>2
<1> QED
  BY <1>2, <1>3, <1>4, <1>5 DEF FilesIInv

-----------------------------------------------------------------------------
(* What a commit writes, when the task's row is there.                      *)
Written(t, ns) ==
  /\ model'.id = model.id
  /\ model' \in [id : 0..MaxRows, status : ModelStatuses]
  /\ nodeState' \in [Hosts -> NodeRows]
  /\ \A n \in Hosts :
       /\ nodeState'[n].status =
            Kept(nodeState[n].status, task[t].nodes[n].status, ns[n].status)
       /\ nodeState'[n].present =
            Kept(nodeState[n].present, task[t].nodes[n].present, ns[n].present)
  /\ adrift' = {n \in adrift : nodeState'[n].status \in InFlight}

(* Where it leaves the task.                                                *)
MovedOn(t, ns, place) ==
  /\ task' \in [FileTasks -> FileRecs] /\ Others({t})
  /\ place = "idle" => task'[t] = NoTask
  /\ place # "idle" =>
       /\ task'[t].pc = place /\ task'[t].nodes = ns
       /\ task'[t].kind = task[t].kind /\ task'[t].row = task[t].row
       /\ task'[t].at = task[t].at /\ task'[t].saw = task[t].saw
       /\ task'[t].ok = task[t].ok

LEMMA WriteRowsFacts ==
  ASSUME FilesTypeOK, NEW t \in FileTasks, NEW status \in ModelStatuses,
         NEW ns \in [Hosts -> NodeRows], WriteRows(t, status, ns)
  PROVE  Written(t, ns)
<1>1. /\ model \in [id : 0..MaxRows, status : ModelStatuses]
      /\ nodeState \in [Hosts -> NodeRows] /\ task \in [FileTasks -> FileRecs]
  BY FilesTyped
<1>2. /\ model' \in [id : 0..MaxRows, status : ModelStatuses]
      /\ model'.id = model.id
  <2>1. PICK st \in {Kept(model.status, task[t].status, status)} :
          model' = [model EXCEPT !.status = st]
    BY DEF WriteRows
  <2>2. st \in ModelStatuses
    BY <1>1, <2>1 DEF Kept
  <2> QED
    BY <1>1, <2>1, <2>2
<1>3. task[t].nodes \in [Hosts -> NodeRows]
  BY <1>1, RecFields
<1>4. ASSUME NEW n \in Hosts
      PROVE  /\ nodeState'[n].status =
                  Kept(nodeState[n].status, task[t].nodes[n].status, ns[n].status)
             /\ nodeState'[n].present =
                  Kept(nodeState[n].present, task[t].nodes[n].present, ns[n].present)
             /\ nodeState'[n] \in NodeRows
  <2>1. nodeState'[n] =
          [status  |-> Kept(nodeState[n].status, task[t].nodes[n].status, ns[n].status),
           present |-> Kept(nodeState[n].present, task[t].nodes[n].present, ns[n].present)]
    BY DEF WriteRows
  <2>2. /\ nodeState[n].status \in ModelStatuses /\ nodeState[n].present \in BOOLEAN
        /\ ns[n].status \in ModelStatuses /\ ns[n].present \in BOOLEAN
    BY <1>1, NodeRowFields
  <2> QED
    BY <2>1, <2>2 DEF Kept, NodeRows
<1>5. nodeState' \in [Hosts -> NodeRows]
  <2>1. PICK F \in {[n \in Hosts |->
          [status  |-> Kept(nodeState[n].status, task[t].nodes[n].status, ns[n].status),
           present |-> Kept(nodeState[n].present, task[t].nodes[n].present, ns[n].present)]]} :
          nodeState' = F
    BY DEF WriteRows
  <2>2. DOMAIN nodeState' = Hosts /\ nodeState' = [n \in Hosts |-> nodeState'[n]]
    BY <2>1
  <2> QED
    BY <1>4, <2>2
<1>6. adrift' = {n \in adrift : nodeState'[n].status \in InFlight}
  BY DEF WriteRows
<1> QED
  BY <1>2, <1>4, <1>5, <1>6 DEF Written

LEMMA CommitFacts ==
  ASSUME FilesTypeOK, NEW t \in FileTasks, NEW status \in ModelStatuses,
         NEW ns \in [Hosts -> NodeRows], NEW place \in TaskPlaces,
         Commit(t, status, ns, place)
  PROVE  /\ MovedOn(t, ns, place)
         /\ task[t].row = model.id => Written(t, ns)
         /\ task[t].row # model.id => UNCHANGED <<model, nodeState, adrift>>
<1>1. task \in [FileTasks -> FileRecs]
  BY FilesTyped
<1>2. task[t].row = model.id => Written(t, ns)
  BY WriteRowsFacts DEF Commit
<1>3. task[t].row # model.id => UNCHANGED <<model, nodeState, adrift>>
  BY DEF Commit
<1>6. PICK r : r = (IF place = "idle" THEN NoTask
                    ELSE [task[t] EXCEPT !.status = status, !.nodes = ns, !.pc = place])
  OBVIOUS
<1>7. task' = [task EXCEPT ![t] = r]
  BY <1>1, <1>6 DEF Commit
<1>8. /\ r \in FileRecs
      /\ place # "idle" =>
           /\ r.pc = place /\ r.nodes = ns
           /\ r.kind = task[t].kind /\ r.row = task[t].row
           /\ r.at = task[t].at /\ r.saw = task[t].saw /\ r.ok = task[t].ok
  <2>1. CASE place = "idle"
    BY <1>6, <2>1, NoTaskFacts
  <2>2. CASE place # "idle"
    <3>1. r = [task[t] EXCEPT !.status = status, !.nodes = ns, !.pc = place]
      BY <1>6, <2>2
    <3>2. task[t] \in FileRecs
      BY <1>1
    <3> QED
      BY <3>1, <3>2 DEF FileRecs
  <2> QED
    BY <2>1, <2>2
<1>9. /\ task' \in [FileTasks -> FileRecs] /\ Others({t}) /\ task'[t] = r
  BY <1>1, <1>7, <1>8 DEF Others
<1> QED
  BY <1>2, <1>3, <1>6, <1>8, <1>9 DEF MovedOn

Marking == {"prepare", "rsync", "verify"}

(* A commit fits if a task that marks a node goes on to work on it, one that *)
(* stops working on it says so, and nothing is said to be present without    *)
(* files.                                                                    *)
Fits(t, ns, place) ==
  /\ task[t].pc \notin {"idle", "asked", "load", "look", "running"}
  /\ place \in Marking \union {"idle", "pick", "sync failed"}
  /\ place # "idle" => task[t].pc \notin {"rm", "probe"}
  /\ place = "prepare" => task[t].at = HeadNode
  /\ place \in Marking => ns[task[t].at].status \in InFlight
  /\ place = "verify" => disk'[task[t].at] # "none"
  /\ \A n \in Hosts :
       ns[n].status \in InFlight /\ ns[n].status # task[t].nodes[n].status
         => n = task[t].at /\ place \in Marking
  /\ task[t].pc \in WorkPlaces =>
       place \in Marking \/ ns[task[t].at].status \notin InFlight
  /\ \A n \in Hosts : ns[n].present /\ ~task[t].nodes[n].present => Filled(n)
  /\ task[t].kind = "delete" =>
       \A n \in Hosts : task[t].saw[n] = "none" => ~ns[n].present

DiskKept == /\ disk' \in [Hosts -> {"none", "partial", "full"}]
            /\ \A n \in Hosts : disk[n] # "none" => disk'[n] # "none"

(* The task of a commit stands where it should.                             *)
LEMMA MovedOK ==
  ASSUME NEW t \in FileTasks, TaskOK(t), task[t] \in FileRecs, NEW ns, NEW place,
         MovedOn(t, ns, place), Fits(t, ns, place), DiskKept, rows \in Nat,
         UNCHANGED <<doubt, rows>>
  PROVE  TaskOK(t)'
<1>1. /\ place = "idle" => task'[t] = NoTask
      /\ place # "idle" =>
           /\ task'[t].pc = place /\ task'[t].nodes = ns
           /\ task'[t].kind = task[t].kind /\ task'[t].row = task[t].row
           /\ task'[t].at = task[t].at /\ task'[t].saw = task[t].saw
           /\ task'[t].ok = task[t].ok
  BY DEF MovedOn
<1>2. /\ task[t].row # 0 /\ task[t].at \in Hosts
      /\ task[t].saw \in [Hosts -> {"unknown", "none", "there"}]
  BY RecFields DEF TaskOK, Placed, Fits
<1>3. CASE place = "idle"
  BY <1>1, <1>3, NoTaskFacts DEF TaskOK, Placed, Delivered, Fresh, WorkPlaces
<1>4. CASE place # "idle"
  <2>1. task[t].kind # "delete" /\ \A n \in Hosts : task[t].saw[n] = "unknown"
    BY <1>2, <1>4 DEF TaskOK, Placed, Fits
  <2>2. Placed(t)'
    BY <1>1, <1>2, <1>4, <2>1
       DEF TaskOK, Placed, Marking, SyncPlaces, WorkPlaces, Fits
  <2>3. Delivered(t)'
    BY <1>1, <1>2, <1>4, <2>1 DEF Delivered, Filled, Marking, Fits
  <2>4. Fresh(t)'
    BY <1>1, <1>4, <2>1 DEF Fresh
  <2> QED
    BY <2>2, <2>3, <2>4 DEF TaskOK
<1> QED
  BY <1>3, <1>4

(* The row is gone: the commit raised nothing, and wrote another model's.   *)
LEMMA CommitElsewhereKeeps ==
  ASSUME FilesIInv, NEW t \in FileTasks, NEW ns, NEW place,
         MovedOn(t, ns, place), task[t].row # model.id,
         UNCHANGED <<model, nodeState, adrift, container, doubt, bounds>>,
         DiskKept, Fits(t, ns, place)
  PROVE  FilesIInv'
<1>1. FilesTypeOK /\ TaskOK(t) /\ ContainerRuns /\ Overlapped
  BY DEF FilesIInv
<1>2. /\ task \in [FileTasks -> FileRecs] /\ rows \in Nat /\ doubt \subseteq Hosts
      /\ adrift \subseteq Hosts /\ container \in FileTasks \union {"none", "orphan"}
  BY <1>1, TypeFacts
<1>3. /\ task' \in [FileTasks -> FileRecs] /\ Others({t})
      /\ task'[t].kind \in {task[t].kind, "none"} /\ task[t].pc # "running"
      /\ Active(t)
  BY NoTaskFacts DEF MovedOn, Fits, Active
<1>4. FilesTypeOK' /\ UNCHANGED rows
  BY <1>1, <1>2, <1>3, QuietTyped DEF DiskKept
<1>5. ContainerRuns'
  BY <1>1, <1>3 DEF ContainerRuns, Others
<1>6. Overlapped'
  <2>1. \A u \in FileTasks : /\ Active(u)' => Active(u)
                             /\ task'[u].kind = "delete" => task[u].kind = "delete"
    BY <1>3 DEF Active, Others
  <2> QED
    BY <1>1, <1>2, <2>1, OverlapKeeps
<1>7. TaskOK(t)'
  BY <1>1, <1>2, <1>4, MovedOK
<1>8. \A n \in Hosts : ~WorksOn(t, n)
  BY DEF WorksOn
<1>9. ASSUME NEW n \in Hosts, Removed(t, n)
      PROVE  n \in doubt \/ ~nodeState[n].present
  <2>1. task[t].kind = "delete" /\ task[t].pc = "rm"
    BY <1>1, <1>9 DEF TaskOK, Placed, Removed, Fits
  <2> QED
    BY <1>1, <2>1 DEF TaskOK, Fresh
<1> DEFINE T == {t}
<1>10. /\ T \in SUBSET FileTasks /\ Others(T)
       /\ \A u \in T : TaskOK(u)'
       /\ \A u \in T, n \in Hosts : ~WorksOn(u, n)
       /\ \A u \in T, n \in Hosts :
            Removed(u, n) => n \in doubt \/ ~nodeState[n].present
  BY <1>3, <1>7, <1>8, <1>9
<1> HIDE DEF T
<1>11. /\ \A u \in FileTasks \ T : Active(u) => \A n \in Hosts :
            disk[n] # "none" => disk'[n] # "none" \/ n \in doubt'
       /\ \A n \in Hosts : disk[n] # "none" /\ disk'[n] = "none" =>
            n \in doubt' \/ \E v \in T : Removed(v, n)'
  BY DEF DiskKept
<1> QED
  BY <1>4, <1>5, <1>6, <1>10, <1>11, QuietKeeps

LEMMA CommitHereKeeps ==
  ASSUME FilesIInv, NEW t \in FileTasks,
         NEW ns \in [Hosts -> NodeRows], NEW place \in TaskPlaces,
         MovedOn(t, ns, place), Written(t, ns), task[t].row = model.id,
         UNCHANGED <<container, doubt, bounds>>, DiskKept, Fits(t, ns, place)
  PROVE  FilesIInv'
<1>1. FilesTypeOK /\ TaskOK(t)
  BY DEF FilesIInv
<1>2. /\ task[t].row = model.id /\ model'.id = model.id
      /\ model' \in [id : 0..MaxRows, status : ModelStatuses]
      /\ nodeState' \in [Hosts -> NodeRows]
      /\ adrift' = {n \in adrift : nodeState'[n].status \in InFlight}
      /\ task' \in [FileTasks -> FileRecs] /\ Others({t})
  BY DEF Written, MovedOn
<1>3. \A n \in Hosts :
        /\ nodeState'[n].status =
             Kept(nodeState[n].status, task[t].nodes[n].status, ns[n].status)
        /\ nodeState'[n].present =
             Kept(nodeState[n].present, task[t].nodes[n].present, ns[n].present)
  BY DEF Written
<1>4. /\ place = "idle" => task'[t] = NoTask
      /\ place # "idle" =>
           /\ task'[t].pc = place /\ task'[t].nodes = ns
           /\ task'[t].kind = task[t].kind /\ task'[t].row = task[t].row
           /\ task'[t].at = task[t].at /\ task'[t].saw = task[t].saw
           /\ task'[t].ok = task[t].ok
  BY DEF MovedOn
<1>5. FilesTypeOK'
  <2>1. adrift' \subseteq Hosts
    BY <1>1, <1>2 DEF FilesTypeOK
  <2> QED
    BY <1>1, <1>2, <2>1 DEF FilesTypeOK, FileRecs, bounds, DiskKept
<1>6. UNCHANGED <<rows, doubt>> /\ rows \in Nat /\ doubt \subseteq Hosts
      /\ task \in [FileTasks -> FileRecs]
  <2>1. /\ doubt \subseteq Hosts /\ task \in [FileTasks -> FileRecs]
        /\ rows \in 0..MaxRows
    BY <1>1, FilesTyped
  <2>2. rows \in Nat
    BY <2>1, FilesBounds
  <2> QED
    BY <2>1, <2>2 DEF bounds
<1>7. task[t].row # 0
  BY <1>1 DEF TaskOK, Placed, Fits
<1>8. /\ task[t] \in FileRecs /\ task[t].at \in Hosts
      /\ task[t].saw \in [Hosts -> {"unknown", "none", "there"}]
  BY <1>6, RecFields
<1>9. TaskOK(t)'
  BY <1>1, <1>6, <1>8, MovedOK
<1>10. ASSUME NEW u \in FileTasks PROVE TaskOK(u)'
  <2>1. CASE u = t
    BY <1>9, <2>1
  <2>2. CASE u # t
    <3>1. task'[u] = task[u] /\ TaskOK(u) /\ task[u] \in FileRecs
      BY <1>2, <1>6, <2>2 DEF Others, FilesIInv
    <3>2. doubt' = Hosts \/ ~(task[u].kind = "delete" /\ task[u].pc = "rm")
      BY <2>2 DEF FilesIInv, Overlapped, Active, Fits
    <3>3. rows <= rows' /\ rows' \in Nat /\ doubt \subseteq doubt' /\ doubt' \subseteq Hosts
      BY <1>6
    <3>4. \A n \in Hosts : disk[n] # "none" => disk'[n] # "none" \/ n \in doubt'
      BY DEF DiskKept
    <3> QED
      BY <1>6, <3>1, <3>2, <3>3, <3>4, OthersOK
  <2> QED
    BY <2>1, <2>2
<1>11. ContainerRuns'
  BY <1>2 DEF FilesIInv, ContainerRuns, Others, Fits
<1>12. RowsKnown'
  BY <1>2, <1>6, <1>7 DEF FilesIInv, RowsKnown
<1>13. Overlapped'
  <2>1. \A u \in FileTasks : /\ Active(u)' => Active(u)
                             /\ task'[u].kind = "delete" => task[u].kind = "delete"
    BY <1>2, <1>4, NoTaskFacts DEF Active, Others, Fits
  <2> QED
    BY <2>1 DEF FilesIInv, Overlapped
<1>14. InFlightHasCause'
  <2> SUFFICES ASSUME NEW n \in Hosts, nodeState'[n].status \in InFlight
               PROVE  n \in adrift' \/ \E u \in FileTasks : WorksOn(u, n)'
    BY DEF InFlightHasCause
  <2>1. CASE n = task[t].at /\ place \in Marking
    BY <1>2, <1>4, <2>1 DEF WorksOn, Marking
  <2>2. CASE ~(n = task[t].at /\ place \in Marking)
    <3>1. ns[n].status \in InFlight => ns[n].status = task[t].nodes[n].status
      BY <2>2 DEF Fits
    <3>2. nodeState'[n].status = nodeState[n].status
      BY <1>3, <3>1 DEF Kept
    <3>3. n \in adrift \/ \E u \in FileTasks : WorksOn(u, n)
      BY <3>2 DEF FilesIInv, InFlightHasCause
    <3>4. ASSUME NEW u \in FileTasks, u # t, WorksOn(u, n) PROVE WorksOn(u, n)'
      BY <1>2, <3>4 DEF WorksOn, Others
    <3>5. ~WorksOn(t, n)
      <4> SUFFICES ASSUME WorksOn(t, n) PROVE FALSE
        OBVIOUS
      <4>1. task[t].pc \in WorkPlaces /\ n = task[t].at
        BY DEF WorksOn, WorkPlaces
      <4>2. ns[n].status \notin InFlight /\ task[t].nodes[n].status \in InFlight
        BY <1>1, <2>2, <4>1 DEF TaskOK, Placed, Fits
      <4> QED
        BY <1>3, <4>2 DEF Kept
    <3> QED
      BY <1>2, <3>3, <3>4, <3>5
  <2> QED
    BY <2>1, <2>2
<1>15. PresentIsThere'
  <2> SUFFICES ASSUME NEW n \in Hosts, nodeState'[n].present, disk'[n] = "none",
                      n \notin doubt
               PROVE  \E u \in FileTasks : Removed(u, n)'
    BY DEF PresentIsThere
  <2>1. disk[n] = "none" /\ ~Filled(n)
    BY DEF Filled, DiskKept
  <2>2. nodeState[n].present
    <3>1. /\ ns[n].present \in BOOLEAN /\ task[t].nodes[n].present \in BOOLEAN
      BY <1>8, RecFields, NodeRowFields
    <3> QED
      BY <1>3, <2>1, <3>1 DEF Kept, Fits
  <2>3. PICK u \in FileTasks : Removed(u, n)
    BY <2>1, <2>2 DEF FilesIInv, PresentIsThere
  <2>4. CASE u # t
    BY <1>2, <2>3, <2>4 DEF Removed, Others
  <2>5. CASE u = t
    <3>1. task[t].kind = "delete" /\ task[t].saw[n] = "none" /\ task[t].pc = "rm"
      BY <1>1, <2>3, <2>5 DEF Removed, TaskOK, Placed
    <3>2. task[t].nodes[n].present = nodeState[n].present
      BY <1>1, <2>2, <3>1 DEF TaskOK, Fresh
    <3> QED
      BY <1>3, <2>2, <3>1, <3>2 DEF Kept, Fits
  <2> QED
    BY <2>4, <2>5
<1> QED
  BY <1>5, <1>10, <1>11, <1>12, <1>13, <1>14, <1>15 DEF FilesIInv

LEMMA CommitKeeps ==
  ASSUME FilesIInv, NEW t \in FileTasks, NEW status \in ModelStatuses,
         NEW ns \in [Hosts -> NodeRows], NEW place \in TaskPlaces,
         Commit(t, status, ns, place), UNCHANGED <<container, doubt, bounds>>,
         DiskKept, Fits(t, ns, place)
  PROVE  FilesIInv'
<1>1. FilesTypeOK
  BY DEF FilesIInv
<1>2. /\ MovedOn(t, ns, place)
      /\ task[t].row = model.id => Written(t, ns)
      /\ task[t].row # model.id => UNCHANGED <<model, nodeState, adrift>>
  BY <1>1, CommitFacts
<1>3. CASE task[t].row = model.id
  BY <1>2, <1>3, CommitHereKeeps
<1>4. CASE task[t].row # model.id
  BY <1>2, <1>4, CommitElsewhereKeeps
<1> QED
  BY <1>3, <1>4

-----------------------------------------------------------------------------
(* A step of one task that writes no row and touches no disk.               *)
Solo(t) ==
  /\ Others({t}) /\ task' \in [FileTasks -> FileRecs]
  /\ UNCHANGED <<model, nodeState, disk, doubt, bounds>>
  /\ adrift \subseteq adrift' /\ adrift' \subseteq Hosts
  /\ container' \in FileTasks \union {"none", "orphan"}
  /\ ContainerRuns' /\ Active(t)
  /\ task'[t].kind \in {task[t].kind, "none"}
  /\ \A n \in Hosts : WorksOn(t, n) =>
       WorksOn(t, n)' \/ n \in adrift' \/ nodeState[n].status \notin InFlight
  /\ \A n \in Hosts : Removed(t, n) =>
       Removed(t, n)' \/ n \in doubt \/ ~nodeState[n].present

LEMMA SoloKeeps ==
  ASSUME FilesIInv, NEW t \in FileTasks, Solo(t), TaskOK(t)'
  PROVE  FilesIInv'
<1> DEFINE T == {t}
<1>1. FilesTypeOK /\ T \in SUBSET FileTasks
  BY DEF FilesIInv
<1>2. /\ disk \in [Hosts -> {"none", "partial", "full"}] /\ doubt \subseteq Hosts
  BY <1>1, TypeFacts
<1>3. /\ Others(T) /\ task' \in [FileTasks -> FileRecs]
      /\ UNCHANGED <<model, nodeState, disk, doubt, bounds>>
      /\ adrift \subseteq adrift' /\ adrift' \subseteq Hosts
      /\ container' \in FileTasks \union {"none", "orphan"}
      /\ ContainerRuns'
  BY DEF Solo
<1>4. FilesTypeOK' /\ UNCHANGED rows
  BY <1>1, <1>2, <1>3, QuietTyped
<1>5. Overlapped'
  <2>1. \A u \in FileTasks :
          /\ Active(u)' => Active(u)
          /\ task'[u].kind = "delete" => task[u].kind = "delete"
    BY DEF Solo, Others, Active
  <2> QED
    BY <1>2, <1>3, <2>1, OverlapKeeps DEF FilesIInv
<1>6. /\ \A u \in FileTasks \ T : Active(u) => \A n \in Hosts :
           disk[n] # "none" => disk'[n] # "none" \/ n \in doubt'
      /\ \A n \in Hosts : disk[n] # "none" /\ disk'[n] = "none" =>
           n \in doubt' \/ \E v \in T : Removed(v, n)'
  BY <1>3
<1>7. /\ \A v \in T : TaskOK(v)'
      /\ \A v \in T, n \in Hosts : WorksOn(v, n) =>
           \/ WorksOn(v, n)' \/ n \in adrift' \/ nodeState[n].status \notin InFlight
      /\ \A v \in T, n \in Hosts : Removed(v, n) =>
           Removed(v, n)' \/ n \in doubt' \/ ~nodeState[n].present
  BY <1>3 DEF Solo
<1> HIDE DEF T
<1>8. UNCHANGED <<model, nodeState, rows>> /\ doubt \subseteq doubt'
  BY <1>3, <1>4
<1> QED
  BY <1>1, <1>3, <1>4, <1>5, <1>6, <1>7, <1>8, QuietKeeps

(* A task that ends where it works on nothing, or leaves the node adrift.   *)
LEMMA IdleOK ==
  ASSUME NEW t \in FileTasks, task'[t] = NoTask, rows' \in Nat
  PROVE  TaskOK(t)' /\ \A n \in Hosts : ~Removed(t, n)'
BY NoTaskFacts DEF TaskOK, Placed, Delivered, Fresh, WorkPlaces, Removed

LEMMA FileEndKeeps ==
  ASSUME FilesIInv, NEW t \in FileTasks, EndOf(t), Active(t),
         UNCHANGED <<model, nodeState, disk, doubt, bounds>>,
         \A n \in Hosts : Removed(t, n) => n \in doubt \/ ~nodeState[n].present
  PROVE  FilesIInv'
<1>1. FilesTypeOK
  BY DEF FilesIInv
<1>2. /\ task' \in [FileTasks -> FileRecs] /\ Others({t}) /\ task'[t] = NoTask
      /\ adrift \subseteq adrift' /\ adrift' \subseteq Hosts
      /\ \A n \in Hosts : WorksOn(t, n) /\ nodeState[n].status \in InFlight
                            => n \in adrift'
      /\ container' = IF container = t THEN "orphan" ELSE container
      /\ container' \in FileTasks \union {"none", "orphan"}
  BY <1>1, EndFacts
<1>3. ContainerRuns'
  BY <1>2, FilesAssumption DEF FilesIInv, ContainerRuns, Others
<1>4. Solo(t)
  BY <1>2, <1>3, NoTaskFacts DEF Solo
<1>5. rows' \in Nat
  BY <1>1, TypeFacts DEF bounds
<1> QED
  BY <1>2, <1>4, <1>5, IdleOK, SoloKeeps

-----------------------------------------------------------------------------
LEMMA StartJobKeeps ==
  ASSUME FilesIInv, NEW t \in FileTasks, StartJob(t)
  PROVE  FilesIInv'
<1>1. FilesTypeOK /\ TaskOK(t) /\ "load" \in TaskPlaces
  BY DEF FilesIInv, TaskPlaces
<1>2. /\ task' \in [FileTasks -> FileRecs] /\ Others({t})
      /\ task'[t].pc = "load" /\ Alike(task'[t], task[t])
  BY <1>1, StepFacts DEF StartJob
<1>3. /\ UNCHANGED <<model, nodeState, disk, container, adrift, doubt, bounds>>
      /\ task[t].pc = "asked"
  BY DEF StartJob
<1>4. ContainerRuns'
  BY <1>2, <1>3 DEF FilesIInv, ContainerRuns, Others
<1>5. Solo(t)
  BY <1>1, <1>2, <1>3, <1>4, TypeFacts
     DEF Solo, Alike, Active, WorksOn, Removed
<1>6. TaskOK(t)'
  BY <1>1, <1>2, <1>3 DEF TaskOK, Placed, Delivered, Fresh, Alike, Filled, SyncPlaces,
                          WorkPlaces, bounds
<1> QED
  BY <1>5, <1>6, SoloKeeps

LEMMA CommitRaisesKeeps ==
  ASSUME FilesIInv, NEW t \in FileTasks, CommitRaises(t)
  PROVE  FilesIInv'
<1>1. /\ EndOf(t) /\ UNCHANGED <<model, nodeState, disk, doubt, bounds>>
      /\ Active(t) /\ (task[t].row # model.id \/ task[t].stale)
  BY DEF CommitRaises, Active
<1>2. ASSUME NEW n \in Hosts, Removed(t, n)
      PROVE  n \in doubt \/ ~nodeState[n].present
  <2>1. task[t].kind = "delete" /\ task[t].pc = "rm"
    BY <1>2 DEF FilesIInv, TaskOK, Placed, Removed
  <2> QED
    BY <1>1, <2>1 DEF FilesIInv, TaskOK, Fresh
<1> QED
  BY <1>1, <1>2, FileEndKeeps

LEMMA ConnectionLostKeeps ==
  ASSUME FilesIInv, NEW t \in FileTasks, ConnectionLost(t)
  PROVE  FilesIInv'
<1>1. /\ EndOf(t) /\ UNCHANGED <<model, nodeState, disk, doubt, bounds>>
      /\ Active(t) /\ task[t].pc = "running"
  BY DEF ConnectionLost, Active
<1>2. ASSUME NEW n \in Hosts PROVE ~Removed(t, n)
  BY <1>1 DEF FilesIInv, TaskOK, Placed, Removed
<1> QED
  BY <1>1, <1>2, FileEndKeeps

LEMMA LoadModelKeeps ==
  ASSUME FilesIInv, NEW t \in FileTasks, LoadModel(t)
  PROVE  FilesIInv'
<1>1. FilesTypeOK /\ TaskOK(t) /\ task[t].pc = "load" /\ Active(t)
  BY DEF FilesIInv, LoadModel, Active
<1>2. /\ task \in [FileTasks -> FileRecs] /\ rows \in Nat
      /\ nodeState \in [Hosts -> NodeRows] /\ doubt \subseteq Hosts
      /\ adrift \subseteq Hosts /\ container \in FileTasks \union {"none", "orphan"}
      /\ model \in [id : 0..MaxRows, status : ModelStatuses]
  BY <1>1, TypeFacts
<1>3. /\ UNCHANGED <<model, nodeState, disk, doubt, bounds>>
  BY DEF LoadModel
<1>4. \A n \in Hosts : ~Removed(t, n)
  BY <1>1 DEF TaskOK, Placed, Removed
<1>5. CASE task[t].row # model.id \/ model.id = 0
  BY <1>1, <1>3, <1>4, <1>5, FileEndKeeps DEF LoadModel
<1>6. CASE ~(task[t].row # model.id \/ model.id = 0)
  <2>1. PICK p \in {CASE task[t].kind = "download" -> "mark"
                      [] task[t].kind = "sync" -> "pick"
                      [] task[t].kind = "delete" -> "rm"
                      [] task[t].kind = "cancel" -> "reap"
                      [] OTHER -> "probe"} :
          task' = [task EXCEPT ![t].status = model.status, ![t].nodes = nodeState,
                               ![t].stale = FALSE, ![t].pc = p]
    BY <1>6 DEF LoadModel
  <2>2. /\ p \in {"mark", "pick", "rm", "reap", "probe"}
        /\ task[t].kind = "delete" => p = "rm"
    BY <2>1
  <2>3. PICK r \in {[task[t] EXCEPT !.status = model.status, !.nodes = nodeState,
                                    !.stale = FALSE, !.pc = p]} :
          task' = [task EXCEPT ![t] = r]
    BY <1>2, <2>1
  <2>4. /\ r \in FileRecs /\ r.pc = p /\ r.nodes = nodeState
        /\ r.kind = task[t].kind /\ r.row = task[t].row /\ r.at = task[t].at
        /\ r.saw = task[t].saw /\ r.ok = task[t].ok /\ ~r.stale
    <3>1. p \in TaskPlaces /\ model.status \in ModelStatuses /\ task[t] \in FileRecs
      BY <1>2, <2>2 DEF TaskPlaces
    <3> QED
      BY <1>2, <2>3, <3>1 DEF FileRecs
  <2>5. /\ task' \in [FileTasks -> FileRecs] /\ Others({t}) /\ task'[t] = r
    BY <1>2, <2>3, <2>4 DEF Others
  <2>6. UNCHANGED <<adrift, container>>
    BY <1>6 DEF LoadModel
  <2>7. ContainerRuns'
    BY <1>1, <2>5, <2>6 DEF FilesIInv, ContainerRuns, Others
  <2>8. Solo(t)
    BY <1>1, <1>2, <1>3, <1>4, <2>4, <2>5, <2>6, <2>7 DEF Solo, WorksOn
  <2>9. TaskOK(t)'
    BY <1>1, <1>3, <1>6, <2>2, <2>4, <2>5
       DEF TaskOK, Placed, Delivered, Fresh, Filled, SyncPlaces, WorkPlaces, bounds
  <2> QED
    BY <2>8, <2>9, SoloKeeps
<1> QED
  BY <1>5, <1>6

-----------------------------------------------------------------------------
LEMMA AwayFromWork ==
  ASSUME NEW t \in FileTasks, TaskOK(t)
  PROVE  /\ task[t].pc \notin WorkPlaces => \A n \in Hosts : ~WorksOn(t, n)
         /\ task[t].pc # "rm" => \A n \in Hosts : ~Removed(t, n)
<1>1. task[t].pc \notin WorkPlaces => \A n \in Hosts : ~WorksOn(t, n)
  BY DEF WorksOn, WorkPlaces
<1>2. ASSUME task[t].pc # "rm", NEW n \in Hosts PROVE ~Removed(t, n)
  BY <1>2 DEF TaskOK, Placed, Removed
<1> QED
  BY <1>1, <1>2

(* A solo step that leaves the task in or out of work as it was.            *)
LEMMA SoloMove ==
  ASSUME FilesIInv, NEW t \in FileTasks, Others({t}), Active(t),
         task' \in [FileTasks -> FileRecs],
         UNCHANGED <<model, nodeState, disk, doubt, bounds>>,
         adrift \subseteq adrift', adrift' \subseteq Hosts,
         container' \in {container, "none"},
         container' # container \/ task[t].pc # "running" \/ task'[t].pc = "running",
         task'[t].kind \in {task[t].kind, "none"}, task[t].pc # "rm",
         \A n \in Hosts : WorksOn(t, n) =>
           WorksOn(t, n)' \/ n \in adrift' \/ nodeState[n].status \notin InFlight,
         TaskOK(t)'
  PROVE  FilesIInv'
<1>1. FilesTypeOK /\ TaskOK(t) /\ ContainerRuns
  BY DEF FilesIInv
<1>2. container' \in FileTasks \union {"none", "orphan"}
  BY <1>1, TypeFacts
<1>3. ContainerRuns'
  BY <1>1, FilesAssumption DEF ContainerRuns, Others
<1>4. Solo(t)
  BY <1>1, <1>2, <1>3, AwayFromWork DEF Solo
<1> QED
  BY <1>4, SoloKeeps

LEMMA SyncNextKeeps ==
  ASSUME FilesIInv, NEW t \in FileTasks, SyncNext(t)
  PROVE  FilesIInv'
<1>1. FilesTypeOK /\ TaskOK(t) /\ task[t].pc = "pick" /\ Active(t)
  BY DEF FilesIInv, SyncNext, Active
<1>2. task \in [FileTasks -> FileRecs] /\ adrift \subseteq Hosts /\ rows \in Nat
  BY <1>1, TypeFacts
<1>3. UNCHANGED <<model, nodeState, disk, container, adrift, doubt, bounds>>
  BY DEF SyncNext
<1>4. rows' \in Nat /\ \A n \in Hosts : ~WorksOn(t, n)
  BY <1>1, <1>2, <1>3, AwayFromWork DEF WorkPlaces, bounds
<1>5. CASE task' = [task EXCEPT ![t] = NoTask]
  <2>1. task' \in [FileTasks -> FileRecs] /\ Others({t}) /\ task'[t] = NoTask
    BY <1>2, <1>5, NoTaskFacts DEF Others
  <2>2. TaskOK(t)' /\ task'[t].kind = "none"
    BY <1>4, <2>1, IdleOK, NoTaskFacts
  <2> QED
    BY <1>1, <1>2, <1>3, <1>4, <2>1, <2>2, SoloMove
<1>6. CASE \E n \in task[t].left \ {HeadNode} :
             task' = [task EXCEPT ![t].pc = "mark sync", ![t].at = n,
                                  ![t].left = @ \ {n}]
  <2>1. PICK n \in task[t].left \ {HeadNode} :
          task' = [task EXCEPT ![t].pc = "mark sync", ![t].at = n,
                               ![t].left = @ \ {n}]
    BY <1>6
  <2>2. PICK r \in {[task[t] EXCEPT !.pc = "mark sync", !.at = n,
                                    !.left = task[t].left \ {n}]} :
          task' = [task EXCEPT ![t] = r]
    BY <1>2, <2>1
  <2>3. /\ r \in FileRecs /\ r.pc = "mark sync" /\ r.kind = task[t].kind
        /\ r.row = task[t].row /\ r.saw = task[t].saw
    <3>1. task[t] \in FileRecs /\ n \in Hosts /\ "mark sync" \in TaskPlaces
      BY <1>2, RecFields DEF TaskPlaces
    <3>2. task[t].left \ {n} \in SUBSET Hosts
      BY <3>1, RecFields
    <3> QED
      BY <2>2, <3>1, <3>2 DEF FileRecs
  <2>4. /\ task' \in [FileTasks -> FileRecs] /\ Others({t}) /\ task'[t] = r
    BY <1>2, <2>2, <2>3 DEF Others
  <2>5. TaskOK(t)'
    BY <1>1, <1>3, <2>3, <2>4
       DEF TaskOK, Placed, Delivered, Fresh, SyncPlaces, WorkPlaces, bounds
  <2>6. task'[t].kind = task[t].kind
    BY <2>3, <2>4
  <2> QED
    BY <1>1, <1>2, <1>3, <1>4, <2>4, <2>5, <2>6, SoloMove
<1> QED
  BY <1>5, <1>6 DEF SyncNext

LEMMA SyncRaisesKeeps ==
  ASSUME FilesIInv, NEW t \in FileTasks, SyncRaises(t)
  PROVE  FilesIInv'
<1>1. /\ FilesTypeOK /\ TaskOK(t) /\ task[t].pc \in {"rsync", "verify"} /\ Active(t)
      /\ "sync failed" \in TaskPlaces
  BY DEF FilesIInv, SyncRaises, Active, TaskPlaces
<1>2. adrift \subseteq Hosts /\ rows \in Nat
  BY <1>1, TypeFacts
<1>3. /\ UNCHANGED <<model, nodeState, disk, container, doubt, bounds>>
      /\ adrift' = adrift \union
           {n \in Hosts : WorksOn(t, n) /\ nodeState[n].status \in InFlight}
      /\ Step(t, "sync failed")
  BY DEF SyncRaises
<1>4. /\ task' \in [FileTasks -> FileRecs] /\ Others({t})
      /\ task'[t].pc = "sync failed" /\ Alike(task'[t], task[t])
  BY <1>1, <1>3, StepFacts
<1>5. /\ adrift \subseteq adrift' /\ adrift' \subseteq Hosts
      /\ \A n \in Hosts : WorksOn(t, n) =>
           WorksOn(t, n)' \/ n \in adrift' \/ nodeState[n].status \notin InFlight
  BY <1>2, <1>3
<1>6. TaskOK(t)'
  BY <1>1, <1>3, <1>4
     DEF TaskOK, Placed, Delivered, Fresh, Alike, SyncPlaces, WorkPlaces, bounds
<1>7. task'[t].kind = task[t].kind
  BY <1>4 DEF Alike
<1> QED
  BY <1>1, <1>3, <1>4, <1>5, <1>6, <1>7, SoloMove

LEMMA StallsKeeps ==
  ASSUME FilesIInv, NEW t \in FileTasks, Stalls(t)
  PROVE  FilesIInv'
<1>1. FilesTypeOK /\ TaskOK(t) /\ task[t].pc = "running" /\ Active(t)
  BY DEF FilesIInv, Stalls, Active
<1>2. task \in [FileTasks -> FileRecs] /\ adrift \subseteq Hosts
  BY <1>1, TypeFacts
<1>3. UNCHANGED <<model, nodeState, disk, adrift, doubt, bounds>>
  BY DEF Stalls
<1>4. PICK p \in {"running", "over"} :
        /\ task' = [task EXCEPT ![t].pc = p, ![t].ok = FALSE]
        /\ p = "running" => container' = container
        /\ p = "over" => container' = "none"
  <2>1. CASE task' = Reaped(t) /\ container' = "none"
    BY <1>1, <2>1 DEF Reaped
  <2>2. CASE task' = [task EXCEPT ![t].ok = FALSE] /\ UNCHANGED container
    <3>1. task' = [task EXCEPT ![t].pc = "running", ![t].ok = FALSE]
      <4>1. [task[t] EXCEPT !.ok = FALSE] = [task[t] EXCEPT !.pc = "running", !.ok = FALSE]
        <5>1. task[t] \in FileRecs
          BY <1>2
        <5> QED
          BY <1>1, <5>1 DEF FileRecs
      <4> QED
        BY <1>2, <2>2, <4>1
    <3> QED
      BY <2>2, <3>1
  <2> QED
    BY <2>1, <2>2 DEF Stalls
<1>5. PICK r \in {[task[t] EXCEPT !.pc = p, !.ok = FALSE]} :
        task' = [task EXCEPT ![t] = r]
  BY <1>2, <1>4
<1>6. /\ r \in FileRecs /\ r.pc = p /\ r.kind = task[t].kind /\ r.ok = FALSE
      /\ r.row = task[t].row /\ r.saw = task[t].saw /\ r.at = task[t].at
      /\ r.nodes = task[t].nodes
  <2>1. task[t] \in FileRecs /\ p \in TaskPlaces
    BY <1>2, <1>4 DEF TaskPlaces
  <2> QED
    BY <1>5, <2>1 DEF FileRecs
<1>7. /\ task' \in [FileTasks -> FileRecs] /\ Others({t}) /\ task'[t] = r
  BY <1>2, <1>5, <1>6 DEF Others
<1>8. TaskOK(t)'
  BY <1>1, <1>3, <1>4, <1>6, <1>7
     DEF TaskOK, Placed, Delivered, Fresh, Filled, SyncPlaces, WorkPlaces, bounds
<1>9. /\ \A n \in Hosts : WorksOn(t, n) => WorksOn(t, n)'
      /\ task'[t].kind = task[t].kind
  BY <1>3, <1>4, <1>6, <1>7 DEF WorksOn
<1>10. /\ container' \in {container, "none"}
       /\ container' # container \/ task'[t].pc = "running" \/ container' = "none"
  BY <1>4, <1>6, <1>7
<1>11. CASE container' # container \/ task'[t].pc = "running"
  BY <1>1, <1>2, <1>3, <1>7, <1>8, <1>9, <1>10, <1>11, SoloMove
<1>12. CASE container' = "none" /\ container = "none"
  <2>1. ContainerRuns'
    BY <1>12, FilesAssumption DEF ContainerRuns
  <2>2. Solo(t)
    BY <1>1, <1>2, <1>3, <1>7, <1>9, <1>12, <2>1, AwayFromWork DEF Solo
  <2> QED
    BY <1>8, <2>2, SoloKeeps
<1> QED
  BY <1>10, <1>11, <1>12

LEMMA ProbeKeeps ==
  ASSUME FilesIInv, NEW t \in FileTasks, Probe(t)
  PROVE  FilesIInv'
<1>1. FilesTypeOK /\ TaskOK(t) /\ task[t].pc = "probe" /\ Active(t)
  BY DEF FilesIInv, Probe, Active
<1>2. task \in [FileTasks -> FileRecs] /\ adrift \subseteq Hosts
  BY <1>1, TypeFacts
<1>3. UNCHANGED <<model, nodeState, disk, container, adrift, doubt, bounds>>
  BY DEF Probe
<1>4. PICK n \in task[t].left, reached \in BOOLEAN :
        task' = [task EXCEPT ![t].left = @ \ {n},
          ![t].saw[n] = IF ~reached THEN "unknown"
                        ELSE IF disk[n] = "none" THEN "none" ELSE "there"]
  BY DEF Probe
<1>5. PICK v \in {"unknown", "none", "there"} :
        /\ task' = [task EXCEPT ![t].left = @ \ {n}, ![t].saw[n] = v]
        /\ v = "there" => disk[n] # "none"
  BY <1>4
<1>6. PICK r \in {[task[t] EXCEPT !.left = task[t].left \ {n},
                                  !.saw = [task[t].saw EXCEPT ![n] = v]]} :
        task' = [task EXCEPT ![t] = r]
  BY <1>2, <1>5
<1>7. /\ r \in FileRecs /\ r.pc = "probe" /\ r.kind = task[t].kind
      /\ r.row = task[t].row /\ r.at = task[t].at /\ r.ok = task[t].ok
      /\ \A m \in Hosts : r.saw[m] = IF m = n THEN v ELSE task[t].saw[m]
  <2>1. task[t] \in FileRecs /\ n \in Hosts
    BY <1>2, RecFields
  <2>2. /\ task[t].left \ {n} \in SUBSET Hosts
        /\ [task[t].saw EXCEPT ![n] = v] \in [Hosts -> {"unknown", "none", "there"}]
        /\ \A m \in Hosts : [task[t].saw EXCEPT ![n] = v][m] =
             IF m = n THEN v ELSE task[t].saw[m]
    BY <2>1, RecFields
  <2>3. PICK L \in {task[t].left \ {n}} : r = [task[t] EXCEPT !.left = L,
                                  !.saw = [task[t].saw EXCEPT ![n] = v]]
    BY <1>6
  <2>4. PICK S \in {[task[t].saw EXCEPT ![n] = v]} : r = [task[t] EXCEPT !.left = L,
                                  !.saw = S]
    BY <2>3
  <2>5. L \in SUBSET Hosts /\ S \in [Hosts -> {"unknown", "none", "there"}]
    BY <2>2, <2>3, <2>4
  <2>6. /\ r \in FileRecs /\ r.pc = task[t].pc /\ r.kind = task[t].kind
        /\ r.row = task[t].row /\ r.at = task[t].at /\ r.ok = task[t].ok /\ r.saw = S
    BY <2>1, <2>4, <2>5 DEF FileRecs
  <2> QED
    BY <1>1, <2>2, <2>4, <2>6
<1>8. /\ task' \in [FileTasks -> FileRecs] /\ Others({t}) /\ task'[t] = r
  BY <1>2, <1>6, <1>7 DEF Others
<1>9. task[t].kind # "delete"
  BY <1>1 DEF TaskOK, Placed
<1>10. TaskOK(t)'
  <2>1. Placed(t)'
    BY <1>1, <1>3, <1>7, <1>8, <1>9 DEF TaskOK, Placed, SyncPlaces, WorkPlaces, bounds
  <2>2. Delivered(t)'
    BY <1>1, <1>3, <1>5, <1>7, <1>8 DEF TaskOK, Delivered, Filled
  <2>3. Fresh(t)'
    BY <1>7, <1>8, <1>9 DEF Fresh
  <2> QED
    BY <2>1, <2>2, <2>3 DEF TaskOK
<1>11. /\ \A m \in Hosts : ~WorksOn(t, m)
       /\ task'[t].kind = task[t].kind
  BY <1>1, <1>7, <1>8, AwayFromWork DEF WorkPlaces
<1> QED
  BY <1>1, <1>2, <1>3, <1>8, <1>10, <1>11, SoloMove

-----------------------------------------------------------------------------
(* The copies a commit writes: the loaded ones with one node changed.       *)
OnlyMarked(t, n, s, ns) ==
  /\ ns \in [Hosts -> NodeRows] /\ ns[n].status = s
  /\ \A m \in Hosts : /\ ns[m].present = task[t].nodes[m].present
                      /\ m # n => ns[m] = task[t].nodes[m]

LEMMA MarkedFacts ==
  ASSUME FilesTypeOK, NEW t \in FileTasks, NEW n \in Hosts, NEW s \in ModelStatuses
  PROVE  OnlyMarked(t, n, s, Marked(t, n, s))
<1>1. task[t].nodes \in [Hosts -> NodeRows]
  BY TypeFacts, RecFields
<1>2. PICK f \in [Hosts -> NodeRows] : f = task[t].nodes
  BY <1>1
<1>3. f[n] \in NodeRows
  BY <1>2
<1>4. /\ [f[n] EXCEPT !.status = s] \in NodeRows
      /\ [f[n] EXCEPT !.status = s].status = s
      /\ [f[n] EXCEPT !.status = s].present = f[n].present
  BY <1>3 DEF NodeRows
<1>5. PICK e \in NodeRows : e = [f[n] EXCEPT !.status = s]
  BY <1>4
<1>6. Marked(t, n, s) = [f EXCEPT ![n] = e]
  BY <1>2, <1>5 DEF Marked
<1>7. e.status = s /\ e.present = f[n].present
  BY <1>4, <1>5
<1>8. /\ [f EXCEPT ![n] = e] \in [Hosts -> NodeRows]
      /\ [f EXCEPT ![n] = e][n] = e
      /\ \A m \in Hosts : m # n => [f EXCEPT ![n] = e][m] = f[m]
  OBVIOUS
<1> QED
  BY <1>2, <1>6, <1>7, <1>8 DEF OnlyMarked

LEMMA ArrivedFacts ==
  ASSUME FilesTypeOK, NEW t \in FileTasks, NEW n \in Hosts
  PROVE  /\ At1(t, n, "present", TRUE) \in [Hosts -> NodeRows]
         /\ At1(t, n, "present", TRUE)[n].status = "present"
         /\ \A m \in Hosts : m # n =>
              At1(t, n, "present", TRUE)[m] = task[t].nodes[m]
<1>1. task[t].nodes \in [Hosts -> NodeRows]
  BY TypeFacts, RecFields
<1>2. PICK f \in [Hosts -> NodeRows] : f = task[t].nodes
  BY <1>1
<1>3. [status |-> "present", present |-> TRUE] \in NodeRows
  BY DEF NodeRows, ModelStatuses
<1>4. PICK g \in NodeRows : g = [status |-> "present", present |-> TRUE]
  BY <1>3
<1>5. At1(t, n, "present", TRUE) = [f EXCEPT ![n] = g]
  BY <1>2, <1>4 DEF At1
<1>6. g.status = "present"
  BY <1>4
<1>7. /\ [f EXCEPT ![n] = g] \in [Hosts -> NodeRows]
      /\ [f EXCEPT ![n] = g][n] = g
      /\ \A m \in Hosts : m # n => [f EXCEPT ![n] = g][m] = f[m]
  OBVIOUS
<1> QED
  BY <1>2, <1>5, <1>6, <1>7

LEMMA SameDisk ==
  ASSUME FilesTypeOK, UNCHANGED disk
  PROVE  DiskKept
BY TypeFacts DEF DiskKept

LEMMA StatusFacts ==
  /\ {"absent", "present", "error", "downloading", "syncing", "verifying"}
       \subseteq ModelStatuses
  /\ {"idle", "prepare", "pick", "rsync", "verify", "sync failed"} \subseteq TaskPlaces
  /\ \A s \in {"absent", "present", "error"} : s \notin InFlight
  /\ \A s \in {"downloading", "syncing", "verifying"} : s \in InFlight
BY DEF ModelStatuses, TaskPlaces, InFlight

(* Who has marked, marks or gives up a node, and says nothing of presence.  *)
LEMMA MarkKeeps ==
  ASSUME FilesIInv, NEW t \in FileTasks, NEW status \in ModelStatuses,
         NEW s \in ModelStatuses, NEW place \in TaskPlaces,
         Commit(t, status, Marked(t, task[t].at, s), place),
         UNCHANGED <<container, doubt, bounds>>, DiskKept,
         task[t].pc \notin {"idle", "asked", "load", "look", "running", "rm", "probe"},
         place \in Marking \union {"idle", "sync failed"},
         place \in Marking <=> s \in InFlight,
         place = "prepare" => task[t].at = HeadNode,
         place = "verify" => disk'[task[t].at] # "none"
  PROVE  FilesIInv'
<1>1. FilesTypeOK /\ task[t].at \in Hosts /\ TaskOK(t)
  BY TypeFacts, RecFields DEF FilesIInv
<1>2. PICK ns \in {Marked(t, task[t].at, s)} : ns = Marked(t, task[t].at, s)
  OBVIOUS
<1>6. OnlyMarked(t, task[t].at, s, ns)
  BY <1>1, <1>2, MarkedFacts
<1>3. /\ ns \in [Hosts -> NodeRows] /\ ns[task[t].at].status = s
      /\ \A m \in Hosts : ns[m].present = task[t].nodes[m].present
      /\ \A m \in Hosts : m # task[t].at => ns[m] = task[t].nodes[m]
  BY <1>6 DEF OnlyMarked
<1>4. task[t].kind # "delete"
  BY <1>1 DEF TaskOK, Placed
<1>5. Fits(t, ns, place)
  BY <1>1, <1>3, <1>4 DEF Fits
<1> QED
  BY <1>2, <1>3, <1>5, CommitKeeps

LEMMA MarkDownloadingKeeps ==
  ASSUME FilesIInv, NEW t \in FileTasks, MarkDownloading(t)
  PROVE  FilesIInv'
<1>1. FilesTypeOK /\ TaskOK(t) /\ task[t].pc = "mark"
  BY DEF FilesIInv, MarkDownloading
<1>2. UNCHANGED <<disk, container, doubt, bounds>>
  BY DEF MarkDownloading
<1>3. task[t].at = HeadNode
  BY <1>1 DEF TaskOK, Placed, SyncPlaces
<1>4. Commit(t, "downloading", Marked(t, task[t].at, "downloading"), "prepare")
  BY <1>3 DEF MarkDownloading
<1>5. /\ "downloading" \in ModelStatuses /\ "prepare" \in TaskPlaces
      /\ "downloading" \in InFlight /\ "prepare" \in Marking
  BY StatusFacts DEF Marking
<1>6. DiskKept
  BY <1>1, <1>2, SameDisk
<1> QED
  BY <1>1, <1>2, <1>3, <1>4, <1>5, <1>6, MarkKeeps

LEMMA MarkSyncingKeeps ==
  ASSUME FilesIInv, NEW t \in FileTasks, MarkSyncing(t)
  PROVE  FilesIInv'
<1>1. FilesTypeOK /\ TaskOK(t) /\ task[t].pc = "mark sync"
  BY DEF FilesIInv, MarkSyncing
<1>2. UNCHANGED <<disk, container, doubt, bounds>>
  BY DEF MarkSyncing
<1>3. Commit(t, task[t].status, Marked(t, task[t].at, "syncing"), "rsync")
  BY DEF MarkSyncing
<1>4. /\ "syncing" \in ModelStatuses /\ "rsync" \in TaskPlaces
      /\ "syncing" \in InFlight /\ "rsync" \in Marking
      /\ task[t].status \in ModelStatuses
  BY <1>1, StatusFacts, TypeFacts, RecFields DEF Marking
<1>5. DiskKept
  BY <1>1, <1>2, SameDisk
<1> QED
  BY <1>1, <1>2, <1>3, <1>4, <1>5, MarkKeeps

LEMMA RsyncKeeps ==
  ASSUME FilesIInv, NEW t \in FileTasks, Rsync(t)
  PROVE  FilesIInv'
<1>1. FilesTypeOK /\ TaskOK(t) /\ task[t].pc = "rsync"
  BY DEF FilesIInv, Rsync
<1>2. UNCHANGED <<container, doubt, bounds>>
  BY DEF Rsync
<1>3. /\ task[t].status \in ModelStatuses /\ task[t].at \in Hosts /\ HeadNode \in Hosts
      /\ disk \in [Hosts -> {"none", "partial", "full"}]
  BY <1>1, TypeFacts, RecFields DEF Hosts
<1>4. CASE /\ disk[HeadNode] # "none"
           /\ disk' = [disk EXCEPT ![task[t].at] = Copied(task[t].at)]
           /\ Commit(t, task[t].status, Marked(t, task[t].at, "verifying"), "verify")
  <2>1. PICK c \in {Copied(task[t].at)} : disk' = [disk EXCEPT ![task[t].at] = c]
    BY <1>4
  <2>2. c \in {"none", "partial", "full"} /\ c # "none"
    BY <1>3, <1>4, <2>1 DEF Copied
  <2>3. DiskKept /\ disk'[task[t].at] # "none"
    BY <1>3, <2>1, <2>2 DEF DiskKept
  <2>4. /\ "verifying" \in ModelStatuses /\ "verify" \in TaskPlaces
        /\ "verifying" \in InFlight /\ "verify" \in Marking
    BY StatusFacts DEF Marking
  <2> QED
    BY <1>1, <1>2, <1>3, <1>4, <2>3, <2>4, MarkKeeps
<1>5. CASE /\ disk' = [disk EXCEPT ![task[t].at] = IF @ = "none" THEN "partial" ELSE @]
           /\ Commit(t, task[t].status, Marked(t, task[t].at, "error"), "sync failed")
  <2>1. PICK c \in {IF disk[task[t].at] = "none" THEN "partial" ELSE disk[task[t].at]} :
          disk' = [disk EXCEPT ![task[t].at] = c]
    BY <1>5
  <2>2. c \in {"none", "partial", "full"} /\ c # "none"
    BY <1>3, <2>1
  <2>3. DiskKept
    BY <1>3, <2>1, <2>2 DEF DiskKept
  <2>4. /\ "error" \in ModelStatuses /\ "sync failed" \in TaskPlaces
        /\ "error" \notin InFlight /\ "sync failed" \notin Marking
    BY StatusFacts DEF Marking
  <2> QED
    BY <1>1, <1>2, <1>3, <1>5, <2>3, <2>4, MarkKeeps
<1> QED
  BY <1>4, <1>5 DEF Rsync

(* A transfer that went well says its node is present.                      *)
LEMMA ArrivedKeeps ==
  ASSUME FilesIInv, NEW t \in FileTasks, NEW status \in ModelStatuses,
         NEW place \in {"pick", "idle"},
         Commit(t, status, At1(t, task[t].at, "present", TRUE), place),
         UNCHANGED <<disk, container, doubt, bounds>>,
         task[t].pc \in {"over", "verify"}, Filled(task[t].at)
  PROVE  FilesIInv'
<1>1. /\ FilesTypeOK /\ task[t].at \in Hosts /\ TaskOK(t)
      /\ "present" \in ModelStatuses /\ "present" \notin InFlight
      /\ place \in TaskPlaces
  BY TypeFacts, RecFields, StatusFacts DEF FilesIInv
<1>2. PICK ns \in {At1(t, task[t].at, "present", TRUE)} :
        ns = At1(t, task[t].at, "present", TRUE)
  OBVIOUS
<1>3. /\ ns \in [Hosts -> NodeRows] /\ ns[task[t].at].status = "present"
      /\ \A m \in Hosts : m # task[t].at => ns[m] = task[t].nodes[m]
  BY <1>1, <1>2, ArrivedFacts
<1>4. task[t].kind # "delete"
  BY <1>1 DEF TaskOK, Placed
<1>5. Fits(t, ns, place)
  BY <1>1, <1>3, <1>4 DEF Fits, Marking
<1>6. DiskKept
  BY <1>1, SameDisk
<1> QED
  BY <1>1, <1>2, <1>3, <1>5, <1>6, CommitKeeps

LEMMA DownloadOverKeeps ==
  ASSUME FilesIInv, NEW t \in FileTasks, DownloadOver(t)
  PROVE  FilesIInv'
<1>1. FilesTypeOK /\ TaskOK(t) /\ task[t].pc = "over"
  BY DEF FilesIInv, DownloadOver
<1>2. UNCHANGED <<disk, container, doubt, bounds>>
  BY DEF DownloadOver
<1>3. task[t].at = HeadNode
  BY <1>1 DEF TaskOK, Placed, SyncPlaces
<1>4. CASE task[t].ok
  <2>1. PICK next \in {"pick", "idle"} :
          Commit(t, "present", At1(t, task[t].at, "present", TRUE), next)
    BY <1>3, <1>4 DEF DownloadOver
  <2>2. Filled(task[t].at)
    BY <1>1, <1>3, <1>4 DEF TaskOK, Delivered
  <2> QED
    BY <1>1, <1>2, <2>1, <2>2, StatusFacts, ArrivedKeeps
<1>5. CASE ~task[t].ok
  <2>1. Commit(t, "error", Marked(t, task[t].at, "error"), "idle")
    BY <1>3, <1>5 DEF DownloadOver
  <2>2. /\ "error" \in ModelStatuses /\ "idle" \in TaskPlaces
        /\ "error" \notin InFlight /\ "idle" \notin Marking
    BY StatusFacts DEF Marking
  <2>3. DiskKept
    BY <1>1, <1>2, SameDisk
  <2> QED
    BY <1>1, <1>2, <2>1, <2>2, <2>3, MarkKeeps
<1> QED
  BY <1>4, <1>5

LEMMA VerifyKeeps ==
  ASSUME FilesIInv, NEW t \in FileTasks, Verify(t)
  PROVE  FilesIInv'
<1>1. FilesTypeOK /\ TaskOK(t) /\ task[t].pc = "verify"
  BY DEF FilesIInv, Verify
<1>2. UNCHANGED <<disk, container, doubt, bounds>>
  BY DEF Verify
<1>3. task[t].status \in ModelStatuses
  BY <1>1, TypeFacts, RecFields
<1>4. CASE Commit(t, task[t].status, At1(t, task[t].at, "present", TRUE), "pick")
  <2>1. Filled(task[t].at)
    BY <1>1 DEF TaskOK, Delivered
  <2> QED
    BY <1>1, <1>2, <1>3, <1>4, <2>1, ArrivedKeeps
<1>5. CASE Commit(t, task[t].status, Marked(t, task[t].at, "error"), "sync failed")
  <2>1. /\ "error" \in ModelStatuses /\ "sync failed" \in TaskPlaces
        /\ "error" \notin InFlight /\ "sync failed" \notin Marking
    BY StatusFacts DEF Marking
  <2>2. DiskKept
    BY <1>1, <1>2, SameDisk
  <2> QED
    BY <1>1, <1>2, <1>3, <1>5, <2>1, <2>2, MarkKeeps
<1> QED
  BY <1>4, <1>5 DEF Verify

LEMMA SyncFailedKeeps ==
  ASSUME FilesIInv, NEW t \in FileTasks, SyncFailed(t)
  PROVE  FilesIInv'
<1>1. FilesTypeOK /\ TaskOK(t) /\ task[t].pc = "sync failed" /\ Active(t)
  BY DEF FilesIInv, SyncFailed, Active
<1>2. UNCHANGED <<disk, container, doubt, bounds>>
  BY DEF SyncFailed
<1>3. task \in [FileTasks -> FileRecs] /\ adrift \subseteq Hosts /\ rows \in Nat
  BY <1>1, TypeFacts
<1>4. CASE task[t].kind = "download"
  <2>1. Commit(t, "error", task[t].nodes, "idle")
    BY <1>4 DEF SyncFailed
  <2>2. task[t].nodes \in [Hosts -> NodeRows]
    BY <1>3, RecFields
  <2>3. Fits(t, task[t].nodes, "idle")
    BY <1>1, <1>4 DEF Fits, WorkPlaces, Marking
  <2>4. DiskKept
    BY <1>1, <1>2, SameDisk
  <2> QED
    BY <1>2, <2>1, <2>2, <2>3, <2>4, StatusFacts, CommitKeeps
<1>5. CASE task[t].kind # "download"
  <2>1. task' = [task EXCEPT ![t] = NoTask] /\ UNCHANGED <<model, nodeState, adrift>>
    BY <1>5 DEF SyncFailed
  <2>2. task' \in [FileTasks -> FileRecs] /\ Others({t}) /\ task'[t] = NoTask
    BY <1>3, <2>1, NoTaskFacts DEF Others
  <2>3. rows' \in Nat
    BY <1>2, <1>3 DEF bounds
  <2>4. TaskOK(t)' /\ task'[t].kind = "none"
    BY <2>2, <2>3, IdleOK, NoTaskFacts
  <2>5. \A n \in Hosts : ~WorksOn(t, n)
    BY <1>1, AwayFromWork DEF WorkPlaces
  <2> QED
    BY <1>1, <1>2, <1>3, <2>1, <2>2, <2>4, <2>5, SoloMove
<1> QED
  BY <1>4, <1>5

-----------------------------------------------------------------------------
(* The last commit of a task.                                               *)
LEMMA StopResetsKeeps ==
  ASSUME FilesIInv, NEW t \in FileTasks, StopResets(t)
  PROVE  FilesIInv'
<1>1. FilesTypeOK /\ TaskOK(t) /\ task[t].pc = "reset"
  BY DEF FilesIInv, StopResets
<1>2. UNCHANGED <<disk, container, doubt, bounds>>
  BY DEF StopResets
<1>3. task[t].nodes \in [Hosts -> NodeRows] /\ task[t].status \in ModelStatuses
  BY <1>1, TypeFacts, RecFields
<1>4. PICK status \in ModelStatuses : Commit(t, status, TakenBack(t), "idle")
  BY <1>3, StatusFacts DEF StopResets
<1>5. PICK ns \in {TakenBack(t)} : ns = TakenBack(t)
  OBVIOUS
<1>6. Absent \in NodeRows /\ Absent.status \notin InFlight /\ ~Absent.present
  BY StatusFacts DEF Absent, NodeRows
<1>7. /\ ns \in [Hosts -> NodeRows]
      /\ \A n \in Hosts : ns[n] \in {Absent, task[t].nodes[n]}
  BY <1>3, <1>5, <1>6 DEF TakenBack
<1>8. task[t].kind # "delete"
  BY <1>1 DEF TaskOK, Placed
<1>9. Fits(t, ns, "idle")
  BY <1>1, <1>6, <1>7, <1>8 DEF Fits, WorkPlaces, Marking
<1>10. DiskKept
  BY <1>1, <1>2, SameDisk
<1> QED
  BY <1>2, <1>4, <1>5, <1>7, <1>9, <1>10, StatusFacts, CommitKeeps

LEMMA FoundFacts ==
  ASSUME FilesTypeOK, NEW t \in FileTasks
  PROVE  /\ Found(t) \in [Hosts -> NodeRows]
         /\ \A n \in Hosts :
              /\ task[t].saw[n] = "none" => ~Found(t)[n].present
              /\ Found(t)[n].status \in InFlight => Found(t)[n] = task[t].nodes[n]
              /\ task[t].saw[n] # "there" /\ Found(t)[n].present
                   => task[t].nodes[n].present
<1>1. /\ task[t].nodes \in [Hosts -> NodeRows]
      /\ task[t].saw \in [Hosts -> {"unknown", "none", "there"}]
  BY TypeFacts, RecFields
<1>2. /\ Absent \in NodeRows /\ Absent.status \notin InFlight /\ ~Absent.present
      /\ [status |-> "present", present |-> TRUE] \in NodeRows
      /\ [status |-> "present", present |-> TRUE].status \notin InFlight
  BY StatusFacts DEF Absent, NodeRows
<1>3. PICK p \in NodeRows : p = [status |-> "present", present |-> TRUE]
  BY <1>2
<1>4. p.status \notin InFlight
  BY <1>2, <1>3
<1>5. Found(t) = [n \in Hosts |->
        CASE task[t].saw[n] = "none" -> Absent
          [] task[t].saw[n] = "there" -> p
          [] task[t].saw[n] = "unknown" -> task[t].nodes[n]]
  BY <1>3 DEF Found
<1>6. ASSUME NEW n \in Hosts
      PROVE  /\ Found(t)[n] \in NodeRows
             /\ task[t].saw[n] = "none" => Found(t)[n] = Absent
             /\ task[t].saw[n] = "there" => Found(t)[n] = p
             /\ task[t].saw[n] = "unknown" => Found(t)[n] = task[t].nodes[n]
             /\ task[t].saw[n] \in {"none", "there", "unknown"}
  BY <1>1, <1>2, <1>5
<1>7. Found(t) \in [Hosts -> NodeRows]
  BY <1>5, <1>6
<1> QED
  BY <1>2, <1>4, <1>6, <1>7

LEMMA FoundKeeps ==
  ASSUME FilesIInv, NEW t \in FileTasks, NEW status \in ModelStatuses,
         Commit(t, status, Found(t), "idle"),
         UNCHANGED <<disk, container, doubt, bounds>>,
         task[t].pc \in {"rm", "probe"}
  PROVE  FilesIInv'
<1>1. FilesTypeOK /\ TaskOK(t)
  BY DEF FilesIInv
<1>2. PICK ns \in {Found(t)} : ns = Found(t)
  OBVIOUS
<1>3. /\ ns \in [Hosts -> NodeRows]
      /\ \A n \in Hosts :
           /\ task[t].saw[n] = "none" => ~ns[n].present
           /\ ns[n].status \in InFlight => ns[n] = task[t].nodes[n]
           /\ task[t].saw[n] # "there" /\ ns[n].present => task[t].nodes[n].present
  BY <1>1, <1>2, FoundFacts
<1>4. \A n \in Hosts : task[t].saw[n] = "there" => Filled(n)
  BY <1>1 DEF TaskOK, Delivered
<1>5. Fits(t, ns, "idle")
  BY <1>3, <1>4 DEF Fits, WorkPlaces, Marking
<1>6. DiskKept
  BY <1>1, SameDisk
<1> QED
  BY <1>2, <1>3, <1>5, <1>6, StatusFacts, CommitKeeps

LEMMA WritePresenceKeeps ==
  ASSUME FilesIInv, NEW t \in FileTasks, WritePresence(t)
  PROVE  FilesIInv'
<1>1. task[t].status \in ModelStatuses
  BY TypeFacts, RecFields DEF FilesIInv
<1> QED
  BY <1>1, FoundKeeps DEF WritePresence

-----------------------------------------------------------------------------
(* A new row with the id that a task loaded an earlier one under.           *)
Restaled(u) ==
  /\ task[u].pc # "idle" /\ task'[u].pc = task[u].pc
  /\ task'[u].kind = task[u].kind /\ task'[u].row = task[u].row
  /\ task'[u].nodes = task[u].nodes /\ task'[u].at = task[u].at
  /\ task'[u].saw = task[u].saw /\ task'[u].ok = task[u].ok

LEMMA RestaledOK ==
  ASSUME NEW u \in FileTasks, TaskOK(u), Restaled(u), task[u] \in FileRecs,
         rows \in Nat, rows' \in Nat, rows <= rows',
         UNCHANGED <<disk, doubt>>, \A n \in Hosts : ~nodeState'[n].present
  PROVE  TaskOK(u)'
<1>1. task[u].row \in Nat
  BY RecFields, FilesBounds
<1>2. Placed(u)'
  BY <1>1 DEF TaskOK, Placed, Restaled
<1>3. Delivered(u)'
  BY DEF TaskOK, Delivered, Restaled, Filled
<1>4. Fresh(u)'
  BY DEF Fresh
<1> QED
  BY <1>2, <1>3, <1>4 DEF TaskOK

LEMMA RenewedFacts ==
  ASSUME FilesIInv, NEW id \in 1..MaxRows
  PROVE  /\ Renewed(id) \in [FileTasks -> FileRecs]
         /\ \A u \in FileTasks :
              \/ Renewed(id)[u] = task[u]
              \/ /\ task[u].pc # "idle" /\ Renewed(id)[u].pc = task[u].pc
                 /\ Renewed(id)[u].kind = task[u].kind
                 /\ Renewed(id)[u].row = task[u].row
                 /\ Renewed(id)[u].nodes = task[u].nodes
                 /\ Renewed(id)[u].at = task[u].at
                 /\ Renewed(id)[u].saw = task[u].saw
                 /\ Renewed(id)[u].ok = task[u].ok
<1>1. task \in [FileTasks -> FileRecs]
  BY TypeFacts DEF FilesIInv
<1>2. ASSUME NEW u \in FileTasks
      PROVE  /\ Renewed(id)[u] \in FileRecs
             /\ \/ Renewed(id)[u] = task[u]
                \/ /\ task[u].pc # "idle" /\ Renewed(id)[u].pc = task[u].pc
                   /\ Renewed(id)[u].kind = task[u].kind
                   /\ Renewed(id)[u].row = task[u].row
                   /\ Renewed(id)[u].nodes = task[u].nodes
                   /\ Renewed(id)[u].at = task[u].at
                   /\ Renewed(id)[u].saw = task[u].saw
                   /\ Renewed(id)[u].ok = task[u].ok
  <2>1. CASE task[u].row = id
    <3>1. Renewed(id)[u] = [task[u] EXCEPT !.stale = TRUE]
      BY <2>1 DEF Renewed
    <3>2. task[u].pc # "idle"
      <4>1. TaskOK(u) /\ id # 0
        BY DEF FilesIInv
      <4> QED
        BY <2>1, <4>1, NoTaskFacts DEF TaskOK, Placed
    <3>3. PICK q \in FileRecs : q = task[u]
      BY <1>1
    <3>4. /\ [q EXCEPT !.stale = TRUE] \in FileRecs
          /\ [q EXCEPT !.stale = TRUE].pc = q.pc
          /\ [q EXCEPT !.stale = TRUE].kind = q.kind
          /\ [q EXCEPT !.stale = TRUE].row = q.row
          /\ [q EXCEPT !.stale = TRUE].nodes = q.nodes
          /\ [q EXCEPT !.stale = TRUE].at = q.at
          /\ [q EXCEPT !.stale = TRUE].saw = q.saw
          /\ [q EXCEPT !.stale = TRUE].ok = q.ok
      BY DEF FileRecs
    <3> QED
      BY <3>1, <3>2, <3>3, <3>4
  <2>2. CASE task[u].row # id
    <3>1. Renewed(id)[u] = task[u]
      BY <2>2 DEF Renewed
    <3> QED
      BY <1>1, <3>1
  <2> QED
    BY <2>1, <2>2
<1>3. DOMAIN Renewed(id) = FileTasks
      /\ Renewed(id) = [u \in FileTasks |-> Renewed(id)[u]]
  BY DEF Renewed
<1>4. Renewed(id) \in [FileTasks -> FileRecs]
  BY <1>2, <1>3
<1> QED
  BY <1>2, <1>4

(* The row goes, or a new one comes: nothing is said of any node.           *)
LEMMA NewRowKeeps ==
  ASSUME FilesIInv, FilesTypeOK', ContainerRuns', Overlapped',
         model'.id <= rows', rows <= rows',
         nodeState' = NoCopies, UNCHANGED <<disk, doubt>>,
         \A u \in FileTasks : task'[u] = task[u] \/ Restaled(u) \/ TaskOK(u)'
  PROVE  FilesIInv'
<1>1. /\ FilesTypeOK /\ task \in [FileTasks -> FileRecs] /\ doubt \subseteq Hosts
      /\ rows \in Nat /\ rows' \in Nat /\ model'.id \in Nat
  BY TypeFacts, FilesBounds DEF FilesIInv, FilesTypeOK
<1>2. \A n \in Hosts : ~nodeState'[n].present /\ nodeState'[n].status \notin InFlight
  BY StatusFacts DEF NoCopies, Absent
<1>3. ASSUME NEW u \in FileTasks PROVE TaskOK(u)'
  <2>1. CASE task'[u] = task[u]
    <3>1. TaskOK(u) /\ task[u] \in FileRecs
      BY <1>1 DEF FilesIInv
    <3>4. \A n \in Hosts : ~nodeState'[n].present
      BY <1>2
    <3>5. doubt \subseteq doubt' /\ doubt' \subseteq Hosts
      BY <1>1
    <3>6. \A n \in Hosts : disk[n] # "none" => disk'[n] # "none" \/ n \in doubt'
      OBVIOUS
    <3> QED
      BY <1>1, <2>1, <3>1, <3>4, <3>5, <3>6, OthersOK
  <2>2. CASE Restaled(u)
    <3>1. TaskOK(u) /\ task[u] \in FileRecs
      BY <1>1 DEF FilesIInv
    <3> QED
      BY <1>1, <1>2, <2>2, <3>1, RestaledOK
  <2> QED
    BY <2>1, <2>2
<1>4. RowsKnown' /\ InFlightHasCause' /\ PresentIsThere'
  BY <1>2 DEF RowsKnown, InFlightHasCause, PresentIsThere
<1> QED
  BY <1>3, <1>4 DEF FilesIInv

LEMMA DropTyped ==
  ASSUME FilesTypeOK, model' = [id |-> 0, status |-> "absent"],
         nodeState' = NoCopies, adrift' = {},
         task' \in [FileTasks -> FileRecs],
         UNCHANGED <<disk, container, doubt, bounds>>
  PROVE  FilesTypeOK' /\ model'.id = 0 /\ rows' = rows /\ rows \in Nat
<1>1. NoCopies \in [Hosts -> NodeRows]
  BY DEF NoCopies, Absent, NodeRows, ModelStatuses
<1>2. /\ model' \in [id : 0..MaxRows, status : ModelStatuses] /\ model'.id = 0
  <2>1. 0 \in 0..MaxRows
    BY FilesBounds
  <2>2. "absent" \in ModelStatuses
    BY DEF ModelStatuses
  <2> QED
    BY <2>1, <2>2
<1>3. rows \in Nat
  BY TypeFacts
<1> QED
  BY <1>1, <1>2, <1>3 DEF FilesTypeOK, FileRecs, bounds

LEMMA DeleteOverKeeps ==
  ASSUME FilesIInv, NEW t \in FileTasks, DeleteOver(t)
  PROVE  FilesIInv'
<1>1. FilesTypeOK /\ TaskOK(t) /\ OpAt(t, "delete", "rm") /\ ContainerRuns /\ Overlapped
      /\ UNCHANGED <<disk, container, doubt, bounds>>
  BY DEF FilesIInv, DeleteOver
<1>2. task \in [FileTasks -> FileRecs] /\ rows \in Nat /\ doubt \subseteq Hosts
  BY <1>1, TypeFacts
<1>3. CASE task[t].ok /\ task[t].drop
  <2>0. task' = [task EXCEPT ![t] = NoTask]
    BY <1>3 DEF DeleteOver
  <2>2. /\ task' \in [FileTasks -> FileRecs] /\ Others({t}) /\ task'[t] = NoTask
    BY <1>2, <2>0, NoTaskFacts DEF Others
  <2>4. ContainerRuns'
    BY <1>1, <2>2 DEF ContainerRuns, Others, OpAt
  <2>5. Overlapped'
    <3>1. \A u \in FileTasks : /\ Active(u)' => Active(u)
                               /\ task'[u].kind = "delete" => task[u].kind = "delete"
      BY <1>1, <2>2, NoTaskFacts DEF Active, Others, OpAt
    <3> QED
      BY <1>1, <1>2, <3>1, OverlapKeeps
  <2>6. CASE task[t].row = model.id
    <3>1. /\ model' = [id |-> 0, status |-> "absent"] /\ nodeState' = NoCopies
          /\ adrift' = {}
      BY <1>3, <2>6 DEF DeleteOver
    <3>2. FilesTypeOK' /\ model'.id = 0 /\ rows' = rows /\ rows \in Nat
      BY <1>1, <2>2, <3>1, DropTyped
    <3>3. \A u \in FileTasks : task'[u] = task[u] \/ TaskOK(u)'
      BY <2>2, <3>2, IdleOK DEF Others
    <3> QED
      BY <1>1, <2>4, <2>5, <3>1, <3>2, <3>3, NewRowKeeps
  <2>7. CASE task[t].row # model.id
    <3>1. UNCHANGED <<model, nodeState, adrift>>
      BY <1>3, <2>7 DEF DeleteOver
    <3>2. \A n \in Hosts : ~NoCopies[n].present /\ NoCopies[n].status \notin InFlight
      BY StatusFacts DEF NoCopies, Absent
    <3>3. PICK ns \in {NoCopies} : ns = NoCopies
      OBVIOUS
    <3>4. MovedOn(t, ns, "idle")
      BY <2>2 DEF MovedOn
    <3>5. Fits(t, ns, "idle")
      BY <1>1, <3>2, <3>3 DEF Fits, OpAt, WorkPlaces, Marking
    <3>6. DiskKept
      BY <1>1, SameDisk
    <3> QED
      BY <1>1, <2>7, <3>1, <3>4, <3>5, <3>6, CommitElsewhereKeeps
  <2> QED
    BY <2>6, <2>7
<1>4. CASE ~(task[t].ok /\ task[t].drop)
  <2>1. PICK status \in ModelStatuses : Commit(t, status, Found(t), "idle")
    BY <1>4, StatusFacts DEF DeleteOver
  <2> QED
    BY <1>1, <2>1, FoundKeeps DEF OpAt
<1> QED
  BY <1>3, <1>4

LEMMA RemoveRegistryKeeps ==
  ASSUME FilesIInv, RemoveRegistry
  PROVE  FilesIInv'
<1>1. /\ FilesTypeOK /\ ContainerRuns /\ Overlapped
      /\ model' = [id |-> 0, status |-> "absent"] /\ nodeState' = NoCopies
      /\ adrift' = {} /\ UNCHANGED <<disk, container, task, doubt, bounds>>
  BY DEF FilesIInv, RemoveRegistry
<1>2. task' \in [FileTasks -> FileRecs]
  BY <1>1, TypeFacts
<1>3. FilesTypeOK' /\ model'.id = 0 /\ rows' = rows /\ rows \in Nat
  BY <1>1, <1>2, DropTyped
<1>4. ContainerRuns' /\ Overlapped'
  BY <1>1 DEF ContainerRuns, Overlapped, Active
<1> QED
  BY <1>1, <1>3, <1>4, NewRowKeeps

(* What a new row with the id i leaves known.                               *)
LEMMA NewIdFacts ==
  ASSUME FilesTypeOK, NEW i \in 1..MaxRows, NewId(i)
  PROVE  /\ i \in 0..MaxRows /\ i # 0 /\ i <= rows' /\ rows <= rows'
         /\ rows' \in 0..MaxRows /\ rows' \in Nat
<1>1. rows \in 0..MaxRows /\ MaxRows \in Nat
  BY FilesBounds DEF FilesTypeOK
<1>2. rows' = IF i > rows THEN i ELSE rows
  BY DEF NewId
<1> QED
  BY <1>1, <1>2

LEMMA AddModelKeeps ==
  ASSUME FilesIInv, AddModel
  PROVE  FilesIInv'
<1>1. /\ FilesTypeOK /\ ContainerRuns /\ Overlapped /\ RowsKnown /\ model.id = 0
      /\ UNCHANGED <<nodeState, disk, container, adrift, doubt, ops, cuts>>
  BY DEF FilesIInv, AddModel
<1>2. PICK i \in 1..MaxRows :
        /\ NewId(i) /\ model' = [id |-> i, status |-> "absent"] /\ task' = Renewed(i)
  BY DEF AddModel
<1>3. /\ i \in 0..MaxRows /\ i # 0 /\ i <= rows' /\ rows <= rows'
      /\ rows' \in 0..MaxRows
  BY <1>1, <1>2, NewIdFacts
<1>4. /\ task' \in [FileTasks -> FileRecs]
      /\ \A u \in FileTasks : task'[u] = task[u] \/ Restaled(u)
  BY <1>2, RenewedFacts DEF Restaled
<1>5. FilesTypeOK'
  <2>1. model' \in [id : 0..MaxRows, status : ModelStatuses]
    BY <1>2, <1>3, StatusFacts
  <2> QED
    BY <1>1, <1>3, <1>4, <2>1 DEF FilesTypeOK, FileRecs
<1>6. ContainerRuns'
  BY <1>1, <1>4 DEF ContainerRuns, Restaled
<1>7. Overlapped'
  BY <1>1, <1>4 DEF Overlapped, Active, Restaled
<1>8. model'.id <= rows' /\ nodeState' = NoCopies
  BY <1>1, <1>2, <1>3 DEF RowsKnown
<1> QED
  BY <1>1, <1>3, <1>4, <1>5, <1>6, <1>7, <1>8, NewRowKeeps

LEMMA OtherModelCommitsKeeps ==
  ASSUME FilesIInv, OtherModelCommits
  PROVE  FilesIInv'
<1>1. /\ FilesTypeOK /\ ContainerRuns /\ Overlapped /\ RowsKnown /\ model.id # 0
      /\ UNCHANGED <<disk, container, task, rows, cuts>>
      /\ ops < MaxOps /\ ops' = ops + 1
  BY DEF FilesIInv, OtherModelCommits
<1>2. /\ task \in [FileTasks -> FileRecs] /\ rows \in Nat /\ doubt \subseteq Hosts
      /\ adrift \subseteq Hosts /\ nodeState \in [Hosts -> NodeRows]
      /\ model \in [id : 0..MaxRows, status : ModelStatuses]
  BY <1>1, TypeFacts
<1>3. PICK n \in Hosts, s \in ModelStatuses :
        /\ nodeState' = [nodeState EXCEPT ![n] = [status |-> s,
             present |-> s = "present" \/ (s # "absent" /\ @.present)]]
        /\ model' \in {model, [model EXCEPT !.status = s]}
        /\ adrift' = {m \in adrift \union {n} : nodeState'[m].status \in InFlight}
        /\ doubt' = doubt \union {n}
  BY DEF OtherModelCommits
<1>4. PICK p \in BOOLEAN : nodeState' = [nodeState EXCEPT ![n] =
                                            [status |-> s, present |-> p]]
  <2>1. (s = "present" \/ (s # "absent" /\ nodeState[n].present)) \in BOOLEAN
    OBVIOUS
  <2> QED
    BY <1>3, <2>1
<1>5. PICK e \in NodeRows : e = [status |-> s, present |-> p]
  BY DEF NodeRows
<1>6. /\ nodeState' \in [Hosts -> NodeRows]
      /\ \A m \in Hosts : m # n => nodeState'[m] = nodeState[m]
  BY <1>2, <1>4, <1>5
<1>7. /\ model' \in [id : 0..MaxRows, status : ModelStatuses]
      /\ model'.id = model.id
  BY <1>2, <1>3
<1>8. /\ doubt \subseteq doubt' /\ doubt' \subseteq Hosts /\ adrift' \subseteq Hosts
  BY <1>2, <1>3
<1>9. FilesTypeOK'
  <2>1. ops' \in 0..MaxOps
    BY <1>1, FilesBounds DEF FilesTypeOK
  <2> QED
    BY <1>1, <1>6, <1>7, <1>8, <2>1 DEF FilesTypeOK
<1>10. ContainerRuns' /\ Overlapped'
  BY <1>1, <1>8 DEF ContainerRuns, Overlapped, Active
<1>11. RowsKnown'
  BY <1>1, <1>7 DEF RowsKnown
<1>12. ASSUME NEW u \in FileTasks PROVE TaskOK(u)'
  <2>1. TaskOK(u) /\ task'[u] = task[u] /\ task[u] \in FileRecs
    BY <1>1, <1>2 DEF FilesIInv
  <2>2. \A m \in Hosts : m \in doubt' \/ nodeState'[m].present = nodeState[m].present
    BY <1>3, <1>6
  <2>3. \A m \in Hosts : disk[m] # "none" => disk'[m] # "none" \/ m \in doubt'
    BY <1>1
  <2>4. rows <= rows' /\ rows' \in Nat
    BY <1>1, <1>2
  <2> QED
    BY <1>2, <1>7, <1>8, <2>1, <2>2, <2>3, <2>4, OthersOK
<1>13. InFlightHasCause'
  <2> SUFFICES ASSUME NEW m \in Hosts, nodeState'[m].status \in InFlight
               PROVE  m \in adrift' \/ \E t \in FileTasks : WorksOn(t, m)'
    BY DEF InFlightHasCause
  <2>1. CASE m = n \/ m \in adrift
    BY <1>3, <2>1
  <2>2. CASE m # n /\ m \notin adrift
    <3>1. PICK t \in FileTasks : WorksOn(t, m)
      BY <1>6, <2>2 DEF FilesIInv, InFlightHasCause
    <3> QED
      BY <1>1, <1>7, <3>1 DEF WorksOn
  <2> QED
    BY <2>1, <2>2
<1>14. PresentIsThere'
  <2> SUFFICES ASSUME NEW m \in Hosts, nodeState'[m].present, disk'[m] = "none"
               PROVE  m \in doubt' \/ \E t \in FileTasks : Removed(t, m)'
    BY DEF PresentIsThere
  <2>1. CASE m = n
    BY <1>3, <2>1
  <2>2. CASE m # n
    <3>1. m \in doubt \/ \E t \in FileTasks : Removed(t, m)
      BY <1>1, <1>6, <2>2 DEF FilesIInv, PresentIsThere
    <3> QED
      BY <1>1, <1>8, <3>1 DEF Removed
  <2> QED
    BY <2>1, <2>2
<1> QED
  BY <1>9, <1>10, <1>11, <1>12, <1>13, <1>14 DEF FilesIInv

(* A scan that is to look at the row with the id i.                         *)
LookedUp(f, t, i) == task' = [f EXCEPT ![t].pc = "load", ![t].row = i]

LEMMA Looks ==
  ASSUME NEW f \in [FileTasks -> FileRecs], NEW t \in FileTasks, NEW i \in 0..MaxRows,
         LookedUp(f, t, i)
  PROVE  /\ task' \in [FileTasks -> FileRecs]
         /\ \A u \in FileTasks \ {t} : task'[u] = f[u]
         /\ task'[t].pc = "load" /\ task'[t].row = i /\ task'[t].kind = f[t].kind
         /\ task'[t].at = f[t].at /\ task'[t].saw = f[t].saw
<1>1. PICK r \in {[f[t] EXCEPT !.pc = "load", !.row = i]} : task' = [f EXCEPT ![t] = r]
  BY DEF LookedUp
<1>2. PICK q \in FileRecs : q = f[t]
  OBVIOUS
<1>3. "load" \in TaskPlaces
  BY DEF TaskPlaces
<1>4. r = [q EXCEPT !.pc = "load", !.row = i]
  BY <1>1, <1>2
<1>5. /\ r \in FileRecs /\ r.pc = "load" /\ r.row = i /\ r.kind = q.kind
      /\ r.at = q.at /\ r.saw = q.saw
  BY <1>3, <1>4 DEF FileRecs
<1> QED
  BY <1>1, <1>2, <1>5

LEMMA LooksOK ==
  ASSUME NEW t \in FileTasks, TaskOK(t), task[t].pc = "look", NEW i \in 0..MaxRows,
         i <= rows', task'[t].pc = "load", task'[t].row = i,
         task'[t].kind = task[t].kind, task'[t].at = task[t].at,
         task'[t].saw = task[t].saw
  PROVE  TaskOK(t)'
BY DEF TaskOK, Placed, Delivered, Fresh, SyncPlaces, WorkPlaces

LEMMA ImportKeeps ==
  ASSUME FilesIInv, NEW t \in FileTasks, Import(t)
  PROVE  FilesIInv'
<1>1. /\ FilesTypeOK /\ TaskOK(t) /\ ContainerRuns /\ Overlapped /\ RowsKnown
      /\ task[t].pc = "look" /\ Active(t)
      /\ UNCHANGED <<disk, container, doubt, ops, cuts>>
  BY DEF FilesIInv, Import, Active
<1>2. /\ task \in [FileTasks -> FileRecs] /\ rows \in Nat /\ doubt \subseteq Hosts
      /\ adrift \subseteq Hosts /\ model.id \in Nat
      /\ model \in [id : 0..MaxRows, status : ModelStatuses]
  BY <1>1, TypeFacts
<1>3. CASE /\ nodeState' = NoCopies /\ adrift' = {}
           /\ \E id \in 1..MaxRows :
                /\ NewId(id) /\ model' = [id |-> id, status |-> "present"]
                /\ task' = [Renewed(id) EXCEPT ![t].pc = "load", ![t].row = id]
  <2>1. PICK i \in 1..MaxRows :
          /\ NewId(i) /\ model' = [id |-> i, status |-> "present"]
          /\ task' = [Renewed(i) EXCEPT ![t].pc = "load", ![t].row = i]
    BY <1>3
  <2>2. /\ i \in 0..MaxRows /\ i <= rows' /\ rows <= rows' /\ rows' \in 0..MaxRows
    BY <1>1, <2>1, NewIdFacts
  <2>3. PICK f \in [FileTasks -> FileRecs] : f = Renewed(i)
    BY RenewedFacts
  <2>4. /\ task' \in [FileTasks -> FileRecs]
        /\ \A u \in FileTasks \ {t} : task'[u] = f[u]
        /\ task'[t].pc = "load" /\ task'[t].row = i /\ task'[t].kind = f[t].kind
        /\ task'[t].at = f[t].at /\ task'[t].saw = f[t].saw
    <3>1. LookedUp(f, t, i)
      BY <2>1, <2>3 DEF LookedUp
    <3> QED
      BY <2>2, <3>1, Looks
  <2>5. /\ f[t].kind = task[t].kind /\ f[t].at = task[t].at /\ f[t].saw = task[t].saw
    BY <2>3, RenewedFacts
  <2>6. TaskOK(t)'
    BY <1>1, <2>2, <2>4, <2>5, LooksOK
  <2>7. \A u \in FileTasks \ {t} : task'[u] = task[u] \/ Restaled(u)
    BY <2>3, <2>4, RenewedFacts DEF Restaled
  <2>8. FilesTypeOK'
    <3>1. NoCopies \in [Hosts -> NodeRows]
      BY DEF NoCopies, Absent, NodeRows, ModelStatuses
    <3>2. model' \in [id : 0..MaxRows, status : ModelStatuses]
      BY <2>1, <2>2, StatusFacts
    <3> QED
      BY <1>1, <1>3, <2>2, <2>4, <3>1, <3>2 DEF FilesTypeOK, FileRecs
  <2>9. ContainerRuns'
    BY <1>1, <2>7 DEF ContainerRuns, Restaled
  <2>10. Overlapped'
    <3>1. \A u \in FileTasks : /\ Active(u)' => Active(u)
                               /\ task'[u].kind = "delete" => task[u].kind = "delete"
      BY <1>1, <2>4, <2>5, <2>7 DEF Active, Restaled
    <3> QED
      BY <1>1, <1>2, <3>1, OverlapKeeps
  <2>11. \A u \in FileTasks : task'[u] = task[u] \/ Restaled(u) \/ TaskOK(u)'
    BY <2>6, <2>7
  <2>12. model'.id <= rows'
    BY <2>1, <2>2
  <2> QED
    BY <1>1, <1>3, <2>2, <2>8, <2>9, <2>10, <2>11, <2>12, NewRowKeeps
<1>4. CASE /\ task' = [task EXCEPT ![t].pc = "load", ![t].row = model.id]
           /\ UNCHANGED <<model, nodeState, adrift, rows>>
  <2>1. PICK i \in 0..MaxRows : i = model.id
    BY <1>2
  <2>2. task' = [task EXCEPT ![t].pc = "load", ![t].row = i]
    BY <1>4, <2>1
  <2>3. /\ task' \in [FileTasks -> FileRecs]
        /\ \A u \in FileTasks \ {t} : task'[u] = task[u]
        /\ task'[t].pc = "load" /\ task'[t].row = i /\ task'[t].kind = task[t].kind
        /\ task'[t].at = task[t].at /\ task'[t].saw = task[t].saw
    <3>1. LookedUp(task, t, i)
      BY <2>2 DEF LookedUp
    <3> QED
      BY <1>2, <3>1, Looks
  <2>4. i <= rows'
    BY <1>1, <1>4, <2>1 DEF RowsKnown
  <2>5. TaskOK(t)'
    BY <1>1, <2>3, <2>4, LooksOK
  <2>6. \A n \in Hosts : ~WorksOn(t, n)
    BY <1>1, AwayFromWork DEF WorkPlaces
  <2>7. UNCHANGED <<model, nodeState, disk, doubt, bounds>>
    BY <1>1, <1>4 DEF bounds
  <2>8. Others({t})
    BY <2>3 DEF Others
  <2> QED
    BY <1>1, <1>2, <1>4, <2>3, <2>5, <2>6, <2>7, <2>8, SoloMove
<1>5. CASE /\ task' = [task EXCEPT ![t] = NoTask]
           /\ UNCHANGED <<model, nodeState, adrift, rows>>
  <2>1. task' \in [FileTasks -> FileRecs] /\ Others({t}) /\ task'[t] = NoTask
    BY <1>2, <1>5, NoTaskFacts DEF Others
  <2>2. TaskOK(t)' /\ task'[t].kind = "none"
    BY <1>2, <1>5, <2>1, IdleOK, NoTaskFacts
  <2>3. \A n \in Hosts : ~WorksOn(t, n)
    BY <1>1, AwayFromWork DEF WorkPlaces
  <2>4. UNCHANGED <<model, nodeState, disk, doubt, bounds>>
    BY <1>1, <1>5 DEF bounds
  <2> QED
    BY <1>1, <1>2, <1>5, <2>1, <2>2, <2>3, <2>4, SoloMove
<1> QED
  BY <1>3, <1>4, <1>5 DEF Import

-----------------------------------------------------------------------------
(* docker rm -f: the one that waits for the container sees it go.           *)
LEMMA ReapedFacts ==
  ASSUME FilesTypeOK, NEW c \in FileTasks, task[c].pc = "running"
  PROVE  /\ Reaped(c) \in [FileTasks -> FileRecs]
         /\ \A u \in FileTasks \ {c} : Reaped(c)[u] = task[u]
         /\ Reaped(c)[c].pc = "over" /\ ~Reaped(c)[c].ok
         /\ Reaped(c)[c].kind = task[c].kind /\ Reaped(c)[c].row = task[c].row
         /\ Reaped(c)[c].at = task[c].at /\ Reaped(c)[c].nodes = task[c].nodes
         /\ Reaped(c)[c].saw = task[c].saw
<1>1. task \in [FileTasks -> FileRecs] /\ "over" \in TaskPlaces
  BY TypeFacts DEF TaskPlaces
<1>2. Reaped(c) = [task EXCEPT ![c].pc = "over", ![c].ok = FALSE]
  BY DEF Reaped
<1>3. PICK r \in {[task[c] EXCEPT !.pc = "over", !.ok = FALSE]} :
        Reaped(c) = [task EXCEPT ![c] = r]
  BY <1>1, <1>2
<1>4. /\ r \in FileRecs /\ r.pc = "over" /\ ~r.ok
      /\ r.kind = task[c].kind /\ r.row = task[c].row /\ r.at = task[c].at
      /\ r.nodes = task[c].nodes /\ r.saw = task[c].saw
  <2>1. task[c] \in FileRecs
    BY <1>1
  <2> QED
    BY <1>1, <1>3, <2>1 DEF FileRecs
<1> QED
  BY <1>1, <1>3, <1>4

(* The reaped task has its outcome, and it is not a success.                *)
OverNow(c) ==
  /\ task'[c].pc = "over" /\ ~task'[c].ok
  /\ task'[c].kind = task[c].kind /\ task'[c].row = task[c].row
  /\ task'[c].at = task[c].at /\ task'[c].nodes = task[c].nodes
  /\ task'[c].saw = task[c].saw

LEMMA OverNowOK ==
  ASSUME NEW c \in FileTasks, TaskOK(c), task[c].pc = "running", OverNow(c),
         UNCHANGED <<model, rows>>
  PROVE  /\ TaskOK(c)' /\ task[c].kind # "delete"
         /\ \A n \in Hosts : /\ WorksOn(c, n) => WorksOn(c, n)'
                             /\ ~Removed(c, n)
<1>1. task[c].kind # "delete"
  BY DEF TaskOK, Placed
<1>2. TaskOK(c)'
  BY <1>1 DEF TaskOK, Placed, Delivered, Fresh, OverNow, SyncPlaces, WorkPlaces
<1>3. \A n \in Hosts : WorksOn(c, n) => WorksOn(c, n)'
  BY DEF WorksOn, OverNow
<1> QED
  BY <1>1, <1>2, <1>3, AwayFromWork

(* Who reaps goes on, and the reaped one sees its container gone.           *)
LEMMA ReapKeeps ==
  ASSUME FilesIInv, NEW t \in FileTasks, NEW p \in TaskPlaces,
         task' = [Reaped(container) EXCEPT ![t].pc = p], container' = "none",
         UNCHANGED <<model, nodeState, disk, adrift, doubt, bounds>>,
         \/ task[t].pc = "prepare" /\ p = "run"
         \/ task[t].pc = "reap" /\ p = "reset"
  PROVE  FilesIInv'
<1>1. FilesTypeOK /\ TaskOK(t) /\ ContainerRuns /\ Overlapped /\ Active(t)
  BY DEF FilesIInv, Active
<1>2. /\ task \in [FileTasks -> FileRecs] /\ adrift \subseteq Hosts
      /\ doubt \subseteq Hosts /\ disk \in [Hosts -> {"none", "partial", "full"}]
      /\ container \in FileTasks \union {"none", "orphan"}
  BY <1>1, TypeFacts
<1>3. CASE container \notin FileTasks
  <2>1. Step(t, p)
    BY <1>3 DEF Step, Reaped
  <2>2. /\ task' \in [FileTasks -> FileRecs] /\ Others({t})
        /\ task'[t].pc = p /\ Alike(task'[t], task[t])
    BY <1>1, <2>1, StepFacts
  <2>3. TaskOK(t)'
    BY <1>1, <2>2 DEF TaskOK, Placed, Delivered, Fresh, Alike, Filled, SyncPlaces,
                      WorkPlaces, bounds
  <2>4. /\ \A n \in Hosts : WorksOn(t, n) => WorksOn(t, n)'
        /\ task'[t].kind = task[t].kind
    BY <2>2 DEF WorksOn, Alike
  <2> QED
    BY <1>1, <1>2, <2>2, <2>3, <2>4, SoloMove
<1>4. CASE container \in FileTasks
  <2>1. PICK c \in FileTasks : c = container
    BY <1>4
  <2>2. task[c].pc = "running" /\ c # t /\ TaskOK(c)
    BY <1>1, <1>4, <2>1 DEF ContainerRuns, FilesIInv
  <2>3. /\ Reaped(c) \in [FileTasks -> FileRecs]
        /\ \A u \in FileTasks \ {c} : Reaped(c)[u] = task[u]
        /\ Reaped(c)[c].pc = "over" /\ ~Reaped(c)[c].ok
        /\ Reaped(c)[c].kind = task[c].kind /\ Reaped(c)[c].row = task[c].row
        /\ Reaped(c)[c].at = task[c].at /\ Reaped(c)[c].nodes = task[c].nodes
        /\ Reaped(c)[c].saw = task[c].saw
    BY <1>1, <2>2, ReapedFacts
  <2>4. PICK r \in {[task[t] EXCEPT !.pc = p]} : task' = [Reaped(c) EXCEPT ![t] = r]
    BY <2>1, <2>2, <2>3
  <2>5. r \in FileRecs /\ r.pc = p /\ Alike(r, task[t])
    <3>1. task[t] \in FileRecs
      BY <1>2
    <3>2. PICK q \in FileRecs : q = task[t]
      BY <3>1
    <3>3. /\ [q EXCEPT !.pc = p] \in FileRecs
          /\ [q EXCEPT !.pc = p].pc = p /\ Alike([q EXCEPT !.pc = p], q)
      BY PcTo
    <3>4. r = [q EXCEPT !.pc = p]
      BY <2>4, <3>2
    <3> QED
      BY <3>2, <3>3, <3>4
  <2>6. /\ task' \in [FileTasks -> FileRecs] /\ task'[t] = r
        /\ \A u \in FileTasks \ {t} : task'[u] = Reaped(c)[u]
    BY <2>3, <2>4, <2>5
  <2>7. OverNow(c) /\ Others({t, c})
    BY <2>2, <2>3, <2>6 DEF OverNow, Others
  <2>8. FilesTypeOK' /\ UNCHANGED rows
    BY <1>1, <1>2, <2>6, QuietTyped
  <2>9. /\ TaskOK(c)' /\ task[c].kind # "delete"
        /\ \A n \in Hosts : /\ WorksOn(c, n) => WorksOn(c, n)'
                            /\ ~Removed(c, n)
    BY <2>2, <2>7, <2>8, OverNowOK
  <2>10. TaskOK(t)'
    <3>1. /\ task'[t].pc = p /\ Alike(task'[t], task[t]) /\ rows' = rows
      BY <2>5, <2>6, <2>8
    <3>2. Placed(t)'
      BY <1>1, <3>1 DEF TaskOK, Placed, Alike, SyncPlaces, WorkPlaces
    <3>3. Delivered(t)' /\ Fresh(t)'
      BY <1>1, <3>1 DEF TaskOK, Placed, Delivered, Fresh, Alike, Filled
    <3> QED
      BY <3>2, <3>3 DEF TaskOK
  <2>11. \A n \in Hosts : /\ WorksOn(t, n) => WorksOn(t, n)'
                          /\ ~Removed(t, n)
    BY <1>1, <2>5, <2>6, AwayFromWork DEF WorksOn, Alike
  <2>12. ContainerRuns'
    BY FilesAssumption DEF ContainerRuns
  <2>13. Overlapped'
    <3>1. \A u \in FileTasks : /\ Active(u)' => Active(u)
                               /\ task'[u].kind = "delete" => task[u].kind = "delete"
      <4>1. task'[t].kind = task[t].kind
        BY <2>5, <2>6 DEF Alike
      <4>2. task'[c].kind = task[c].kind /\ Active(c)
        BY <2>2, <2>7 DEF OverNow, Active
      <4> QED
        BY <1>1, <2>7, <4>1, <4>2 DEF Active, Others
    <3> QED
      BY <1>1, <1>2, <3>1, OverlapKeeps
  <2> DEFINE T == {t, c}
  <2>14. /\ T \in SUBSET FileTasks /\ Others(T)
         /\ \A u \in T : TaskOK(u)'
         /\ \A u \in T, n \in Hosts : WorksOn(u, n) => WorksOn(u, n)'
         /\ \A u \in T, n \in Hosts : ~Removed(u, n)
    BY <2>7, <2>9, <2>10, <2>11
  <2> HIDE DEF T
  <2> QED
    BY <2>8, <2>12, <2>13, <2>14, QuietKeeps
<1> QED
  BY <1>3, <1>4

LEMMA StepKeeps ==
  ASSUME FilesIInv, NEW t \in FileTasks, NEW p \in TaskPlaces, Step(t, p),
         UNCHANGED <<model, nodeState, disk, container, adrift, doubt, bounds>>,
         \/ task[t].pc = "prepare" /\ p = "run"
         \/ task[t].pc = "reap" /\ p = "reset"
         \/ task[t].pc = "asked" /\ p = "load"
  PROVE  FilesIInv'
<1>1. FilesTypeOK /\ TaskOK(t) /\ Active(t)
  BY DEF FilesIInv, Active
<1>2. /\ task' \in [FileTasks -> FileRecs] /\ Others({t})
      /\ task'[t].pc = p /\ Alike(task'[t], task[t])
  BY <1>1, StepFacts
<1>3. TaskOK(t)'
  BY <1>1, <1>2 DEF TaskOK, Placed, Delivered, Fresh, Alike, Filled, SyncPlaces,
                    WorkPlaces, bounds
<1>4. /\ \A n \in Hosts : WorksOn(t, n) => WorksOn(t, n)'
      /\ task'[t].kind = task[t].kind /\ adrift \subseteq Hosts
  BY <1>1, <1>2, TypeFacts DEF WorksOn, Alike
<1> QED
  BY <1>1, <1>2, <1>3, <1>4, SoloMove

LEMMA ReapFirstKeeps ==
  ASSUME FilesIInv, NEW t \in FileTasks, ReapFirst(t)
  PROVE  FilesIInv'
<1>1. /\ FilesTypeOK /\ TaskOK(t) /\ task[t].pc = "prepare" /\ Active(t)
      /\ UNCHANGED <<model, nodeState, disk, doubt, bounds>> /\ "run" \in TaskPlaces
  BY DEF FilesIInv, ReapFirst, Active, TaskPlaces
<1>2. \A n \in Hosts : ~Removed(t, n)
  BY <1>1, AwayFromWork
<1>3. CASE EndOf(t)
  BY <1>1, <1>2, <1>3, FileEndKeeps
<1>4. CASE /\ task' = [Reaped(container) EXCEPT ![t].pc = "run"]
           /\ container' = "none" /\ UNCHANGED adrift
  BY <1>1, <1>4, ReapKeeps
<1>5. CASE Step(t, "run") /\ UNCHANGED <<container, adrift>>
  BY <1>1, <1>5, StepKeeps
<1> QED
  BY <1>3, <1>4, <1>5 DEF ReapFirst

LEMMA StopReapsKeeps ==
  ASSUME FilesIInv, NEW t \in FileTasks, StopReaps(t)
  PROVE  FilesIInv'
<1>1. /\ task[t].pc = "reap" /\ "reset" \in TaskPlaces
      /\ UNCHANGED <<model, nodeState, disk, adrift, doubt, bounds>>
  BY DEF StopReaps, TaskPlaces
<1>2. CASE /\ task' = [Reaped(container) EXCEPT ![t].pc = "reset"]
           /\ container' = "none"
  BY <1>1, <1>2, ReapKeeps
<1>3. CASE Step(t, "reset") /\ UNCHANGED container
  BY <1>1, <1>3, StepKeeps
<1> QED
  BY <1>2, <1>3 DEF StopReaps

LEMMA CancelBusyJobKeeps ==
  ASSUME FilesIInv, NEW t \in FileTasks, CancelBusyJob(t)
  PROVE  FilesIInv'
<1>1. /\ FilesTypeOK /\ TaskOK(t) /\ ContainerRuns /\ Overlapped
      /\ task[t].kind = "cancel" /\ task[t].pc = "asked" /\ Active(t)
      /\ UNCHANGED <<model, nodeState, disk, doubt, bounds>> /\ "load" \in TaskPlaces
  BY DEF FilesIInv, CancelBusyJob, OpAt, Active, TaskPlaces
<1>2. /\ task \in [FileTasks -> FileRecs] /\ adrift \subseteq Hosts
      /\ doubt \subseteq Hosts /\ disk \in [Hosts -> {"none", "partial", "full"}]
      /\ container \in FileTasks \union {"none", "orphan"}
  BY <1>1, TypeFacts
<1>3. CASE Step(t, "load") /\ UNCHANGED <<container, adrift>>
  BY <1>1, <1>3, StepKeeps
<1>4. CASE \E busy \in ActiveFileJobs :
             /\ task' = [task EXCEPT ![busy] = NoTask, ![t].pc = "load"]
             /\ adrift' = adrift \union
                  {n \in Hosts : WorksOn(busy, n) /\ nodeState[n].status \in InFlight}
             /\ container' = IF container = busy THEN "orphan" ELSE container
  <2>1. PICK c \in ActiveFileJobs :
             /\ task' = [task EXCEPT ![c] = NoTask, ![t].pc = "load"]
             /\ adrift' = adrift \union
                  {n \in Hosts : WorksOn(c, n) /\ nodeState[n].status \in InFlight}
             /\ container' = IF container = c THEN "orphan" ELSE container
    BY <1>4
  <2>2. c \in FileTasks /\ Active(c) /\ c # t
    BY <1>1 DEF ActiveFileJobs, Launched, Active, FileOps
  <2>3. PICK q \in FileRecs : q = task[t]
    BY <1>2
  <2>4. PICK r \in {[q EXCEPT !.pc = "load"]} :
          task' = [task EXCEPT ![c] = NoTask, ![t] = r]
    BY <1>2, <2>1, <2>2, <2>3
  <2>5. r \in FileRecs /\ r.pc = "load" /\ Alike(r, task[t])
    <3>1. /\ [q EXCEPT !.pc = "load"] \in FileRecs
          /\ [q EXCEPT !.pc = "load"].pc = "load" /\ Alike([q EXCEPT !.pc = "load"], q)
      BY <1>1, PcTo
    <3> QED
      BY <2>3, <2>4, <3>1
  <2>6. /\ task' \in [FileTasks -> FileRecs] /\ Others({t, c})
        /\ task'[t] = r /\ task'[c] = NoTask
    BY <1>2, <2>2, <2>4, <2>5, NoTaskFacts DEF Others
  <2>7. /\ adrift \subseteq adrift' /\ adrift' \subseteq Hosts
        /\ \A n \in Hosts : WorksOn(c, n) =>
             n \in adrift' \/ nodeState[n].status \notin InFlight
    BY <1>2, <2>1
  <2>8. container' \in FileTasks \union {"none", "orphan"}
    BY <1>2, <2>1
  <2>9. FilesTypeOK' /\ UNCHANGED rows /\ rows' \in Nat
    BY <1>1, <1>2, <2>6, <2>7, <2>8, QuietTyped, TypeFacts
  <2>10. ContainerRuns'
    BY <1>1, <2>1, <2>6, FilesAssumption DEF ContainerRuns, Others
  <2>11. TaskOK(c)'
    BY <2>2, <2>6, <2>9, IdleOK
  <2>12. TaskOK(t)'
    <3>1. task'[t].pc = "load" /\ Alike(task'[t], task[t])
      BY <2>5, <2>6
    <3> QED
      BY <1>1, <2>9, <3>1 DEF TaskOK, Placed, Delivered, Fresh, Alike, Filled,
                              SyncPlaces, WorkPlaces
  <2>13. \A n \in Hosts : ~WorksOn(t, n) /\ ~Removed(t, n)
    BY <1>1, AwayFromWork DEF WorkPlaces
  <2>14. ASSUME NEW n \in Hosts, Removed(c, n) PROVE n \in doubt'
    BY <1>1, <2>2, <2>14 DEF Overlapped, Removed
  <2>15. Overlapped'
    <3>1. task'[c].kind = "none" /\ ~Active(c)' /\ task'[t].kind = task[t].kind
      BY <2>5, <2>6, NoTaskFacts DEF Active, Alike
    <3>2. \A u \in FileTasks : /\ Active(u)' => Active(u)
                               /\ task'[u].kind = "delete" => task[u].kind = "delete"
      BY <1>1, <2>6, <3>1 DEF Active, Others
    <3> QED
      BY <1>1, <1>2, <3>2, OverlapKeeps
  <2> DEFINE T == {t, c}
  <2>16. /\ T \in SUBSET FileTasks /\ Others(T)
         /\ \A u \in T : TaskOK(u)'
         /\ \A u \in T, n \in Hosts : WorksOn(u, n) =>
              n \in adrift' \/ nodeState[n].status \notin InFlight
         /\ \A u \in T, n \in Hosts : Removed(u, n) => n \in doubt'
    BY <2>2, <2>6, <2>7, <2>11, <2>12, <2>13, <2>14
  <2> HIDE DEF T
  <2>17. /\ UNCHANGED <<model, nodeState, rows>> /\ doubt \subseteq doubt'
    BY <1>1, <2>9
  <2>18. /\ \A u \in FileTasks \ T : Active(u) => \A n \in Hosts :
              disk[n] # "none" => disk'[n] # "none" \/ n \in doubt'
         /\ \A n \in Hosts : disk[n] # "none" /\ disk'[n] = "none" =>
              n \in doubt' \/ \E v \in T : Removed(v, n)'
    BY <1>1
  <2> QED
    BY <2>7, <2>9, <2>10, <2>15, <2>16, <2>17, <2>18, QuietKeeps
<1> QED
  BY <1>3, <1>4 DEF CancelBusyJob

LEMMA RunContainerKeeps ==
  ASSUME FilesIInv, NEW t \in FileTasks, RunContainer(t)
  PROVE  FilesIInv'
<1>1. /\ FilesTypeOK /\ TaskOK(t) /\ ContainerRuns /\ Overlapped
      /\ task[t].pc = "run" /\ Active(t)
      /\ UNCHANGED <<model, nodeState, adrift, doubt, bounds>>
  BY DEF FilesIInv, RunContainer, Active
<1>2. /\ task \in [FileTasks -> FileRecs] /\ adrift \subseteq Hosts
      /\ doubt \subseteq Hosts /\ disk \in [Hosts -> {"none", "partial", "full"}]
      /\ container \in FileTasks \union {"none", "orphan"}
  BY <1>1, TypeFacts
<1>3. /\ \A n \in Hosts : ~Removed(t, n)
  BY <1>1, AwayFromWork
<1>4. CASE container = "none"
  <2>1. /\ container' = t /\ Step(t, "running")
        /\ disk' = [disk EXCEPT ![HeadNode] = IF @ = "none" THEN "partial" ELSE @]
    BY <1>4 DEF RunContainer
  <2>2. /\ task' \in [FileTasks -> FileRecs] /\ Others({t})
        /\ task'[t].pc = "running" /\ Alike(task'[t], task[t])
    BY <1>1, <2>1, StepFacts DEF TaskPlaces
  <2>3. DiskKept
    BY <1>2, <2>1 DEF DiskKept
  <2>4. FilesTypeOK' /\ UNCHANGED rows
    BY <1>1, <1>2, <2>1, <2>2, <2>3, QuietTyped DEF DiskKept
  <2>5. ContainerRuns'
    BY <2>1, <2>2 DEF ContainerRuns
  <2>6. TaskOK(t)'
    <3>1. Placed(t)'
      BY <1>1, <2>2, <2>4 DEF TaskOK, Placed, Alike, SyncPlaces, WorkPlaces
    <3>2. Delivered(t)' /\ Fresh(t)'
      BY <1>1, <2>2 DEF TaskOK, Placed, Delivered, Fresh, Alike
    <3> QED
      BY <3>1, <3>2 DEF TaskOK
  <2>7. \A n \in Hosts : WorksOn(t, n) => WorksOn(t, n)'
    BY <1>1, <2>2 DEF WorksOn, Alike
  <2>8. Overlapped'
    <3>1. task'[t].kind = task[t].kind
      BY <2>2 DEF Alike
    <3>2. \A u \in FileTasks : /\ Active(u)' => Active(u)
                               /\ task'[u].kind = "delete" => task[u].kind = "delete"
      BY <1>1, <2>2, <3>1 DEF Active, Others
    <3> QED
      BY <1>1, <1>2, <3>2, OverlapKeeps
  <2> DEFINE T == {t}
  <2>9. /\ T \in SUBSET FileTasks /\ Others(T)
        /\ \A u \in T : TaskOK(u)'
        /\ \A u \in T, n \in Hosts : WorksOn(u, n) => WorksOn(u, n)'
        /\ \A u \in T, n \in Hosts : ~Removed(u, n)
    BY <1>3, <2>2, <2>6, <2>7
  <2> HIDE DEF T
  <2> QED
    BY <1>1, <2>3, <2>4, <2>5, <2>8, <2>9, QuietKeeps DEF DiskKept
<1>5. CASE container # "none"
  <2>1. /\ task' = [task EXCEPT ![t].pc = "over", ![t].ok = FALSE]
        /\ UNCHANGED <<container, disk>>
    BY <1>5 DEF RunContainer
  <2>2. PICK r \in {[task[t] EXCEPT !.pc = "over", !.ok = FALSE]} :
          task' = [task EXCEPT ![t] = r]
    BY <1>2, <2>1
  <2>3. /\ r \in FileRecs /\ r.pc = "over" /\ r.kind = task[t].kind /\ r.ok = FALSE
        /\ r.row = task[t].row /\ r.saw = task[t].saw /\ r.at = task[t].at
        /\ r.nodes = task[t].nodes
    <3>1. task[t] \in FileRecs /\ "over" \in TaskPlaces
      BY <1>2 DEF TaskPlaces
    <3> QED
      BY <2>2, <3>1 DEF FileRecs
  <2>4. /\ task' \in [FileTasks -> FileRecs] /\ Others({t}) /\ task'[t] = r
    BY <1>2, <2>2, <2>3 DEF Others
  <2>5. TaskOK(t)'
    BY <1>1, <2>3, <2>4
       DEF TaskOK, Placed, Delivered, Fresh, SyncPlaces, WorkPlaces, bounds
  <2>6. /\ \A n \in Hosts : WorksOn(t, n) => WorksOn(t, n)'
        /\ task'[t].kind = task[t].kind
    BY <1>1, <2>3, <2>4 DEF WorksOn
  <2> QED
    BY <1>1, <1>2, <2>1, <2>4, <2>5, <2>6, SoloMove
<1> QED
  BY <1>4, <1>5

LEMMA ContainerExitsKeeps ==
  ASSUME FilesIInv, NEW good \in BOOLEAN, ContainerExits(good)
  PROVE  FilesIInv'
<1>1. /\ FilesTypeOK /\ ContainerRuns /\ Overlapped
      /\ UNCHANGED <<model, nodeState, adrift, doubt, bounds>>
      /\ container' = "none"
      /\ disk' = [disk EXCEPT ![HeadNode] = IF good THEN "full"
                              ELSE IF @ = "none" THEN "partial" ELSE @]
  BY DEF FilesIInv, ContainerExits
<1>2. /\ task \in [FileTasks -> FileRecs] /\ adrift \subseteq Hosts
      /\ doubt \subseteq Hosts /\ disk \in [Hosts -> {"none", "partial", "full"}]
      /\ HeadNode \in Hosts
  BY <1>1, TypeFacts DEF Hosts
<1>3. DiskKept /\ disk'[HeadNode] # "none"
  BY <1>1, <1>2 DEF DiskKept
<1>4. ContainerRuns'
  BY <1>1, FilesAssumption DEF ContainerRuns
<1> DEFINE T == {container} \cap FileTasks
<1>5. /\ task' \in [FileTasks -> FileRecs] /\ Others(T)
      /\ \A c \in T : /\ c \in FileTasks /\ task[c].pc = "running" /\ TaskOK(c)
                      /\ task'[c].pc = "over"
                      /\ task'[c].kind = task[c].kind /\ task'[c].row = task[c].row
                      /\ task'[c].at = task[c].at /\ task'[c].nodes = task[c].nodes
                      /\ task'[c].saw = task[c].saw
  <2>1. CASE container \in FileTasks
    <3>1. PICK c \in FileTasks : c = container
      BY <2>1
    <3>2. task' = [task EXCEPT ![c].pc = "over", ![c].ok = @ /\ good]
      BY <2>1, <3>1 DEF ContainerExits
    <3>3. PICK k \in BOOLEAN : k = (task[c].ok /\ good)
      BY <1>2
    <3>4. PICK r \in {[task[c] EXCEPT !.pc = "over", !.ok = k]} :
            task' = [task EXCEPT ![c] = r]
      BY <1>2, <3>2, <3>3
    <3>5. /\ r \in FileRecs /\ r.pc = "over" /\ r.kind = task[c].kind
          /\ r.row = task[c].row /\ r.saw = task[c].saw /\ r.at = task[c].at
          /\ r.nodes = task[c].nodes
      <4>1. task[c] \in FileRecs /\ "over" \in TaskPlaces
        BY <1>2 DEF TaskPlaces
      <4> QED
        BY <3>4, <4>1 DEF FileRecs
    <3>6. /\ task' \in [FileTasks -> FileRecs] /\ Others({c}) /\ task'[c] = r
      BY <1>2, <3>4, <3>5 DEF Others
    <3>7. task[c].pc = "running" /\ TaskOK(c) /\ T = {c}
      BY <1>1, <2>1, <3>1 DEF ContainerRuns, FilesIInv
    <3> HIDE DEF T
    <3> QED
      BY <3>5, <3>6, <3>7
  <2>2. CASE container \notin FileTasks
    <3>1. task' = task /\ T = {}
      BY <2>2 DEF ContainerExits
    <3> QED
      BY <1>2, <3>1 DEF Others
  <2> QED
    BY <2>1, <2>2
<1>6. T \in SUBSET FileTasks
  OBVIOUS
<1> HIDE DEF T
<1>7. FilesTypeOK' /\ UNCHANGED rows
  BY <1>1, <1>2, <1>3, <1>5, QuietTyped DEF DiskKept
<1>8. ASSUME NEW c \in T
      PROVE  /\ TaskOK(c)'
             /\ \A n \in Hosts : WorksOn(c, n) => WorksOn(c, n)'
             /\ \A n \in Hosts : ~Removed(c, n)
  <2>0. /\ Placed(c) /\ task[c].pc = "running" /\ task'[c].pc = "over"
        /\ task'[c].kind = task[c].kind /\ task'[c].row = task[c].row
        /\ task'[c].at = task[c].at /\ task'[c].nodes = task[c].nodes
        /\ task'[c].saw = task[c].saw /\ rows' = rows
    BY <1>5, <1>7 DEF TaskOK
  <2>1. Placed(c)'
    BY <2>0 DEF Placed, SyncPlaces, WorkPlaces
  <2>2. Delivered(c)' /\ Fresh(c)'
    BY <1>3, <1>5 DEF TaskOK, Placed, Delivered, Fresh, Filled
  <2>3. \A n \in Hosts : ~Removed(c, n)
    BY <1>5 DEF TaskOK, Placed, Removed
  <2>4. \A n \in Hosts : WorksOn(c, n) => WorksOn(c, n)'
    BY <1>1, <1>5 DEF WorksOn
  <2> QED
    BY <2>1, <2>2, <2>3, <2>4 DEF TaskOK
<1>9. Overlapped'
  <2>1. \A u \in FileTasks : /\ Active(u)' => Active(u)
                             /\ task'[u].kind = "delete" => task[u].kind = "delete"
    BY <1>5 DEF Active, Others
  <2> QED
    BY <1>1, <1>2, <2>1, OverlapKeeps
<1> QED
  BY <1>1, <1>3, <1>4, <1>5, <1>6, <1>7, <1>8, <1>9, QuietKeeps DEF DiskKept

LEMMA RemoveFilesKeeps ==
  ASSUME FilesIInv, NEW t \in FileTasks, RemoveFiles(t)
  PROVE  FilesIInv'
<1>1. /\ FilesTypeOK /\ TaskOK(t) /\ ContainerRuns /\ Overlapped
      /\ task[t].pc = "rm" /\ task[t].kind = "delete" /\ Active(t)
      /\ UNCHANGED <<model, nodeState, container, adrift, bounds>>
  BY DEF FilesIInv, RemoveFiles, OpAt, Active
<1>2. /\ task \in [FileTasks -> FileRecs] /\ adrift \subseteq Hosts
      /\ doubt \subseteq Hosts /\ disk \in [Hosts -> {"none", "partial", "full"}]
      /\ container \in FileTasks \union {"none", "orphan"}
      /\ task[t] \in FileRecs
  BY <1>1, TypeFacts
<1>3. PICK n \in Hosts, v \in {"none", "asked"} :
        /\ disk' \in {disk, [disk EXCEPT ![n] = "none"]}
        /\ v = "none" => /\ task' = [task EXCEPT ![t].left = @ \ {n}, ![t].saw[n] = "none"]
                         /\ UNCHANGED doubt
        /\ v = "asked" => /\ task' = [task EXCEPT ![t].left = @ \ {n}, ![t].ok = FALSE]
                          /\ doubt' = IF disk' = disk THEN doubt ELSE doubt \union {n}
  <2>1. task[t].left \subseteq Hosts
    BY <1>2, RecFields
  <2> QED
    BY <2>1 DEF RemoveFiles
<1>4. /\ task' \in [FileTasks -> FileRecs] /\ Others({t})
      /\ task'[t].pc = "rm" /\ task'[t].kind = "delete"
      /\ task'[t].row = task[t].row /\ task'[t].at = task[t].at
      /\ task'[t].nodes = task[t].nodes /\ task'[t].stale = task[t].stale
      /\ \A m \in Hosts : task'[t].saw[m] =
           IF m = n /\ v = "none" THEN "none" ELSE task[t].saw[m]
  <2>1. PICK L \in SUBSET Hosts : L = task[t].left \ {n}
    BY <1>2, RecFields
  <2>2. PICK S \in [Hosts -> {"unknown", "none", "there"}] :
          S = [task[t].saw EXCEPT ![n] = "none"]
    BY <1>2, RecFields
  <2>3. \A m \in Hosts : S[m] = IF m = n THEN "none" ELSE task[t].saw[m]
    BY <1>2, <2>2, RecFields
  <2>4. CASE v = "none"
    <3>0. PICK r \in {[task[t] EXCEPT !.left = task[t].left \ {n},
                                      !.saw = [task[t].saw EXCEPT ![n] = "none"]]} :
            task' = [task EXCEPT ![t] = r]
      <4>1. task \in [FileTasks -> FileRecs]
        BY <1>2
      <4>2. task' = [task EXCEPT ![t].left = @ \ {n}, ![t].saw[n] = "none"]
        BY <1>3, <2>4
      <4> QED
        BY <4>1, <4>2
    <3>1. r = [task[t] EXCEPT !.left = L, !.saw = S]
      BY <2>1, <2>2, <3>0
    <3>2. /\ r \in FileRecs /\ r.pc = task[t].pc /\ r.kind = task[t].kind
          /\ r.row = task[t].row /\ r.at = task[t].at /\ r.nodes = task[t].nodes
          /\ r.saw = S /\ r.stale = task[t].stale
      <4>1. PICK q \in FileRecs : q = task[t]
        BY <1>2
      <4>2. r = [q EXCEPT !.left = L, !.saw = S]
        BY <3>1, <4>1
      <4>3. /\ r \in FileRecs /\ r.pc = q.pc /\ r.kind = q.kind
            /\ r.row = q.row /\ r.at = q.at /\ r.nodes = q.nodes /\ r.saw = S
            /\ r.stale = q.stale
        BY <4>2 DEF FileRecs
      <4> QED
        BY <4>1, <4>3
    <3>3. task' \in [FileTasks -> FileRecs] /\ Others({t}) /\ task'[t] = r
      BY <1>2, <3>0, <3>2 DEF Others
    <3> QED
      BY <1>1, <2>3, <2>4, <3>2, <3>3
  <2>5. CASE v = "asked"
    <3>1. PICK r \in {[task[t] EXCEPT !.left = L, !.ok = FALSE]} :
            task' = [task EXCEPT ![t] = r]
      BY <1>2, <1>3, <2>1, <2>5
    <3>2. /\ r \in FileRecs /\ r.pc = task[t].pc /\ r.kind = task[t].kind
          /\ r.row = task[t].row /\ r.at = task[t].at /\ r.nodes = task[t].nodes
          /\ r.saw = task[t].saw /\ r.stale = task[t].stale
      <4>1. PICK q \in FileRecs : q = task[t]
        BY <1>2
      <4>2. r = [q EXCEPT !.left = L, !.ok = FALSE]
        BY <3>1, <4>1
      <4>3. /\ r \in FileRecs /\ r.pc = q.pc /\ r.kind = q.kind
            /\ r.row = q.row /\ r.at = q.at /\ r.nodes = q.nodes /\ r.saw = q.saw
            /\ r.stale = q.stale
        BY <4>2 DEF FileRecs
      <4> QED
        BY <4>1, <4>3
    <3>3. task' \in [FileTasks -> FileRecs] /\ Others({t}) /\ task'[t] = r
      BY <1>2, <3>1, <3>2 DEF Others
    <3> QED
      BY <1>1, <2>5, <3>2, <3>3
  <2> QED
    BY <2>4, <2>5
<1>5. /\ doubt \subseteq doubt' /\ doubt' \subseteq Hosts
      /\ disk' \in [Hosts -> {"none", "partial", "full"}]
  BY <1>2, <1>3
<1>6. FilesTypeOK' /\ UNCHANGED rows
  BY <1>1, <1>2, <1>4, <1>5, QuietTyped
<1>7. ContainerRuns'
  BY <1>1, <1>4 DEF ContainerRuns, Others
<1>8. Overlapped'
  <2>1. \A u \in FileTasks : /\ Active(u)' => Active(u)
                             /\ task'[u].kind = "delete" => task[u].kind = "delete"
    BY <1>1, <1>4 DEF Active, Others
  <2> QED
    BY <1>1, <1>5, <2>1, OverlapKeeps
<1>9. TaskOK(t)'
  <2>1. Placed(t)'
    BY <1>1, <1>4, <1>6 DEF TaskOK, Placed, SyncPlaces, WorkPlaces
  <2>2. Delivered(t)'
    BY <1>1, <1>4 DEF TaskOK, Placed, Delivered
  <2>3. Fresh(t)'
    BY <1>1, <1>4, <1>5 DEF TaskOK, Fresh
  <2> QED
    BY <2>1, <2>2, <2>3 DEF TaskOK
<1>10. \A m \in Hosts : /\ ~WorksOn(t, m)
                        /\ Removed(t, m) => Removed(t, m)'
  BY <1>1, <1>4, AwayFromWork DEF WorkPlaces, Removed
<1>11. ASSUME NEW u \in FileTasks \ {t}, Active(u), NEW m \in Hosts PROVE m \in doubt'
  BY <1>1, <1>5, <1>11 DEF Overlapped
<1>12. ASSUME NEW m \in Hosts, disk[m] # "none", disk'[m] = "none"
       PROVE  m \in doubt' \/ Removed(t, m)'
  <2>1. m = n /\ disk' # disk
    BY <1>2, <1>3, <1>12
  <2> QED
    BY <1>3, <1>4, <2>1 DEF Removed
<1> DEFINE T == {t}
<1>13. /\ T \in SUBSET FileTasks /\ Others(T)
       /\ \A u \in T : TaskOK(u)'
       /\ \A u \in T, m \in Hosts : ~WorksOn(u, m)
       /\ \A u \in T, m \in Hosts : Removed(u, m) => Removed(u, m)'
       /\ \A u \in FileTasks \ T : Active(u) => \A m \in Hosts : m \in doubt'
       /\ \A m \in Hosts : disk[m] # "none" /\ disk'[m] = "none" =>
            m \in doubt' \/ \E u \in T : Removed(u, m)'
  BY <1>4, <1>9, <1>10, <1>11, <1>12
<1> HIDE DEF T
<1> QED
  BY <1>1, <1>5, <1>6, <1>7, <1>8, <1>13, QuietKeeps

-----------------------------------------------------------------------------
LEMMA RequestKeeps ==
  ASSUME FilesIInv, NEW t \in FileTasks, NEW kind \in TaskKinds \ {"none"},
         Request(t, kind)
  PROVE  FilesIInv'
<1>1. /\ FilesTypeOK /\ TaskOK(t) /\ ContainerRuns /\ Overlapped /\ RowsKnown
      /\ task[t].pc = "idle" /\ ops < MaxOps /\ ops' = ops + 1
      /\ UNCHANGED <<model, nodeState, disk, container, adrift, rows, cuts>>
  BY DEF FilesIInv, Request, Active
<1>2. /\ task \in [FileTasks -> FileRecs] /\ doubt \subseteq Hosts /\ rows \in Nat
      /\ model.id \in 0..MaxRows
  BY <1>1, TypeFacts
<1>3. PICK d \in BOOLEAN, left \in SUBSET Hosts :
        task' = [task EXCEPT ![t] = [NoTask EXCEPT !.kind = kind,
            !.pc = CASE kind = "refresh" -> "load" [] kind = "scan" -> "look"
                     [] OTHER -> "asked",
            !.row = model.id, !.drop = d, !.left = left]]
  BY DEF Request
<1>4. PICK p \in {"load", "look", "asked"} :
        /\ p = (CASE kind = "refresh" -> "load" [] kind = "scan" -> "look"
                  [] OTHER -> "asked")
        /\ kind = "delete" => p = "asked"
  OBVIOUS
<1>5. PICK i \in 0..MaxRows : i = model.id
  BY <1>2
<1>6. PICK r \in {[NoTask EXCEPT !.kind = kind, !.pc = p, !.row = i, !.drop = d,
                                 !.left = left]} : task' = [task EXCEPT ![t] = r]
  BY <1>3, <1>4, <1>5
<1>7. /\ r \in FileRecs /\ r.pc = p /\ r.kind = kind /\ r.row = i
      /\ r.at = NoTask.at /\ r.saw = NoTask.saw
  <2>1. PICK q \in FileRecs : q = NoTask
    BY NoTaskFacts
  <2>2. r = [q EXCEPT !.kind = kind, !.pc = p, !.row = i, !.drop = d, !.left = left]
    BY <1>6, <2>1
  <2>3. p \in TaskPlaces
    BY DEF TaskPlaces
  <2>4. /\ r \in FileRecs /\ r.pc = p /\ r.kind = kind /\ r.row = i
        /\ r.at = q.at /\ r.saw = q.saw
    BY <2>2, <2>3 DEF FileRecs
  <2> QED
    BY <2>1, <2>4
<1>8. /\ task' \in [FileTasks -> FileRecs] /\ Others({t}) /\ task'[t] = r
  BY <1>2, <1>6, <1>7 DEF Others
<1>9. doubt' = IF \E u \in FileTasks : \/ task[u].kind = "delete"
                                       \/ Active(u) /\ kind = "delete"
               THEN Hosts ELSE doubt
  BY DEF Request
<1>10. doubt \subseteq doubt' /\ doubt' \subseteq Hosts
  BY <1>2, <1>9
<1>11. FilesTypeOK'
  <2>1. ops' \in 0..MaxOps
    BY <1>1, FilesBounds DEF FilesTypeOK
  <2> QED
    BY <1>1, <1>8, <1>10, <2>1 DEF FilesTypeOK, FileRecs
<1>12. ContainerRuns'
  BY <1>1, <1>8 DEF ContainerRuns, Others
<1>13. TaskOK(t)'
  <2>1. r.row <= rows /\ rows' = rows
    BY <1>1, <1>5, <1>7 DEF RowsKnown
  <2>2. r.at = HeadNode /\ \A n \in Hosts : r.saw[n] = "unknown"
    BY <1>7, NoTaskFacts
  <2>3. r.pc \in {"load", "look", "asked"} /\ (r.kind = "delete" => r.pc = "asked")
    BY <1>4, <1>7
  <2>4. Placed(t)'
    BY <1>8, <2>1, <2>2, <2>3 DEF Placed, SyncPlaces, WorkPlaces
  <2>5. Delivered(t)'
    BY <1>8, <2>2, <2>3 DEF Delivered
  <2>6. Fresh(t)'
    BY <1>8, <2>3 DEF Fresh
  <2> QED
    BY <2>4, <2>5, <2>6 DEF TaskOK
<1>14. Overlapped'
  <2>1. CASE doubt' = Hosts
    BY <2>1 DEF Overlapped
  <2>2. CASE doubt' # Hosts
    <3>1. \A u \in FileTasks : task[u].kind # "delete" /\ ~(Active(u) /\ kind = "delete")
      BY <1>9, <2>2
    <3>2. \A u \in FileTasks : u # t => task'[u] = task[u]
      BY <1>8 DEF Others
    <3>3. task'[t].kind = kind
      BY <1>7, <1>8
    <3> SUFFICES ASSUME NEW u \in FileTasks, NEW v \in FileTasks,
                        task'[u].kind = "delete", Active(v)'
                 PROVE  u = v
      BY DEF Overlapped
    <3>4. u = t /\ kind = "delete"
      BY <3>1, <3>2, <3>3
    <3>5. v = t
      BY <3>1, <3>2, <3>4 DEF Active
    <3> QED
      BY <3>4, <3>5
  <2> QED
    BY <2>1, <2>2
<1>15. \A n \in Hosts : ~WorksOn(t, n) /\ ~Removed(t, n)
  BY <1>1, AwayFromWork DEF WorkPlaces
<1> DEFINE T == {t}
<1>16. /\ T \in SUBSET FileTasks /\ Others(T)
       /\ \A u \in T : TaskOK(u)'
       /\ \A u \in T, n \in Hosts : ~WorksOn(u, n) /\ ~Removed(u, n)
  BY <1>8, <1>13, <1>15
<1> HIDE DEF T
<1> QED
  BY <1>1, <1>10, <1>11, <1>12, <1>14, <1>16, QuietKeeps

LEMMA RestartedKeeps ==
  ASSUME FilesIInv, Restarted
  PROVE  FilesIInv'
<1>1. /\ FilesTypeOK /\ Overlapped
      /\ cuts < MaxCuts /\ cuts' = cuts + 1
      /\ UNCHANGED <<model, nodeState, disk, rows, ops>>
      /\ container' = IF container = "none" THEN "none" ELSE "orphan"
      /\ adrift' = adrift \union {n \in Hosts :
           nodeState[n].status \in InFlight /\ \E t \in FileTasks : WorksOn(t, n)}
      /\ doubt' = doubt \union {n \in Hosts : \E t \in FileTasks : Removed(t, n)}
  BY DEF FilesIInv, Restarted
<1>2. /\ doubt \subseteq Hosts /\ rows \in Nat /\ adrift \subseteq Hosts
  BY <1>1, TypeFacts
<1>3. \A t \in FileTasks : task'[t] = NoTask
  BY DEF Restarted
<1>4. task' \in [FileTasks -> FileRecs]
  BY NoTaskFacts DEF Restarted
<1>5. FilesTypeOK'
  <2>1. cuts' \in 0..MaxCuts
    BY <1>1, FilesBounds DEF FilesTypeOK
  <2>2. adrift' \subseteq Hosts /\ doubt' \subseteq Hosts
    BY <1>1, <1>2
  <2>3. container' \in FileTasks \union {"none", "orphan"}
    BY <1>1
  <2> QED
    BY <1>1, <1>4, <2>1, <2>2, <2>3 DEF FilesTypeOK, FileRecs
<1>6. ContainerRuns'
  BY <1>1, FilesAssumption DEF ContainerRuns
<1>7. Overlapped'
  BY <1>3, NoTaskFacts DEF Overlapped, Active
<1>8. \A t \in FileTasks : TaskOK(t)'
  <2> SUFFICES ASSUME NEW t \in FileTasks PROVE TaskOK(t)'
    OBVIOUS
  <2>1. task'[t] = NoTask /\ rows' \in Nat
    BY <1>1, <1>2, <1>3
  <2> QED
    BY <2>1, IdleOK
<1>9. /\ \A t \in FileTasks, n \in Hosts : WorksOn(t, n) =>
           n \in adrift' \/ nodeState[n].status \notin InFlight
      /\ \A t \in FileTasks, n \in Hosts : Removed(t, n) => n \in doubt'
      /\ doubt \subseteq doubt' /\ adrift \subseteq adrift'
  BY <1>1
<1> DEFINE T == FileTasks
<1>10. T \in SUBSET FileTasks /\ Others(T) /\ FileTasks \ T = {}
  BY DEF Others
<1>11. \A t \in T : t \in FileTasks
  OBVIOUS
<1> HIDE DEF T
<1> QED
  BY <1>1, <1>5, <1>6, <1>7, <1>8, <1>9, <1>10, <1>11, QuietKeeps

-----------------------------------------------------------------------------
LEMMA FilesBegin == FilesInit => FilesIInv
<1> SUFFICES ASSUME FilesInit PROVE FilesIInv
  OBVIOUS
<1>1. /\ model = [id |-> 1, status |-> "absent"] /\ nodeState = NoCopies
      /\ disk \in [Hosts -> {"none", "full"}] /\ container = "none"
      /\ task = [t \in FileTasks |-> NoTask]
      /\ adrift = {} /\ doubt = {} /\ rows = 1 /\ ops = 0 /\ cuts = 0
  BY DEF FilesInit
<1>2. task \in [FileTasks -> FileRecs] /\ \A t \in FileTasks : task[t] = NoTask
  BY <1>1, NoTaskFacts
<1>3. NoCopies \in [Hosts -> NodeRows]
  BY DEF NoCopies, Absent, NodeRows, ModelStatuses
<1>4. FilesTypeOK
  <2>1. model \in [id : 0..MaxRows, status : ModelStatuses] /\ rows \in 0..MaxRows
    <3>1. 1 \in 0..MaxRows
      BY FilesBounds
    <3>2. "absent" \in ModelStatuses
      BY DEF ModelStatuses
    <3> QED
      BY <1>1, <3>1, <3>2
  <2>2. ops \in 0..MaxOps /\ cuts \in 0..MaxCuts
    BY <1>1, FilesBounds
  <2>3. disk \in [Hosts -> {"none", "partial", "full"}]
    BY <1>1
  <2> QED
    BY <1>1, <1>2, <1>3, <2>1, <2>2, <2>3 DEF FilesTypeOK, FileRecs
<1>5. /\ ContainerRuns /\ RowsKnown
  BY <1>1, FilesAssumption DEF ContainerRuns, RowsKnown
<1>6. Overlapped
  BY <1>2, NoTaskFacts DEF Overlapped, Active
<1>7. \A t \in FileTasks : TaskOK(t)
  <2> SUFFICES ASSUME NEW t \in FileTasks PROVE TaskOK(t)
    OBVIOUS
  <2>1. task[t] = NoTask /\ rows = 1
    BY <1>1, <1>2
  <2> QED
    BY <2>1, NoTaskFacts DEF TaskOK, Placed, Delivered, Fresh, WorkPlaces
<1>8. InFlightHasCause /\ PresentIsThere
  BY <1>1, StatusFacts DEF InFlightHasCause, PresentIsThere, NoCopies, Absent
<1> QED
  BY <1>4, <1>5, <1>6, <1>7, <1>8 DEF FilesIInv

LEMMA FilesStutter == FilesIInv /\ UNCHANGED filesVars => FilesIInv'
<1> SUFFICES ASSUME FilesIInv, UNCHANGED filesVars PROVE FilesIInv'
  OBVIOUS
<1>1. UNCHANGED <<model, nodeState, disk, container, task, adrift, doubt,
                  rows, ops, cuts>>
  BY DEF filesVars
<1>2. FilesTypeOK'
  BY <1>1 DEF FilesIInv, FilesTypeOK
<1>3. ContainerRuns' /\ RowsKnown' /\ Overlapped'
  BY <1>1 DEF FilesIInv, ContainerRuns, RowsKnown, Overlapped, Active
<1>4. ASSUME NEW t \in FileTasks PROVE TaskOK(t)'
  <2>1. TaskOK(t)
    BY DEF FilesIInv
  <2>2. Placed(t)'
    BY <1>1, <2>1 DEF TaskOK, Placed
  <2>3. Delivered(t)' /\ Fresh(t)'
    BY <1>1, <2>1 DEF TaskOK, Delivered, Fresh, Filled
  <2> QED
    BY <2>2, <2>3 DEF TaskOK
<1>5. InFlightHasCause' /\ PresentIsThere'
  BY <1>1 DEF FilesIInv, InFlightHasCause, PresentIsThere, WorksOn, Removed
<1> QED
  BY <1>2, <1>3, <1>4, <1>5 DEF FilesIInv

LEMMA FilesStep == FilesIInv /\ [FilesNext]_filesVars => FilesIInv'
<1> SUFFICES ASSUME FilesIInv, [FilesNext]_filesVars PROVE FilesIInv'
  OBVIOUS
<1>1. ASSUME NEW t \in FileTasks, NEW kind \in TaskKinds \ {"none"}, Request(t, kind)
      PROVE  FilesIInv'
  BY <1>1, RequestKeeps
<1>2. ASSUME NEW t \in FileTasks,
             StartJob(t) \/ CancelBusyJob(t) \/ LoadModel(t) \/ CommitRaises(t)
      PROVE  FilesIInv'
  BY <1>2, StartJobKeeps, CancelBusyJobKeeps, LoadModelKeeps, CommitRaisesKeeps
<1>3. ASSUME NEW t \in FileTasks,
             \/ MarkDownloading(t) \/ ReapFirst(t) \/ RunContainer(t) \/ Stalls(t)
             \/ ConnectionLost(t) \/ DownloadOver(t)
      PROVE  FilesIInv'
  BY <1>3, MarkDownloadingKeeps, ReapFirstKeeps, RunContainerKeeps, StallsKeeps,
     ConnectionLostKeeps, DownloadOverKeeps
<1>4. ASSUME NEW t \in FileTasks,
             \/ SyncNext(t) \/ MarkSyncing(t) \/ Rsync(t) \/ Verify(t) \/ SyncRaises(t)
             \/ SyncFailed(t)
      PROVE  FilesIInv'
  BY <1>4, SyncNextKeeps, MarkSyncingKeeps, RsyncKeeps, VerifyKeeps, SyncRaisesKeeps,
     SyncFailedKeeps
<1>5. ASSUME NEW t \in FileTasks,
             \/ StopReaps(t) \/ StopResets(t) \/ RemoveFiles(t) \/ DeleteOver(t)
             \/ Import(t) \/ Probe(t) \/ WritePresence(t)
      PROVE  FilesIInv'
  BY <1>5, StopReapsKeeps, StopResetsKeeps, RemoveFilesKeeps, DeleteOverKeeps,
     ImportKeeps, ProbeKeeps, WritePresenceKeeps
<1>6. ASSUME NEW good \in BOOLEAN, ContainerExits(good) PROVE FilesIInv'
  BY <1>6, ContainerExitsKeeps
<1>7. CASE RemoveRegistry \/ AddModel \/ OtherModelCommits \/ Restarted
  BY <1>7, RemoveRegistryKeeps, AddModelKeeps, OtherModelCommitsKeeps, RestartedKeeps
<1>8. CASE UNCHANGED filesVars
  BY <1>8, FilesStutter
<1>9. CASE FilesNext
  BY <1>1, <1>2, <1>3, <1>4, <1>5, <1>6, <1>7, <1>9 DEF FilesNext
<1> QED
  BY <1>8, <1>9

(* However downloads, syncs, deletes, Stops, refreshes, scans and restarts  *)
(* interleave, and whatever they lose: a node that says it is in flight has *)
(* a task at work on it or one that was cut off there, and a node that says *)
(* it is present has the files unless a delete is between its removals and  *)
(* its commit, or was overlapped; but for the commits of jobs whose row was *)
(* removed under them, whose ids these rows took                            *)
(* (services/models_svc.py:371-800, routers/models.py:229-235).             *)
THEOREM FilesAreKept == FilesSpec => []FilesInv
<1>1. FilesSpec => []FilesIInv
  BY FilesBegin, FilesStep, PTL DEF FilesSpec
<1>2. FilesIInv => FilesInv
  BY DEF FilesIInv, FilesInv
<1> QED
  BY <1>1, <1>2, PTL
-----------------------------------------------------------------------------
(* A cluster job as a record.                                               *)
ClusterJobRecs ==
  [todo : Seq(ClusterStep), cfg : Images \union {NoImage}, flag : BOOLEAN,
   listed : BOOLEAN]

(* The order of steps in every kind of job.                                 *)
Rank(do) ==
  CASE do \in Early               -> 0
    [] do = "pull"                -> 1
    [] do = "record"              -> 2
    [] do \in {"ray", "stop ray"} -> 3
    [] do = "wait"                -> 4
    [] do = "list"                -> 5
    [] OTHER                      -> 6

Sorted(s) ==
  \A k, m \in 1..Len(s) : k < m =>
    Rank(s[k].do) < Rank(s[m].do) \/ (s[k].do = s[m].do /\ Rank(s[k].do) \in {0, 1, 3})

Has(s, do) == \E k \in 1..Len(s) : s[k].do = do

(* A teardown stops Ray node by node and then, last of all, forgets.        *)
TearShape(s) ==
  Has(s, "stop ray") \/ Has(s, "forget") =>
    \A k \in 1..Len(s) : s[k].do = IF k = Len(s) THEN "forget" ELSE "stop ray"

(* The instances are rolled last of all, after they were listed.            *)
RollShape(s) == Has(s, "roll") /\ Len(s) > 1 => Has(s, "list")

Ordered(s) == Sorted(s) /\ TearShape(s) /\ RollShape(s)

RayTo(s, n) == \E k \in 1..Len(s) : s[k].do = "ray" /\ s[k].node = n

(* Ray is behind it.                                                        *)
Late(s) == \A k \in 1..Len(s) : Rank(s[k].do) > 4

JobsShape ==
  /\ cjob \in [ClusterJobs -> ClusterJobRecs]
  /\ \A j \in ClusterJobs : Ordered(cjob[j].todo) /\ (Busy(j) => cjob[j].cfg \in Images)

PartsShape ==
  /\ image \in Images /\ complete \in BOOLEAN /\ begun \in 0..MaxJobs
  /\ ray \in [ClusterNodes -> Images \union {NoImage}]
  /\ unstarted \subseteq 0..NumNodes /\ kept \subseteq Keepings
  /\ serving \in Images \union {NoImage}
  /\ instStatus \in {"stopped", "active", "error"} /\ launch \in Images \union {NoImage}
  /\ settled \subseteq {"ray", "instances"} /\ disturbed \in BOOLEAN

ClusterShape == PartsShape /\ JobsShape

(* What a job that nothing disturbed still has to do makes up for what it   *)
(* has not done yet.                                                        *)
FlagHolds(j) ==
  Has(cjob[j].todo, "verify") \/ Has(cjob[j].todo, "forget") => cjob[j].flag = complete
RayReaches(j) ==
  Has(cjob[j].todo, "wait") =>
    \A n \in ClusterNodes :
      ray[n] = cjob[j].cfg \/ n \in unstarted \/ RayTo(cjob[j].todo, n)
ImageReaches(j) ==
  Has(cjob[j].todo, "wait") \/ Has(cjob[j].todo, "roll") =>
    Has(cjob[j].todo, "record") \/ image = cjob[j].cfg
NothingFormer(j) ==
  Has(cjob[j].todo, "roll") /\ ~Has(cjob[j].todo, "list") /\ ~cjob[j].listed => ServesRecorded
RayStarted(j)  == Busy(j) /\ "ray" \in settled => Late(cjob[j].todo)
RollsAtEnd(j)  == Busy(j) => "instances" \notin settled

Makes(j) ==
  /\ FlagHolds(j) /\ RayReaches(j) /\ ImageReaches(j) /\ NothingFormer(j)
  /\ RayStarted(j) /\ RollsAtEnd(j)

AloneAtWork == \A j, k \in ClusterJobs : Busy(j) /\ Busy(k) => j = k
CompleteIsFormed ==
  complete => RayUp \/ \E j \in ClusterJobs : Has(cjob[j].todo, "forget")
RaySettled ==
  "ray" \in settled => \A n \in ClusterNodes : ray[n] = image \/ n \in unstarted
InstancesSettled == "instances" \in settled => ServesRecorded

Calm ==
  /\ AloneAtWork /\ CompleteIsFormed /\ RaySettled /\ InstancesSettled
  /\ \A j \in ClusterJobs : Makes(j)

ClusterIInv == ClusterShape /\ (~disturbed => Calm)

-----------------------------------------------------------------------------
LEMMA TailFacts ==
  ASSUME NEW s \in Seq(ClusterStep), s # <<>>
  PROVE  /\ Tail(s) \in Seq(ClusterStep) /\ Len(Tail(s)) = Len(s) - 1
         /\ Len(s) \in Nat /\ Len(s) >= 1 /\ Head(s) = s[1] /\ s[1] \in ClusterStep
         /\ \A k \in 1..(Len(s) - 1) : Tail(s)[k] = s[k + 1]
BY HeadTailProperties

LEMMA StepFields ==
  ASSUME NEW e \in ClusterStep
  PROVE  /\ e.node \in 0..NumNodes
         /\ e.do \in Early \union {"pull", "ray", "verify", "record", "wait", "list",
                                   "roll", "stop ray", "forget"}
BY DEF ClusterStep

LEMMA Ranks ==
  /\ \A e \in ClusterStep : Rank(e.do) \in 0..6
  /\ \A do \in Early : Rank(do) = 0
  /\ Rank("pull") = 1 /\ Rank("record") = 2 /\ Rank("ray") = 3 /\ Rank("stop ray") = 3
  /\ Rank("wait") = 4 /\ Rank("list") = 5
  /\ Rank("roll") = 6 /\ Rank("verify") = 6 /\ Rank("forget") = 6
<1>1. \A do \in Early : Rank(do) = 0
  <2> SUFFICES ASSUME NEW do \in Early PROVE Rank(do) = 0
    OBVIOUS
  <2>1. do \notin {"pull", "ray", "record", "wait", "list", "stop ray"}
    BY ClusterAssumption
  <2> QED
    BY <2>1 DEF Rank
<1>2. \A do \in {"pull", "record", "ray", "stop ray", "wait", "list", "roll", "verify",
                 "forget"} : do \notin Early
  BY ClusterAssumption
<1>3. /\ Rank("pull") = 1 /\ Rank("record") = 2 /\ Rank("ray") = 3
      /\ Rank("stop ray") = 3 /\ Rank("wait") = 4 /\ Rank("list") = 5
      /\ Rank("roll") = 6 /\ Rank("verify") = 6 /\ Rank("forget") = 6
  <2>1. Rank("pull") = 1 /\ Rank("record") = 2 /\ Rank("ray") = 3
    BY <1>2 DEF Rank
  <2>2. Rank("stop ray") = 3 /\ Rank("wait") = 4 /\ Rank("list") = 5
    BY <1>2 DEF Rank
  <2>3. Rank("roll") = 6 /\ Rank("verify") = 6 /\ Rank("forget") = 6
    BY <1>2 DEF Rank
  <2> QED
    BY <2>1, <2>2, <2>3
<1>4. ASSUME NEW e \in ClusterStep PROVE Rank(e.do) \in 0..6
  <2>1. e.do \in Early \union {"pull", "ray", "verify", "record", "wait", "list",
                               "roll", "stop ray", "forget"}
    BY StepFields
  <2>2. PICK do : do = e.do
    OBVIOUS
  <2>3. do \in Early => Rank(do) = 0
    BY <1>1
  <2>4. do \notin Early => Rank(do) \in 1..6
    <3>1. ASSUME do \notin Early
          PROVE  \/ do = "pull" \/ do = "ray" \/ do = "verify" \/ do = "record" \/ do = "wait"
                 \/ do = "list" \/ do = "roll" \/ do = "stop ray" \/ do = "forget"
      BY <2>1, <2>2, <3>1
    <3>2. ASSUME do \notin Early PROVE Rank(do) \in {1, 2, 3, 4, 5, 6}
      <4>1. do = "pull" => Rank(do) = 1
        BY <1>3
      <4>2. do = "record" => Rank(do) = 2
        BY <1>3
      <4>3. do = "ray" \/ do = "stop ray" => Rank(do) = 3
        BY <1>3
      <4>4. do = "wait" => Rank(do) = 4
        BY <1>3
      <4>5. do = "list" => Rank(do) = 5
        BY <1>3
      <4>6. do = "roll" \/ do = "verify" \/ do = "forget" => Rank(do) = 6
        BY <1>3
      <4> QED
        BY <3>1, <3>2, <4>1, <4>2, <4>3, <4>4, <4>5, <4>6
    <3>3. {1, 2, 3, 4, 5, 6} \subseteq 1..6
      OBVIOUS
    <3> QED
      BY <3>2, <3>3
  <2> QED
    BY <2>2, <2>3, <2>4
<1> QED
  BY <1>1, <1>3, <1>4

(* What the rest of a job has of what the job had.                          *)
LEMMA TailHas ==
  ASSUME NEW s \in Seq(ClusterStep), s # <<>>, NEW do
  PROVE  /\ Has(Tail(s), do) => Has(s, do)
         /\ Has(s, do) /\ Head(s).do # do => Has(Tail(s), do)
<1>1. /\ Len(Tail(s)) = Len(s) - 1 /\ Len(s) \in Nat /\ Head(s) = s[1] /\ Len(s) >= 1
      /\ \A k \in 1..(Len(s) - 1) : Tail(s)[k] = s[k + 1]
  BY TailFacts
<1>2. ASSUME Has(Tail(s), do) PROVE Has(s, do)
  <2>1. PICK k \in 1..(Len(s) - 1) : Tail(s)[k].do = do
    BY <1>1, <1>2 DEF Has
  <2>2. k + 1 \in 1..Len(s) /\ s[k + 1].do = do
    BY <1>1, <2>1
  <2> QED
    BY <2>2 DEF Has
<1>3. ASSUME Has(s, do), Head(s).do # do PROVE Has(Tail(s), do)
  <2>1. PICK k \in 1..Len(s) : s[k].do = do
    BY <1>3 DEF Has
  <2>2. k # 1
    BY <1>1, <1>3, <2>1
  <2>3. PICK m \in 1..(Len(s) - 1) : k = m + 1
    <3>1. k - 1 \in 1..(Len(s) - 1) /\ k = (k - 1) + 1
      BY <1>1, <2>2
    <3> QED
      BY <3>1
  <2> QED
    BY <1>1, <2>1, <2>3 DEF Has
<1> QED
  BY <1>2, <1>3

LEMMA TailRayTo ==
  ASSUME NEW s \in Seq(ClusterStep), s # <<>>, NEW n
  PROVE  RayTo(s, n) /\ ~(Head(s).do = "ray" /\ Head(s).node = n) => RayTo(Tail(s), n)
<1> SUFFICES ASSUME RayTo(s, n), ~(Head(s).do = "ray" /\ Head(s).node = n)
             PROVE  RayTo(Tail(s), n)
  OBVIOUS
<1>1. /\ Len(Tail(s)) = Len(s) - 1 /\ Len(s) \in Nat /\ Head(s) = s[1] /\ Len(s) >= 1
      /\ \A k \in 1..(Len(s) - 1) : Tail(s)[k] = s[k + 1]
  BY TailFacts
<1>2. PICK k \in 1..Len(s) : s[k].do = "ray" /\ s[k].node = n
  BY DEF RayTo
<1>3. k # 1
  BY <1>1, <1>2
<1>4. PICK m \in 1..(Len(s) - 1) : k = m + 1
  <2>1. k - 1 \in 1..(Len(s) - 1) /\ k = (k - 1) + 1
    BY <1>1, <1>3
  <2> QED
    BY <2>1
<1> QED
  BY <1>1, <1>2, <1>4 DEF RayTo

(* What is left ranks after the head.                                       *)
LEMMA TailRanks ==
  ASSUME NEW s \in Seq(ClusterStep), s # <<>>, Sorted(s)
  PROVE  \A k \in 1..Len(Tail(s)) :
           \/ Rank(Head(s).do) < Rank(Tail(s)[k].do)
           \/ Tail(s)[k].do = Head(s).do /\ Rank(Head(s).do) \in {0, 1, 3}
<1>1. /\ Len(Tail(s)) = Len(s) - 1 /\ Len(s) \in Nat /\ Head(s) = s[1] /\ Len(s) >= 1
      /\ \A k \in 1..(Len(s) - 1) : Tail(s)[k] = s[k + 1]
  BY TailFacts
<1> SUFFICES ASSUME NEW k \in 1..(Len(s) - 1)
             PROVE  \/ Rank(s[1].do) < Rank(s[k + 1].do)
                    \/ s[k + 1].do = s[1].do /\ Rank(s[1].do) \in {0, 1, 3}
  BY <1>1
<1>2. 1 \in 1..Len(s) /\ k + 1 \in 1..Len(s) /\ 1 < k + 1
  BY <1>1
<1> QED
  BY <1>2 DEF Sorted

LEMMA OneOn ==
  ASSUME NEW m \in Nat, NEW k \in 1..(m - 1)
  PROVE  k + 1 \in 1..m /\ (k = m - 1 => k + 1 = m) /\ (k # m - 1 => k + 1 # m)
OBVIOUS

LEMMA FirstAndLast ==
  ASSUME NEW m \in Nat, m >= 1 PROVE m \in 1..m /\ 1 \in 1..m
OBVIOUS

LEMMA TailOrdered ==
  ASSUME NEW s \in Seq(ClusterStep), s # <<>>, Ordered(s)
  PROVE  Ordered(Tail(s))
<1>1. /\ Len(Tail(s)) = Len(s) - 1 /\ Len(s) \in Nat /\ Head(s) = s[1] /\ Len(s) >= 1
      /\ \A k \in 1..(Len(s) - 1) : Tail(s)[k] = s[k + 1]
      /\ Tail(s) \in Seq(ClusterStep)
  BY TailFacts
<1>2. Sorted(Tail(s))
  <2> SUFFICES ASSUME NEW k \in 1..(Len(s) - 1), NEW m \in 1..(Len(s) - 1), k < m
               PROVE  \/ Rank(s[k + 1].do) < Rank(s[m + 1].do)
                      \/ s[k + 1].do = s[m + 1].do /\ Rank(s[k + 1].do) \in {0, 1, 3}
    BY <1>1 DEF Sorted
  <2>1. k + 1 \in 1..Len(s) /\ m + 1 \in 1..Len(s) /\ k + 1 < m + 1
    BY <1>1
  <2> QED
    BY <2>1 DEF Ordered, Sorted
<1>3. TearShape(Tail(s))
  <2> SUFFICES ASSUME Has(Tail(s), "stop ray") \/ Has(Tail(s), "forget"),
                      NEW k \in 1..(Len(s) - 1)
               PROVE  s[k + 1].do = IF k = Len(s) - 1 THEN "forget" ELSE "stop ray"
    BY <1>1 DEF TearShape
  <2>1. Has(s, "stop ray") \/ Has(s, "forget")
    BY TailHas
  <2>2. Len(s) \in Nat
    BY <1>1
  <2>3. PICK m \in Nat : m = Len(s)
    BY <2>2
  <2>4. k \in 1..(m - 1)
    BY <2>3
  <2>5. k + 1 \in 1..m /\ (k = m - 1 => k + 1 = m) /\ (k # m - 1 => k + 1 # m)
    BY <2>4, OneOn
  <2>6. \A i \in 1..m : s[i].do = IF i = m THEN "forget" ELSE "stop ray"
    BY <2>1, <2>3 DEF Ordered, TearShape
  <2>7. s[k + 1].do = IF k + 1 = m THEN "forget" ELSE "stop ray"
    BY <2>5, <2>6
  <2>8. k = Len(s) - 1 <=> k = m - 1
    BY <2>3
  <2> QED
    BY <2>5, <2>7, <2>8 DEF Ordered, TearShape
<1>4. RollShape(Tail(s))
  <2> SUFFICES ASSUME Has(Tail(s), "roll"), Len(s) - 1 > 1 PROVE Has(Tail(s), "list")
    BY <1>1 DEF RollShape
  <2>1. Has(s, "list")
    BY <1>1, TailHas DEF Ordered, RollShape
  <2>2. Head(s).do # "list"
    <3> SUFFICES ASSUME Head(s).do = "list" PROVE FALSE
      OBVIOUS
    <3>0. Rank(Head(s).do) = 5 /\ Sorted(s)
      BY Ranks DEF Ordered
    <3>1. \A k \in 1..Len(Tail(s)) : 5 < Rank(Tail(s)[k].do)
      BY <3>0, TailRanks
    <3>2. 1 \in 1..(Len(s) - 1) /\ 2 \in 1..(Len(s) - 1) /\ 1 < 2
      BY <1>1
    <3>3. PICK a \in ClusterStep, b \in ClusterStep : a = Tail(s)[1] /\ b = Tail(s)[2]
      BY <1>1, <3>2
    <3>4. 5 < Rank(a.do) /\ 5 < Rank(b.do)
      BY <1>1, <3>1, <3>2, <3>3
    <3>5. Rank(a.do) \in 0..6 /\ Rank(b.do) \in 0..6
      BY Ranks
    <3>6. Rank(a.do) < Rank(b.do) \/ Rank(a.do) \in {0, 1, 3}
      BY <1>1, <1>2, <3>2, <3>3 DEF Sorted
    <3> QED
      BY <3>4, <3>5, <3>6
  <2> QED
    BY <2>1, <2>2, TailHas
<1> QED
  BY <1>2, <1>3, <1>4 DEF Ordered

LEMMA NothingToDo ==
  /\ <<>> \in Seq(ClusterStep) /\ Ordered(<<>>)
  /\ \A do : ~Has(<<>>, do)
  /\ \A n : ~RayTo(<<>>, n)
BY DEF Ordered, Sorted, TearShape, RollShape, Has, RayTo

-----------------------------------------------------------------------------
(* A job that goes on, a job that ends.                                     *)
Went(j) ==
  /\ \A k \in ClusterJobs : k # j => cjob'[k] = cjob[k]
  /\ cjob'[j].todo = Tail(cjob[j].todo)
  /\ cjob'[j].cfg = cjob[j].cfg /\ cjob'[j].flag = cjob[j].flag

Rested(j) ==
  /\ \A k \in ClusterJobs : k # j => cjob'[k] = cjob[k]
  /\ cjob'[j].todo = <<>>

LEMMA JobFields ==
  ASSUME NEW r \in ClusterJobRecs
  PROVE  /\ r.todo \in Seq(ClusterStep) /\ r.cfg \in Images \union {NoImage}
         /\ r.flag \in BOOLEAN /\ r.listed \in BOOLEAN
BY DEF ClusterJobRecs

(* One job takes another record, in order and with an image to work for.    *)
LEMMA JobSet ==
  ASSUME JobsShape, NEW j \in ClusterJobs, NEW q \in ClusterJobRecs,
         Ordered(q.todo), q.todo # <<>> => q.cfg \in Images,
         cjob' = [cjob EXCEPT ![j] = q]
  PROVE  /\ JobsShape' /\ cjob'[j] = q
         /\ \A k \in ClusterJobs : k # j => cjob'[k] = cjob[k]
<1>1. cjob \in [ClusterJobs -> ClusterJobRecs]
  BY DEF JobsShape
<1>2. cjob' \in [ClusterJobs -> ClusterJobRecs]
  BY <1>1
<1>3. cjob'[j] = q /\ \A k \in ClusterJobs : k # j => cjob'[k] = cjob[k]
  BY <1>1
<1>4. ASSUME NEW k \in ClusterJobs
      PROVE  /\ Ordered(cjob'[k].todo)
             /\ cjob'[k].todo # <<>> => cjob'[k].cfg \in Images
  <2>1. CASE k = j
    BY <1>3, <2>1
  <2>2. CASE k # j
    BY <1>3, <2>2 DEF JobsShape, Busy
  <2> QED
    BY <2>1, <2>2
<1> QED
  BY <1>2, <1>3, <1>4 DEF JobsShape, Busy

LEMMA OnwardGoes ==
  ASSUME JobsShape, NEW j \in ClusterJobs, Busy(j), Onward(j)
  PROVE  JobsShape' /\ Went(j) /\ cjob'[j].listed = cjob[j].listed
<1>1. PICK r \in ClusterJobRecs : r = cjob[j]
  BY DEF JobsShape
<1>2. /\ r.todo \in Seq(ClusterStep) /\ r.todo # <<>> /\ Ordered(r.todo)
      /\ r.cfg \in Images
  BY <1>1, JobFields DEF JobsShape, Busy
<1>3. Tail(r.todo) \in Seq(ClusterStep) /\ Ordered(Tail(r.todo))
  BY <1>2, TailFacts, TailOrdered
<1>4. PICK q : q = [r EXCEPT !.todo = Tail(r.todo)]
  OBVIOUS
<1>5. /\ q \in ClusterJobRecs /\ q.todo = Tail(r.todo) /\ q.cfg = r.cfg
      /\ q.flag = r.flag /\ q.listed = r.listed
  BY <1>3, <1>4 DEF ClusterJobRecs
<1>6. cjob' = [cjob EXCEPT ![j] = q]
  BY <1>1, <1>4 DEF JobsShape, Onward
<1>7. /\ JobsShape' /\ cjob'[j] = q
      /\ \A k \in ClusterJobs : k # j => cjob'[k] = cjob[k]
  <2>1. q \in ClusterJobRecs /\ Ordered(q.todo) /\ q.cfg \in Images
    BY <1>2, <1>3, <1>5
  <2> QED
    BY <1>6, <2>1, JobSet, Zenon
<1> QED
  BY <1>1, <1>5, <1>7 DEF Went

OnwardListed(j, b) == cjob' = [cjob EXCEPT ![j].todo = Tail(@), ![j].listed = b]

LEMMA ListedGoes ==
  ASSUME JobsShape, NEW j \in ClusterJobs, Busy(j), NEW b \in BOOLEAN,
         OnwardListed(j, b)
  PROVE  JobsShape' /\ Went(j) /\ cjob'[j].listed = b
<1>1. PICK r \in ClusterJobRecs : r = cjob[j]
  BY DEF JobsShape
<1>2. /\ r.todo \in Seq(ClusterStep) /\ r.todo # <<>> /\ Ordered(r.todo)
      /\ r.cfg \in Images
  BY <1>1, JobFields DEF JobsShape, Busy
<1>3. Tail(r.todo) \in Seq(ClusterStep) /\ Ordered(Tail(r.todo))
  BY <1>2, TailFacts, TailOrdered
<1>4. PICK q : q = [r EXCEPT !.todo = Tail(r.todo), !.listed = b]
  OBVIOUS
<1>5. /\ q \in ClusterJobRecs /\ q.todo = Tail(r.todo) /\ q.cfg = r.cfg
      /\ q.flag = r.flag /\ q.listed = b
  BY <1>3, <1>4 DEF ClusterJobRecs
<1>6. cjob' = [cjob EXCEPT ![j] = q]
  BY <1>1, <1>4 DEF JobsShape, OnwardListed
<1>7. /\ JobsShape' /\ cjob'[j] = q
      /\ \A k \in ClusterJobs : k # j => cjob'[k] = cjob[k]
  <2>1. q \in ClusterJobRecs /\ Ordered(q.todo) /\ q.cfg \in Images
    BY <1>2, <1>3, <1>5
  <2> QED
    BY <1>6, <2>1, JobSet, Zenon
<1> QED
  BY <1>1, <1>5, <1>7 DEF Went

LEMMA EndsGoes ==
  ASSUME JobsShape, NEW j \in ClusterJobs, Ends(j)
  PROVE  JobsShape' /\ Rested(j)
<1>1. PICK q : q = Resting
  OBVIOUS
<1>2. q \in ClusterJobRecs /\ q.todo = <<>>
  BY <1>1, NothingToDo DEF Resting, ClusterJobRecs
<1>3. cjob' = [cjob EXCEPT ![j] = q]
  BY <1>1 DEF Ends
<1>4. Ordered(q.todo) /\ (q.todo # <<>> => q.cfg \in Images)
  BY <1>2, NothingToDo
<1>5. /\ JobsShape' /\ cjob'[j] = q
      /\ \A k \in ClusterJobs : k # j => cjob'[k] = cjob[k]
  BY <1>2, <1>3, <1>4, JobSet
<1> QED
  BY <1>2, <1>5 DEF Rested

-----------------------------------------------------------------------------
(* What the head of the steps to go tells of the others.                    *)
LEMMA HeadFirst ==
  ASSUME NEW s \in Seq(ClusterStep), s # <<>>, Ordered(s), NEW do, Has(s, do)
  PROVE  do = Head(s).do \/ Rank(Head(s).do) < Rank(do)
<1>1. Len(s) \in Nat /\ Head(s) = s[1] /\ Len(s) >= 1
  BY TailFacts
<1>2. PICK k \in 1..Len(s) : s[k].do = do
  BY DEF Has
<1>3. CASE k = 1
  BY <1>1, <1>2, <1>3
<1>4. CASE k # 1
  <2>1. 1 \in 1..Len(s) /\ 1 < k
    BY <1>1, <1>4
  <2> QED
    BY <1>1, <1>2, <2>1 DEF Ordered, Sorted
<1> QED
  BY <1>3, <1>4

LEMMA RayIsHad ==
  ASSUME NEW s, NEW n, RayTo(s, n) PROVE Has(s, "ray")
BY DEF RayTo, Has

LEMMA LateTail ==
  ASSUME NEW s \in Seq(ClusterStep), s # <<>>
  PROVE  Late(s) => Late(Tail(s)) /\ Rank(Head(s).do) > 4
<1> SUFFICES ASSUME Late(s) PROVE Late(Tail(s)) /\ Rank(Head(s).do) > 4
  OBVIOUS
<1>1. /\ Len(Tail(s)) = Len(s) - 1 /\ Len(s) \in Nat /\ Head(s) = s[1] /\ Len(s) >= 1
      /\ \A k \in 1..(Len(s) - 1) : Tail(s)[k] = s[k + 1]
  BY TailFacts
<1>2. Rank(Head(s).do) > 4
  BY <1>1 DEF Late
<1>3. ASSUME NEW k \in 1..(Len(s) - 1) PROVE Rank(Tail(s)[k].do) > 4
  <2>1. k + 1 \in 1..Len(s)
    BY <1>1
  <2> QED
    BY <1>1, <2>1 DEF Late
<1> QED
  BY <1>1, <1>2, <1>3 DEF Late

LEMMA WaitIsLate ==
  ASSUME NEW s \in Seq(ClusterStep), s # <<>>, Ordered(s), Head(s).do = "wait"
  PROVE  Late(Tail(s))
<1>1. Len(Tail(s)) = Len(s) - 1 /\ Len(s) \in Nat /\ Tail(s) \in Seq(ClusterStep)
  BY TailFacts
<1>2. Sorted(s) /\ Rank("wait") = 4
  BY Ranks DEF Ordered
<1>3. SUFFICES ASSUME NEW k \in 1..Len(Tail(s)) PROVE Rank(Tail(s)[k].do) > 4
  BY DEF Late
<1>4. \/ 4 < Rank(Tail(s)[k].do)
      \/ 4 \in {0, 1, 3}
  BY <1>2, <1>3, TailRanks
<1>5. PICK e \in ClusterStep : e = Tail(s)[k]
  BY <1>1, <1>3
<1>6. Rank(e.do) \in 0..6
  BY Ranks
<1> QED
  BY <1>4, <1>5, <1>6

LEMMA LastEnds ==
  ASSUME NEW s \in Seq(ClusterStep), s # <<>>, Ordered(s),
         Head(s).do \in {"verify", "roll", "forget"}
  PROVE  Tail(s) = <<>>
<1>1. Len(Tail(s)) = Len(s) - 1 /\ Len(s) \in Nat /\ Tail(s) \in Seq(ClusterStep)
      /\ Len(s) >= 1
  BY TailFacts
<1>2. Sorted(s) /\ Rank(Head(s).do) = 6
  BY Ranks DEF Ordered
<1>3. SUFFICES ASSUME Len(s) > 1 PROVE FALSE
  BY <1>1
<1>4. 1 \in 1..Len(Tail(s))
  BY <1>1, <1>3
<1>5. PICK e \in ClusterStep : e = Tail(s)[1]
  BY <1>1, <1>4
<1>6. Rank(e.do) \in 0..6
  BY Ranks
<1>7. 6 < Rank(e.do) \/ 6 \in {0, 1, 3}
  BY <1>2, <1>4, <1>5, TailRanks
<1> QED
  BY <1>6, <1>7

(* A job that stops Ray or forgets does nothing else.                       *)
LEMMA TearOnly ==
  ASSUME NEW s \in Seq(ClusterStep), s # <<>>, Ordered(s),
         Has(s, "stop ray") \/ Has(s, "forget")
  PROVE  /\ Head(s).do \in {"stop ray", "forget"} /\ Has(s, "forget")
         /\ \A do : Has(s, do) => do \in {"stop ray", "forget"}
<1>1. Len(s) \in Nat /\ Len(s) >= 1 /\ Head(s) = s[1]
  BY TailFacts
<1>2. \A k \in 1..Len(s) : s[k].do = IF k = Len(s) THEN "forget" ELSE "stop ray"
  BY DEF Ordered, TearShape
<1>3. Len(s) \in 1..Len(s) /\ 1 \in 1..Len(s)
  BY <1>1, FirstAndLast
<1>4. Head(s).do \in {"stop ray", "forget"}
  BY <1>1, <1>2, <1>3
<1>5. Has(s, "forget")
  BY <1>2, <1>3 DEF Has
<1>6. \A do : Has(s, do) => do \in {"stop ray", "forget"}
  BY <1>2 DEF Has
<1> QED
  BY <1>4, <1>5, <1>6

-----------------------------------------------------------------------------
(* An idle job makes up for nothing; nor does one with nothing left to do.  *)
LEMMA IdleMakes ==
  ASSUME NEW k \in ClusterJobs, cjob[k].todo = <<>>
  PROVE  Makes(k)
<1>1. ~Busy(k)
  BY DEF Busy
<1>2. \A do : ~Has(cjob[k].todo, do)
  BY NothingToDo
<1> QED
  BY <1>1, <1>2 DEF Makes, FlagHolds, RayReaches, ImageReaches, NothingFormer,
                    RayStarted, RollsAtEnd

LEMMA IdleMakesNext ==
  ASSUME NEW k \in ClusterJobs, cjob'[k].todo = <<>>
  PROVE  Makes(k)'
<1>1. ~Busy(k)'
  BY DEF Busy
<1>2. \A do : ~Has(cjob'[k].todo, do)
  BY NothingToDo
<1> QED
  BY <1>1, <1>2 DEF Makes, FlagHolds, RayReaches, ImageReaches, NothingFormer,
                    RayStarted, RollsAtEnd

(* While one job works the others rest, and they rest when it went on.      *)
OthersRest(j) == \A k \in ClusterJobs : k # j => cjob'[k].todo = <<>>

LEMMA AloneStays ==
  ASSUME AloneAtWork, NEW j \in ClusterJobs, Busy(j),
         \A k \in ClusterJobs : k # j => cjob'[k] = cjob[k]
  PROVE  /\ AloneAtWork' /\ OthersRest(j)
         /\ \A k \in ClusterJobs : k # j => Makes(k)'
<1>1. OthersRest(j)
  BY DEF AloneAtWork, OthersRest, Busy
<1>2. AloneAtWork'
  BY <1>1 DEF AloneAtWork, OthersRest, Busy
<1>3. ASSUME NEW k \in ClusterJobs, k # j PROVE Makes(k)'
  BY <1>1, <1>3, IdleMakesNext DEF OthersRest
<1> QED
  BY <1>1, <1>2, <1>3

(* The facts on the working job that every step of it uses.                 *)
LEMMA AtWork ==
  ASSUME JobsShape, NEW j \in ClusterJobs, Busy(j)
  PROVE  /\ cjob[j].todo \in Seq(ClusterStep) /\ cjob[j].todo # <<>>
         /\ Ordered(cjob[j].todo) /\ cjob[j].cfg \in Images
         /\ Head(cjob[j].todo) \in ClusterStep
<1>1. PICK r \in ClusterJobRecs : r = cjob[j]
  BY DEF JobsShape
<1>2. r.todo \in Seq(ClusterStep)
  BY JobFields
<1>3. cjob[j].todo # <<>> /\ Ordered(cjob[j].todo) /\ cjob[j].cfg \in Images
  BY DEF JobsShape, Busy
<1>4. Head(r.todo) \in ClusterStep
  BY <1>1, <1>2, <1>3, TailFacts
<1> QED
  BY <1>1, <1>2, <1>3, <1>4

(* A complete setup stays one: as Ray is, or because the job forgets.       *)
LEMMA FormedOrForgets ==
  ASSUME JobsShape, CompleteIsFormed, NEW j \in ClusterJobs, Busy(j), AloneAtWork
  PROVE  complete => RayUp \/ Has(cjob[j].todo, "forget")
<1> SUFFICES ASSUME complete, ~RayUp PROVE Has(cjob[j].todo, "forget")
  OBVIOUS
<1>1. PICK k \in ClusterJobs : Has(cjob[k].todo, "forget")
  BY DEF CompleteIsFormed
<1>2. Busy(k)
  BY <1>1, NothingToDo DEF Busy
<1> QED
  BY <1>1, <1>2 DEF AloneAtWork

LEMMA NotTearing ==
  ASSUME JobsShape, NEW j \in ClusterJobs, Busy(j),
         Head(cjob[j].todo).do \notin {"stop ray", "forget"}
  PROVE  ~Has(cjob[j].todo, "forget") /\ ~Has(cjob[j].todo, "stop ray")
BY AtWork, TearOnly

-----------------------------------------------------------------------------
(* What a job keeps when it goes on, part by part.                          *)
LEMMA FlagKeeps ==
  ASSUME JobsShape, NEW j \in ClusterJobs, Busy(j), Went(j), FlagHolds(j),
         complete' = complete
  PROVE  FlagHolds(j)'
<1>1. cjob[j].todo \in Seq(ClusterStep) /\ cjob[j].todo # <<>>
  BY AtWork
<1>2. PICK s \in Seq(ClusterStep) : s = cjob[j].todo
  BY <1>1
<1>3. /\ Has(Tail(s), "verify") => Has(s, "verify")
      /\ Has(Tail(s), "forget") => Has(s, "forget")
  BY <1>1, <1>2, TailHas
<1> QED
  BY <1>2, <1>3 DEF Went, FlagHolds

LEMMA ReachKeeps ==
  ASSUME JobsShape, NEW j \in ClusterJobs, Busy(j), Went(j), RayReaches(j),
         Head(cjob[j].todo).do # "ray", ray' = ray, unstarted' = unstarted
  PROVE  RayReaches(j)'
<1>1. cjob[j].todo \in Seq(ClusterStep) /\ cjob[j].todo # <<>>
  BY AtWork
<1>2. PICK s \in Seq(ClusterStep) : s = cjob[j].todo
  BY <1>1
<1>3. /\ Has(Tail(s), "wait") => Has(s, "wait")
      /\ \A n \in ClusterNodes : RayTo(s, n) => RayTo(Tail(s), n)
  BY <1>1, <1>2, TailHas, TailRayTo
<1> QED
  BY <1>2, <1>3 DEF Went, RayReaches

LEMMA ImageKeeps ==
  ASSUME JobsShape, NEW j \in ClusterJobs, Busy(j), Went(j), ImageReaches(j),
         Head(cjob[j].todo).do # "record", image' = image
  PROVE  ImageReaches(j)'
<1>1. cjob[j].todo \in Seq(ClusterStep) /\ cjob[j].todo # <<>>
  BY AtWork
<1>2. PICK s \in Seq(ClusterStep) : s = cjob[j].todo
  BY <1>1
<1>3. /\ Has(Tail(s), "wait") => Has(s, "wait")
      /\ Has(Tail(s), "roll") => Has(s, "roll")
      /\ Has(s, "record") => Has(Tail(s), "record")
  BY <1>1, <1>2, TailHas
<1> QED
  BY <1>2, <1>3 DEF Went, ImageReaches

LEMMA FormerKeeps ==
  ASSUME JobsShape, NEW j \in ClusterJobs, Busy(j), Went(j), NothingFormer(j),
         Head(cjob[j].todo).do # "list", cjob'[j].listed = cjob[j].listed,
         ServesRecorded => ServesRecorded'
  PROVE  NothingFormer(j)'
<1>1. cjob[j].todo \in Seq(ClusterStep) /\ cjob[j].todo # <<>>
  BY AtWork
<1>2. PICK s \in Seq(ClusterStep) : s = cjob[j].todo
  BY <1>1
<1>3. /\ Has(Tail(s), "roll") => Has(s, "roll")
      /\ Has(s, "list") => Has(Tail(s), "list")
  BY <1>1, <1>2, TailHas
<1> QED
  BY <1>2, <1>3 DEF Went, NothingFormer

LEMMA StartedKeeps ==
  ASSUME JobsShape, NEW j \in ClusterJobs, Busy(j), Went(j), RayStarted(j),
         RollsAtEnd(j), settled' = settled
  PROVE  RayStarted(j)' /\ RollsAtEnd(j)'
<1>1. cjob[j].todo \in Seq(ClusterStep) /\ cjob[j].todo # <<>>
  BY AtWork
<1>2. PICK s \in Seq(ClusterStep) : s = cjob[j].todo
  BY <1>1
<1>3. Late(s) => Late(Tail(s))
  BY <1>1, <1>2, LateTail
<1> QED
  BY <1>2, <1>3 DEF Went, RayStarted, RollsAtEnd, Busy

(* With Ray yet to be started nothing is settled.                           *)
LEMMA NothingSettled ==
  ASSUME JobsShape, NEW j \in ClusterJobs, Busy(j), Makes(j)
  PROVE  /\ "instances" \notin settled
         /\ Rank(Head(cjob[j].todo).do) \in {0, 1, 2, 3, 4} => "ray" \notin settled
<1>1. cjob[j].todo \in Seq(ClusterStep) /\ cjob[j].todo # <<>>
  BY AtWork
<1>2. PICK s \in Seq(ClusterStep) : s = cjob[j].todo
  BY <1>1
<1>3. Late(s) => Rank(Head(s).do) > 4
  BY <1>1, <1>2, LateTail
<1>4. "instances" \notin settled
  BY DEF Makes, RollsAtEnd
<1>5. "ray" \in settled => Late(s)
  BY <1>2 DEF Makes, RayStarted
<1>6. PICK r : r = Rank(Head(s).do)
  OBVIOUS
<1>7. r \in {0, 1, 2, 3, 4} => ~(r > 4)
  OBVIOUS
<1> QED
  BY <1>2, <1>3, <1>4, <1>5, <1>6, <1>7

LEMMA FormedKeeps ==
  ASSUME JobsShape, AloneAtWork, CompleteIsFormed, NEW j \in ClusterJobs, Busy(j),
         Went(j), Head(cjob[j].todo).do # "forget", complete' = complete, RayUp => RayUp'
  PROVE  CompleteIsFormed'
<1>1. cjob[j].todo \in Seq(ClusterStep) /\ cjob[j].todo # <<>>
  BY AtWork
<1>2. PICK s \in Seq(ClusterStep) : s = cjob[j].todo
  BY <1>1
<1>3. Has(s, "forget") => Has(Tail(s), "forget")
  BY <1>1, <1>2, TailHas
<1>4. complete => RayUp \/ Has(s, "forget")
  BY <1>2, FormedOrForgets
<1>5. Has(s, "forget") => Has(cjob'[j].todo, "forget")
  BY <1>2, <1>3 DEF Went
<1> QED
  BY <1>4, <1>5 DEF CompleteIsFormed

LEMMA CalmAfter ==
  ASSUME AloneAtWork, NEW j \in ClusterJobs, Busy(j), Went(j) \/ Rested(j),
         Makes(j)', CompleteIsFormed', RaySettled', InstancesSettled'
  PROVE  Calm'
<1>1. \A k \in ClusterJobs : k # j => cjob'[k] = cjob[k]
  BY DEF Went, Rested
<1>2. AloneAtWork' /\ \A k \in ClusterJobs : k # j => Makes(k)'
  BY <1>1, AloneStays
<1>3. \A k \in ClusterJobs : Makes(k)'
  BY <1>2
<1> QED
  BY <1>2, <1>3 DEF Calm

(* A step that leaves what the invariant speaks of alone.                   *)
LEMMA QuietStep ==
  ASSUME JobsShape, Calm, NEW j \in ClusterJobs, Busy(j), Went(j),
         cjob'[j].listed = cjob[j].listed,
         Head(cjob[j].todo).do \notin {"ray", "record", "list", "forget"},
         UNCHANGED <<image, complete, nodeSide, instance, settled>>
  PROVE  Calm'
<1>0. /\ image' = image /\ complete' = complete /\ ray' = ray /\ serving' = serving
      /\ settled' = settled /\ unstarted' = unstarted /\ kept' = kept
  BY DEF nodeSide, instance
<1>a. ServesRecorded => ServesRecorded'
  BY <1>0 DEF ServesRecorded
<1>1. /\ FlagHolds(j) /\ RayReaches(j) /\ ImageReaches(j) /\ NothingFormer(j)
      /\ RayStarted(j) /\ RollsAtEnd(j)
  BY DEF Calm, Makes
<1>2. FlagHolds(j)'
  BY <1>0, <1>1, FlagKeeps
<1>3. RayReaches(j)'
  BY <1>0, <1>1, ReachKeeps
<1>4. ImageReaches(j)'
  BY <1>0, <1>1, ImageKeeps
<1>5. NothingFormer(j)'
  BY <1>0, <1>a, <1>1, FormerKeeps
<1>6. RayStarted(j)' /\ RollsAtEnd(j)'
  BY <1>0, <1>1, StartedKeeps
<1>7. Makes(j)'
  BY <1>2, <1>3, <1>4, <1>5, <1>6 DEF Makes
<1>8. RayUp => RayUp'
  BY <1>0 DEF RayUp
<1>9. CompleteIsFormed'
  BY <1>0, <1>8, FormedKeeps DEF Calm
<1>10. RaySettled' /\ InstancesSettled'
  BY <1>0, <1>a DEF Calm, RaySettled, InstancesSettled
<1> QED
  BY <1>7, <1>9, <1>10, CalmAfter DEF Calm

LEMMA EarlyWords ==
  \A do \in Early : do \notin {"image", "pull", "ray", "verify", "record", "wait", "list",
                               "roll", "stop ray", "forget"}
BY ClusterAssumption

LEMMA CalmPrepare ==
  ASSUME JobsShape, Calm, NEW j \in ClusterJobs, Prepare(j)
  PROVE  Calm'
<1>1. /\ Busy(j) /\ Onward(j)
      /\ Head(cjob[j].todo).do \notin {"ray", "record", "list", "forget"}
  BY EarlyWords DEF Prepare
<1>2. Went(j) /\ cjob'[j].listed = cjob[j].listed
  BY <1>1, OnwardGoes
<1> QED
  BY <1>1, <1>2, QuietStep DEF Prepare

(* The image is recorded before Ray and the instances take it up.           *)
LEMMA CalmRecord ==
  ASSUME JobsShape, Calm, NEW j \in ClusterJobs, Record(j)
  PROVE  Calm'
<1>0. /\ image' = cjob[j].cfg /\ complete' = complete /\ ray' = ray
      /\ settled' = settled /\ unstarted' = unstarted
  BY DEF Record, nodeSide
<1>1. Busy(j) /\ Onward(j) /\ Head(cjob[j].todo).do = "record"
  BY DEF Doing, Record
<1>2. Went(j) /\ cjob'[j].listed = cjob[j].listed
  BY <1>1, OnwardGoes
<1>3. /\ FlagHolds(j) /\ RayReaches(j) /\ RayStarted(j) /\ RollsAtEnd(j) /\ Makes(j)
  BY DEF Calm, Makes
<1>4. FlagHolds(j)'
  BY <1>0, <1>1, <1>2, <1>3, FlagKeeps
<1>5. RayReaches(j)'
  BY <1>0, <1>1, <1>2, <1>3, ReachKeeps
<1>6. ImageReaches(j)'
  BY <1>0, <1>2 DEF Went, ImageReaches
<1>7. NothingFormer(j)'
  <2>1. PICK s \in Seq(ClusterStep) : s = cjob[j].todo
    BY <1>1, AtWork
  <2>2. s # <<>> /\ RollShape(s)
    BY <1>1, <2>1, AtWork DEF Ordered
  <2>3. Has(Tail(s), "roll") => Has(s, "roll") /\ Len(s) > 1
    <3>1. Has(Tail(s), "roll") => Tail(s) # <<>>
      BY NothingToDo
    <3>2. Tail(s) # <<>> => Len(s) > 1
      <4>1. Len(Tail(s)) = Len(s) - 1 /\ Tail(s) \in Seq(ClusterStep) /\ Len(s) \in Nat
        BY <2>2, TailFacts
      <4>2. Tail(s) # <<>> => Len(Tail(s)) # 0
        BY <4>1, EmptySeq
      <4> QED
        BY <4>1, <4>2
    <3> QED
      BY <2>2, <3>1, <3>2, TailHas
  <2>4. Has(s, "list") => Has(Tail(s), "list")
    BY <1>1, <2>1, <2>2, TailHas
  <2>5. Has(Tail(s), "roll") => Has(Tail(s), "list")
    BY <2>2, <2>3, <2>4 DEF RollShape
  <2> QED
    BY <1>2, <2>1, <2>5 DEF Went, NothingFormer
<1>8. RayStarted(j)' /\ RollsAtEnd(j)'
  BY <1>0, <1>1, <1>2, <1>3, StartedKeeps
<1>9. Makes(j)'
  BY <1>4, <1>5, <1>6, <1>7, <1>8 DEF Makes
<1>10. RayUp => RayUp'
  BY <1>0 DEF RayUp
<1>11. CompleteIsFormed'
  BY <1>0, <1>1, <1>2, <1>10, FormedKeeps DEF Calm
<1>12. "ray" \notin settled /\ "instances" \notin settled
  <2>1. Rank(Head(cjob[j].todo).do) = 2
    BY <1>1, Ranks
  <2> QED
    BY <1>1, <1>3, <2>1, NothingSettled
<1>13. RaySettled' /\ InstancesSettled'
  BY <1>0, <1>12 DEF RaySettled, InstancesSettled
<1> QED
  BY <1>1, <1>2, <1>9, <1>11, <1>13, CalmAfter DEF Calm

(* What becomes of Ray on the nodes when one is started.                    *)
StartedOrNot(j) ==
  /\ \A n \in ClusterNodes :
       \/ n = Node(j) /\ (ray'[n] = cjob[j].cfg \/ n \in unstarted')
       \/ n # Node(j) /\ ray'[n] = ray[n] /\ (n \in unstarted => n \in unstarted')
  /\ ray' \in [ClusterNodes -> Images \union {NoImage}]
  /\ unstarted' \subseteq 0..NumNodes

LEMMA RayChanges ==
  ASSUME ClusterShape, NEW j \in ClusterJobs, StartRay(j)
  PROVE  StartedOrNot(j)
<1>0. JobsShape /\ Busy(j)
  BY DEF StartRay, ClusterShape, Doing
<1>1. PICK a : a = Node(j)
  OBVIOUS
<1>2. ray \in [ClusterNodes -> Images \union {NoImage}] /\ unstarted \subseteq 0..NumNodes
  BY DEF ClusterShape, PartsShape
<1>3. cjob[j].cfg \in Images /\ a \in 0..NumNodes
  BY <1>0, <1>1, AtWork, StepFields DEF Node
<1>4. \/ /\ ray' = [ray EXCEPT ![a] = cjob[j].cfg]
         /\ unstarted' = unstarted \ {a}
      \/ \E left \in {ray[a], NoImage} : /\ ray' = [ray EXCEPT ![a] = left]
                                         /\ unstarted' = unstarted \union {a}
  BY <1>1 DEF StartRay, Rendered
<1>5. CASE ray' = [ray EXCEPT ![a] = cjob[j].cfg] /\ unstarted' = unstarted \ {a}
  <2>1. /\ \A n \in ClusterNodes : n = a => ray'[n] = cjob[j].cfg
        /\ \A n \in ClusterNodes :
             n # a => ray'[n] = ray[n] /\ (n \in unstarted => n \in unstarted')
        /\ ray' \in [ClusterNodes -> Images \union {NoImage}]
        /\ unstarted' \subseteq 0..NumNodes
    BY <1>2, <1>3, <1>5
  <2> QED
    BY <1>1, <2>1 DEF StartedOrNot
<1>6. CASE \E left \in {ray[a], NoImage} : /\ ray' = [ray EXCEPT ![a] = left]
                                           /\ unstarted' = unstarted \union {a}
  <2>1. PICK left \in {ray[a], NoImage} :
          ray' = [ray EXCEPT ![a] = left] /\ unstarted' = unstarted \union {a}
    BY <1>6
  <2>2. a \in ClusterNodes => left \in Images \union {NoImage}
    BY <1>2, <2>1
  <2>3. ray' \in [ClusterNodes -> Images \union {NoImage}]
    <3>1. CASE a \in ClusterNodes
      BY <1>2, <2>1, <2>2, <3>1
    <3>2. CASE a \notin ClusterNodes
      BY <1>2, <2>1, <3>2
    <3> QED
      BY <3>1, <3>2
  <2>4. \A n \in ClusterNodes : n # a => ray'[n] = ray[n]
    BY <1>2, <2>1
  <2>5. /\ \A n \in ClusterNodes : n = a => n \in unstarted'
        /\ \A n \in ClusterNodes : n \in unstarted => n \in unstarted'
        /\ unstarted' \subseteq 0..NumNodes
    BY <1>2, <1>3, <2>1
  <2> QED
    BY <1>1, <2>3, <2>4, <2>5 DEF StartedOrNot
<1> QED
  BY <1>4, <1>5, <1>6

(* A node's Ray is started again with the image of the job, so the job      *)
(* needs not come to it any more; or it failed to start.                    *)
LEMMA CalmStartRay ==
  ASSUME ClusterShape, Calm, NEW j \in ClusterJobs, StartRay(j)
  PROVE  Calm'
<1>0. /\ image' = image /\ complete' = complete /\ serving' = serving
      /\ settled' = settled /\ kept' = kept /\ JobsShape
  BY DEF StartRay, ClusterShape, instance
<1>1. /\ Busy(j) /\ Head(cjob[j].todo).do = "ray" /\ StartedOrNot(j)
      /\ Onward(j) \/ Ends(j)
  BY RayChanges DEF Doing, StartRay
<1>a. ServesRecorded => ServesRecorded'
  BY <1>0 DEF ServesRecorded
<1>2. cjob[j].cfg \in Images
  BY <1>0, <1>1, AtWork
<1>3. /\ FlagHolds(j) /\ RayReaches(j) /\ ImageReaches(j) /\ NothingFormer(j)
      /\ RayStarted(j) /\ RollsAtEnd(j) /\ Makes(j)
  BY DEF Calm, Makes
<1>4. RayUp => RayUp'
  <2>1. cjob[j].cfg # NoImage
    BY <1>2, ClusterAssumption
  <2>2. ASSUME RayUp, NEW n \in ClusterNodes PROVE ray'[n] # NoImage \/ n \in unstarted'
    BY <1>1, <2>1, <2>2 DEF RayUp, StartedOrNot
  <2> QED
    BY <2>2 DEF RayUp
<1>5. "ray" \notin settled /\ "instances" \notin settled
  <2>1. Rank(Head(cjob[j].todo).do) = 3
    BY <1>1, Ranks
  <2> QED
    BY <1>0, <1>1, <1>3, <2>1, NothingSettled
<1>6. RaySettled' /\ InstancesSettled'
  BY <1>0, <1>5 DEF RaySettled, InstancesSettled
<1>7. CASE Ends(j)
  <2>1. Rested(j)
    BY <1>0, <1>7, EndsGoes
  <2>2. Makes(j)'
    BY <2>1, IdleMakesNext DEF Rested
  <2>3. ~Has(cjob[j].todo, "forget")
    BY <1>0, <1>1, NotTearing
  <2>4. complete => RayUp
    BY <1>0, <1>1, <2>3, FormedOrForgets DEF Calm
  <2>5. CompleteIsFormed'
    BY <1>0, <1>4, <2>4 DEF CompleteIsFormed
  <2> QED
    BY <1>1, <1>6, <2>1, <2>2, <2>5, CalmAfter DEF Calm
<1>8. CASE Onward(j)
  <2>1. Went(j) /\ cjob'[j].listed = cjob[j].listed
    BY <1>0, <1>1, <1>8, OnwardGoes
  <2>2. PICK s \in Seq(ClusterStep) : s = cjob[j].todo
    BY <1>0, <1>1, AtWork
  <2>3. s # <<>> /\ Ordered(s)
    BY <1>0, <1>1, <2>2, AtWork
  <2>4. FlagHolds(j)'
    BY <1>0, <1>1, <1>3, <2>1, FlagKeeps
  <2>5. RayReaches(j)'
    <3>1. Has(Tail(s), "wait") => Has(s, "wait")
      BY <2>3, TailHas
    <3>2. \A n \in ClusterNodes : RayTo(s, n) /\ n # Node(j) => RayTo(Tail(s), n)
      BY <2>2, <2>3, TailRayTo DEF Node
    <3>3. Has(s, "wait") => \A n \in ClusterNodes :
            ray[n] = cjob[j].cfg \/ n \in unstarted \/ RayTo(s, n)
      BY <1>3, <2>2 DEF RayReaches
    <3>4. Has(Tail(s), "wait") => \A n \in ClusterNodes :
            ray'[n] = cjob[j].cfg \/ n \in unstarted' \/ RayTo(Tail(s), n)
      BY <1>1, <3>1, <3>2, <3>3 DEF StartedOrNot
    <3>5. cjob'[j].todo = Tail(s) /\ cjob'[j].cfg = cjob[j].cfg
      BY <2>1, <2>2 DEF Went
    <3> QED
      BY <3>4, <3>5 DEF RayReaches
  <2>6. ImageReaches(j)'
    BY <1>0, <1>1, <1>3, <2>1, ImageKeeps
  <2>7. NothingFormer(j)'
    BY <1>0, <1>1, <1>a, <1>3, <2>1, FormerKeeps
  <2>8. RayStarted(j)' /\ RollsAtEnd(j)'
    BY <1>0, <1>1, <1>3, <2>1, StartedKeeps
  <2>9. Makes(j)'
    BY <2>4, <2>5, <2>6, <2>7, <2>8 DEF Makes
  <2>10. CompleteIsFormed'
    BY <1>0, <1>1, <1>4, <2>1, FormedKeeps DEF Calm
  <2> QED
    BY <1>1, <1>6, <2>1, <2>9, <2>10, CalmAfter DEF Calm
<1> QED
  BY <1>1, <1>7, <1>8

(* Once Ray was started everywhere, it runs the image that was recorded.    *)
LEMMA CalmWait ==
  ASSUME JobsShape, Calm, NEW j \in ClusterJobs, Wait(j)
  PROVE  Calm'
<1>0. /\ image' = image /\ complete' = complete /\ ray' = ray /\ serving' = serving
      /\ settled' = settled \union {"ray"} /\ unstarted' = unstarted /\ kept' = kept
  BY DEF Wait, Settle, nodeSide, instance
<1>a. ServesRecorded => ServesRecorded'
  BY <1>0 DEF ServesRecorded
<1>1. Busy(j) /\ Onward(j) /\ Head(cjob[j].todo).do = "wait"
  BY DEF Doing, Wait
<1>2. Went(j) /\ cjob'[j].listed = cjob[j].listed
  BY <1>1, OnwardGoes
<1>3. /\ FlagHolds(j) /\ RayReaches(j) /\ ImageReaches(j) /\ NothingFormer(j)
      /\ RollsAtEnd(j) /\ Makes(j)
  BY DEF Calm, Makes
<1>4. PICK s \in Seq(ClusterStep) : s = cjob[j].todo
  BY <1>1, AtWork
<1>5. s # <<>> /\ Ordered(s)
  BY <1>1, <1>4, AtWork
<1>6. Has(s, "wait") /\ ~Has(s, "record") /\ \A n \in ClusterNodes : ~RayTo(s, n)
  <2>1. Len(s) \in Nat /\ Len(s) >= 1 /\ Head(s) = s[1]
    BY <1>5, TailFacts
  <2>2. Has(s, "wait")
    BY <1>1, <1>4, <2>1, FirstAndLast DEF Has
  <2>3. Rank("wait") = 4 /\ Rank("record") = 2 /\ Rank("ray") = 3
    BY Ranks
  <2>4. ~Has(s, "record")
    BY <1>1, <1>4, <1>5, <2>3, HeadFirst
  <2>5. ~Has(s, "ray")
    BY <1>1, <1>4, <1>5, <2>3, HeadFirst
  <2> QED
    BY <2>2, <2>4, <2>5, RayIsHad
<1>7. \A n \in ClusterNodes : ray[n] = image \/ n \in unstarted
  BY <1>3, <1>4, <1>6 DEF RayReaches, ImageReaches
<1>8. FlagHolds(j)'
  BY <1>0, <1>1, <1>2, <1>3, FlagKeeps
<1>9. RayReaches(j)'
  BY <1>0, <1>1, <1>2, <1>3, ReachKeeps
<1>10. ImageReaches(j)'
  BY <1>0, <1>1, <1>2, <1>3, ImageKeeps
<1>11. NothingFormer(j)'
  BY <1>0, <1>1, <1>2, <1>3, <1>a, FormerKeeps
<1>12. RayStarted(j)'
  <2>1. Late(Tail(s))
    BY <1>1, <1>4, <1>5, WaitIsLate
  <2> QED
    BY <1>2, <1>4, <2>1 DEF Went, RayStarted
<1>13. RollsAtEnd(j)'
  BY <1>0, <1>1, <1>3 DEF RollsAtEnd
<1>14. Makes(j)'
  BY <1>8, <1>9, <1>10, <1>11, <1>12, <1>13 DEF Makes
<1>15. RayUp => RayUp'
  BY <1>0 DEF RayUp
<1>16. CompleteIsFormed'
  BY <1>0, <1>1, <1>2, <1>15, FormedKeeps DEF Calm
<1>17. RaySettled'
  BY <1>0, <1>7 DEF RaySettled
<1>18. InstancesSettled'
  BY <1>0, <1>a DEF Calm, InstancesSettled
<1> QED
  BY <1>1, <1>2, <1>14, <1>16, <1>17, <1>18, CalmAfter DEF Calm

(* The list says whether the instance was to serve; one that serves although*)
(* it was not is kept as it is.                                             *)
LEMMA CalmList ==
  ASSUME ClusterShape, Calm, NEW j \in ClusterJobs, List(j)
  PROVE  Calm'
<1>0. /\ image' = image /\ complete' = complete /\ ray' = ray /\ serving' = serving
      /\ settled' = settled /\ unstarted' = unstarted /\ JobsShape
  BY DEF List, ClusterShape, nodeSide
<1>1. Busy(j) /\ Head(cjob[j].todo).do = "list"
  BY DEF Doing, List
<1>2. PICK b \in BOOLEAN : b = (instStatus = "active")
  OBVIOUS
<1>3. OnwardListed(j, b)
  BY <1>2 DEF List, OnwardListed
<1>4. Went(j) /\ cjob'[j].listed = b
  BY <1>0, <1>1, <1>3, ListedGoes
<1>5. /\ FlagHolds(j) /\ RayReaches(j) /\ ImageReaches(j)
      /\ RayStarted(j) /\ RollsAtEnd(j)
  BY DEF Calm, Makes
<1>6. FlagHolds(j)'
  BY <1>0, <1>1, <1>4, <1>5, FlagKeeps
<1>7. RayReaches(j)'
  BY <1>0, <1>1, <1>4, <1>5, ReachKeeps
<1>8. ImageReaches(j)'
  BY <1>0, <1>1, <1>4, <1>5, ImageKeeps
<1>9. NothingFormer(j)'
  <2>1. ~b => ServesRecorded'
    BY <1>0, <1>2 DEF List, ServesRecorded
  <2> QED
    BY <1>4, <2>1 DEF NothingFormer
<1>10. RayStarted(j)' /\ RollsAtEnd(j)'
  BY <1>0, <1>1, <1>4, <1>5, StartedKeeps
<1>11. Makes(j)'
  BY <1>6, <1>7, <1>8, <1>9, <1>10 DEF Makes
<1>12. RayUp => RayUp'
  BY <1>0 DEF RayUp
<1>13. CompleteIsFormed'
  BY <1>0, <1>1, <1>4, <1>12, FormedKeeps DEF Calm
<1>14. RaySettled' /\ InstancesSettled'
  <2>1. ServesRecorded => ServesRecorded'
    BY <1>0 DEF List, ServesRecorded
  <2> QED
    BY <1>0, <2>1 DEF Calm, RaySettled, InstancesSettled
<1> QED
  BY <1>1, <1>4, <1>11, <1>13, <1>14, CalmAfter DEF Calm

(* Whoever stops Ray forgets the setup afterwards.                          *)
LEMMA CalmStopRay ==
  ASSUME JobsShape, Calm, NEW j \in ClusterJobs, StopRay(j)
  PROVE  Calm'
<1>0. /\ image' = image /\ complete' = complete /\ serving' = serving
      /\ settled' = settled /\ kept' = kept
  BY DEF StopRay, instance
<1>a. ServesRecorded => ServesRecorded'
  BY <1>0 DEF ServesRecorded
<1>1. Busy(j) /\ Onward(j) /\ Head(cjob[j].todo).do = "stop ray"
  BY DEF Doing, StopRay
<1>2. Went(j) /\ cjob'[j].listed = cjob[j].listed
  BY <1>1, OnwardGoes
<1>3. /\ FlagHolds(j) /\ ImageReaches(j) /\ NothingFormer(j)
      /\ RayStarted(j) /\ RollsAtEnd(j) /\ Makes(j)
  BY DEF Calm, Makes
<1>4. PICK s \in Seq(ClusterStep) : s = cjob[j].todo
  BY <1>1, AtWork
<1>5. s # <<>> /\ Ordered(s)
  BY <1>1, <1>4, AtWork
<1>6. Has(s, "forget") /\ ~Has(s, "wait")
  <2>1. Len(s) \in Nat /\ Len(s) >= 1 /\ Head(s) = s[1]
    BY <1>5, TailFacts
  <2>2. Has(s, "stop ray")
    BY <1>1, <1>4, <2>1, FirstAndLast DEF Has
  <2>3. Has(s, "forget") /\ \A do : Has(s, do) => do \in {"stop ray", "forget"}
    BY <1>5, <2>2, TearOnly
  <2>4. Has(s, "wait") => "wait" \in {"stop ray", "forget"}
    BY <2>3
  <2> QED
    BY <2>3, <2>4
<1>7. Has(Tail(s), "forget") /\ ~Has(Tail(s), "wait")
  BY <1>1, <1>4, <1>5, <1>6, TailHas
<1>8. FlagHolds(j)'
  BY <1>0, <1>1, <1>2, <1>3, FlagKeeps
<1>9. RayReaches(j)'
  BY <1>2, <1>4, <1>7 DEF Went, RayReaches
<1>10. ImageReaches(j)'
  BY <1>0, <1>1, <1>2, <1>3, ImageKeeps
<1>11. NothingFormer(j)'
  BY <1>0, <1>1, <1>2, <1>3, <1>a, FormerKeeps
<1>12. RayStarted(j)' /\ RollsAtEnd(j)'
  BY <1>0, <1>1, <1>2, <1>3, StartedKeeps
<1>13. Makes(j)'
  BY <1>8, <1>9, <1>10, <1>11, <1>12 DEF Makes
<1>14. CompleteIsFormed'
  BY <1>2, <1>4, <1>7 DEF Went, CompleteIsFormed
<1>15. "ray" \notin settled /\ "instances" \notin settled
  <2>1. Rank(Head(cjob[j].todo).do) = 3
    BY <1>1, Ranks
  <2> QED
    BY <1>1, <1>3, <2>1, NothingSettled
<1>16. RaySettled' /\ InstancesSettled'
  BY <1>0, <1>15 DEF RaySettled, InstancesSettled
<1> QED
  BY <1>1, <1>2, <1>13, <1>14, <1>16, CalmAfter DEF Calm

(* The last step of a job: nothing is left.                                 *)
LEMMA LastStep ==
  ASSUME JobsShape, NEW j \in ClusterJobs, Busy(j), Onward(j),
         Head(cjob[j].todo).do \in {"verify", "roll", "forget"}
  PROVE  Went(j) /\ cjob'[j].todo = <<>> /\ Makes(j)'
<1>1. Went(j)
  BY OnwardGoes
<1>2. PICK s \in Seq(ClusterStep) : s = cjob[j].todo
  BY AtWork
<1>3. s # <<>> /\ Ordered(s)
  BY <1>2, AtWork
<1>4. Tail(s) = <<>>
  BY <1>2, <1>3, LastEnds
<1>5. cjob'[j].todo = <<>>
  BY <1>1, <1>2, <1>4 DEF Went
<1> QED
  BY <1>1, <1>5, IdleMakesNext

LEMMA HeadIsHad ==
  ASSUME JobsShape, NEW j \in ClusterJobs, Busy(j)
  PROVE  Has(cjob[j].todo, Head(cjob[j].todo).do)
<1>1. PICK s \in Seq(ClusterStep) : s = cjob[j].todo
  BY AtWork
<1>2. Len(s) \in Nat /\ Len(s) >= 1 /\ Head(s) = s[1]
  BY <1>1, AtWork, TailFacts
<1> QED
  BY <1>1, <1>2, FirstAndLast DEF Has

LEMMA CalmVerify ==
  ASSUME JobsShape, Calm, NEW j \in ClusterJobs, VerifyCluster(j)
  PROVE  Calm'
<1>0. /\ image' = image /\ ray' = ray /\ serving' = serving /\ settled' = settled
      /\ unstarted' = unstarted /\ kept' = kept
  BY DEF VerifyCluster, nodeSide, instance
<1>a. ServesRecorded => ServesRecorded'
  BY <1>0 DEF ServesRecorded
<1>1. Busy(j) /\ Onward(j) /\ Head(cjob[j].todo).do = "verify"
  BY DEF Doing, VerifyCluster
<1>2. Went(j) /\ Makes(j)'
  BY <1>1, LastStep
<1>3. cjob[j].flag = complete
  BY <1>1, HeadIsHad DEF Calm, Makes, FlagHolds
<1>4. complete' => Formed
  <2>1. PICK ok \in {FALSE, Formed} : complete' = Column(cjob[j].flag, ok, complete)
    BY DEF VerifyCluster
  <2>2. complete' = ok
    BY <1>3, <2>1, ZenonT(30) DEF Column
  <2>3. ok = FALSE \/ ok = Formed
    BY <2>1, ZenonT(30)
  <2> QED
    BY <2>2, <2>3, ZenonT(30)
<1>5. CompleteIsFormed'
  BY <1>0, <1>4 DEF CompleteIsFormed, Formed, RayUp
<1>6. RaySettled' /\ InstancesSettled'
  BY <1>0, <1>a DEF Calm, RaySettled, InstancesSettled
<1> QED
  BY <1>1, <1>2, <1>5, <1>6, CalmAfter DEF Calm

LEMMA CalmForget ==
  ASSUME JobsShape, Calm, NEW j \in ClusterJobs, Forget(j)
  PROVE  Calm'
<1>0. /\ image' = image /\ ray' = ray /\ serving' = serving /\ settled' = settled
      /\ unstarted' = unstarted /\ kept' = kept
  BY DEF Forget, nodeSide, instance
<1>a. ServesRecorded => ServesRecorded'
  BY <1>0 DEF ServesRecorded
<1>1. Busy(j) /\ Onward(j) /\ Head(cjob[j].todo).do = "forget"
  BY DEF Doing, Forget
<1>2. Went(j) /\ Makes(j)'
  BY <1>1, LastStep
<1>3. cjob[j].flag = complete
  BY <1>1, HeadIsHad DEF Calm, Makes, FlagHolds
<1>4. ~complete'
  BY <1>3 DEF Forget, Column
<1>5. CompleteIsFormed'
  BY <1>4 DEF CompleteIsFormed
<1>6. RaySettled' /\ InstancesSettled'
  BY <1>0, <1>a DEF Calm, RaySettled, InstancesSettled
<1> QED
  BY <1>1, <1>2, <1>5, <1>6, CalmAfter DEF Calm

(* An instance that was listed serves with the image of the job, which was  *)
(* recorded, or not at all, or its restart failed.                          *)
LEMMA CalmRoll ==
  ASSUME ClusterShape, Calm, NEW j \in ClusterJobs, Roll(j)
  PROVE  Calm'
<1>0. /\ image' = image /\ ray' = ray /\ complete' = complete /\ unstarted' = unstarted
      /\ settled' = settled \union {"instances"} /\ JobsShape
  BY DEF Roll, Settle, ClusterShape, nodeSide
<1>1. Busy(j) /\ Onward(j) /\ Head(cjob[j].todo).do = "roll"
  BY DEF Doing, Roll
<1>2. Went(j) /\ Makes(j)'
  BY <1>0, <1>1, LastStep
<1>3. PICK s \in Seq(ClusterStep) : s = cjob[j].todo
  BY <1>0, <1>1, AtWork
<1>4. s # <<>> /\ Ordered(s)
  BY <1>0, <1>1, <1>3, AtWork
<1>5. Has(s, "roll")
  BY <1>0, <1>1, <1>3, HeadIsHad
<1>6. ~Has(s, "record") /\ ~Has(s, "list")
  <2>1. Rank("roll") = 6 /\ Rank("record") = 2 /\ Rank("list") = 5
    BY Ranks
  <2> QED
    BY <1>1, <1>3, <1>4, <2>1, HeadFirst
<1>7. image = cjob[j].cfg
  BY <1>3, <1>5, <1>6 DEF Calm, Makes, ImageReaches
<1>8. ~cjob[j].listed => ServesRecorded
  BY <1>3, <1>5, <1>6 DEF Calm, Makes, NothingFormer
<1>9. ServesRecorded'
  <2>1. CASE cjob[j].listed /\ Rerun(j)
    BY <1>0, <1>7, <2>1 DEF Rerun, ServesRecorded
  <2>2. CASE cjob[j].listed /\ RerunFails
    BY <2>2 DEF RerunFails, ServesRecorded
  <2>3. CASE ~cjob[j].listed
    BY <1>0, <1>8, <2>3 DEF Roll, ServesRecorded
  <2> QED
    BY <2>1, <2>2, <2>3 DEF Roll
<1>10. RayUp => RayUp'
  BY <1>0 DEF RayUp
<1>11. CompleteIsFormed'
  BY <1>0, <1>1, <1>2, <1>10, FormedKeeps DEF Calm
<1>12. RaySettled'
  BY <1>0 DEF Calm, RaySettled
<1>13. InstancesSettled'
  BY <1>0, <1>9 DEF InstancesSettled
<1> QED
  BY <1>1, <1>2, <1>11, <1>12, <1>13, CalmAfter DEF Calm

(* A job that raises before it changed anything that was recorded.          *)
LEMMA CalmRaise ==
  ASSUME JobsShape, Calm, NEW j \in ClusterJobs, Raise(j)
  PROVE  Calm'
<1>0. /\ image' = image /\ ray' = ray /\ serving' = serving /\ settled' = settled
      /\ complete' = complete /\ unstarted' = unstarted /\ kept' = kept
  BY DEF Raise, nodeSide, instance
<1>a. ServesRecorded => ServesRecorded'
  BY <1>0 DEF ServesRecorded
<1>1. Busy(j) /\ Ends(j) /\ Head(cjob[j].todo).do \in Early \union {"pull"}
  BY DEF Raise
<1>2. Rested(j)
  BY <1>1, EndsGoes
<1>3. Makes(j)'
  BY <1>2, IdleMakesNext DEF Rested
<1>4. ~Has(cjob[j].todo, "forget")
  <2>1. Head(cjob[j].todo).do \notin {"stop ray", "forget"}
    BY <1>1, EarlyWords
  <2> QED
    BY <1>1, <2>1, NotTearing
<1>5. complete => RayUp
  BY <1>1, <1>4, FormedOrForgets DEF Calm
<1>6. CompleteIsFormed'
  BY <1>0, <1>5 DEF CompleteIsFormed, RayUp
<1>7. RaySettled' /\ InstancesSettled'
  BY <1>0, <1>a DEF Calm, RaySettled, InstancesSettled
<1> QED
  BY <1>1, <1>2, <1>3, <1>6, <1>7, CalmAfter DEF Calm

LEMMA CalmOperate ==
  ASSUME Calm, Start \/ Launch \/ Stop \/ Observe
  PROVE  Calm'
<1>0. /\ image' = image /\ ray' = ray /\ cjob' = cjob /\ settled' = settled
      /\ complete' = complete /\ unstarted' = unstarted
  BY DEF Start, Launch, Stop, Observe, nodeSide
<1>a. ServesRecorded => ServesRecorded'
  <2>1. CASE Start \/ Observe
    BY <2>1 DEF Start, Observe, ServesRecorded
  <2>2. CASE Stop
    BY <2>2 DEF Stop, ServesRecorded
  <2>3. CASE Launch
    BY <2>3 DEF Launch, ServesRecorded
  <2> QED
    BY <2>1, <2>2, <2>3
<1>1. AloneAtWork' /\ CompleteIsFormed' /\ RaySettled' /\ InstancesSettled'
  BY <1>0, <1>a DEF Calm, AloneAtWork, CompleteIsFormed, RaySettled, InstancesSettled,
                    Busy, RayUp
<1>2. ASSUME NEW j \in ClusterJobs PROVE Makes(j)'
  <2>1. Makes(j)
    BY DEF Calm
  <2>2. FlagHolds(j)' /\ RayReaches(j)' /\ ImageReaches(j)'
    BY <1>0, <2>1 DEF Makes, FlagHolds, RayReaches, ImageReaches
  <2>3. NothingFormer(j)'
    BY <1>0, <1>a, <2>1 DEF Makes, NothingFormer
  <2>4. RayStarted(j)' /\ RollsAtEnd(j)'
    BY <1>0, <2>1 DEF Makes, RayStarted, RollsAtEnd, Busy
  <2> QED
    BY <2>2, <2>3, <2>4 DEF Makes
<1> QED
  BY <1>1, <1>2 DEF Calm

(* With every job at rest nothing that is yet to come holds anything back.  *)
LEMMA FormedAtRest ==
  ASSUME Calm, \A j \in ClusterJobs : ~Busy(j)
  PROVE  complete => RayUp
<1>1. \A j \in ClusterJobs : cjob[j].todo = <<>>
  BY DEF Busy
<1>2. \A j \in ClusterJobs : ~Has(cjob[j].todo, "forget")
  BY <1>1, NothingToDo
<1> QED
  BY <1>2 DEF Calm, CompleteIsFormed

LEMMA CalmConfig ==
  ASSUME Calm, UpdateConfig, disturbed' = FALSE
  PROVE  Calm'
<1>0. /\ ray' = ray /\ cjob' = cjob /\ settled' = {} /\ complete' = complete
      /\ unstarted' = unstarted /\ \A j \in ClusterJobs : ~Busy(j)
  BY DEF UpdateConfig, nodeSide
<1>1. complete => RayUp
  BY <1>0, FormedAtRest
<1>2. AloneAtWork' /\ CompleteIsFormed' /\ RaySettled' /\ InstancesSettled'
  BY <1>0, <1>1 DEF AloneAtWork, CompleteIsFormed, RaySettled, InstancesSettled, Busy,
                    RayUp
<1>3. ASSUME NEW j \in ClusterJobs PROVE Makes(j)'
  <2>1. cjob'[j].todo = <<>>
    BY <1>0 DEF Busy
  <2> QED
    BY <2>1, IdleMakesNext
<1> QED
  BY <1>2, <1>3 DEF Calm

-----------------------------------------------------------------------------
(* The steps a job may begin with.                                          *)
GoodStart(s) ==
  /\ s \in Seq(ClusterStep) /\ Ordered(s)
  /\ Has(s, "wait") => \A n \in ClusterNodes : RayTo(s, n)
  /\ Has(s, "wait") \/ Has(s, "roll") => Has(s, "record")
  /\ Has(s, "roll") => Has(s, "list")

LEMMA BeginGoes ==
  ASSUME JobsShape, PartsShape, NEW j \in ClusterJobs, NEW s, GoodStart(s), NEW target \in Images,
         Begin(j, s, target)
  PROVE  /\ JobsShape' /\ cjob'[j].todo = s /\ cjob'[j].flag = complete
         /\ \A k \in ClusterJobs : k # j => cjob'[k] = cjob[k]
<1>1. PICK q : q = [todo |-> s, cfg |-> target, flag |-> complete, listed |-> FALSE]
  OBVIOUS
<1>2. s \in Seq(ClusterStep) /\ Ordered(s)
  BY DEF GoodStart
<1>3. q \in ClusterJobRecs /\ q.todo = s /\ q.flag = complete /\ q.cfg = target
  BY <1>1, <1>2 DEF ClusterJobRecs, PartsShape
<1>4. cjob' = [cjob EXCEPT ![j] = q]
  BY <1>1 DEF Begin
<1>5. /\ JobsShape' /\ cjob'[j] = q
      /\ \A k \in ClusterJobs : k # j => cjob'[k] = cjob[k]
  BY <1>2, <1>3, <1>4, JobSet
<1> QED
  BY <1>3, <1>5

LEMMA CalmBegin ==
  ASSUME JobsShape, PartsShape, Calm, NEW j \in ClusterJobs, NEW s, GoodStart(s), NEW target \in Images,
         Begin(j, s, target), disturbed' = FALSE
  PROVE  Calm'
<1>0. /\ ray' = ray /\ unstarted' = unstarted /\ settled' = {}
      /\ complete' = complete /\ \A k \in ClusterJobs : ~Busy(k)
  BY DEF Begin, nodeSide
<1>1. /\ cjob'[j].todo = s /\ cjob'[j].flag = complete
      /\ \A k \in ClusterJobs : k # j => cjob'[k] = cjob[k]
  BY BeginGoes
<1>2. \A k \in ClusterJobs : k # j => cjob'[k].todo = <<>>
  BY <1>0, <1>1 DEF Busy
<1>3. AloneAtWork'
  BY <1>2 DEF AloneAtWork, Busy
<1>4. complete => RayUp
  BY <1>0, FormedAtRest
<1>5. CompleteIsFormed' /\ RaySettled' /\ InstancesSettled'
  BY <1>0, <1>4 DEF CompleteIsFormed, RaySettled, InstancesSettled, RayUp
<1>6. Makes(j)'
  <2>1. FlagHolds(j)'
    BY <1>0, <1>1 DEF FlagHolds
  <2>2. RayReaches(j)'
    BY <1>1 DEF RayReaches, GoodStart
  <2>3. ImageReaches(j)'
    BY <1>1 DEF ImageReaches, GoodStart
  <2>4. NothingFormer(j)'
    BY <1>1 DEF NothingFormer, GoodStart
  <2>5. RayStarted(j)' /\ RollsAtEnd(j)'
    BY <1>0 DEF RayStarted, RollsAtEnd
  <2> QED
    BY <2>1, <2>2, <2>3, <2>4, <2>5 DEF Makes
<1>7. ASSUME NEW k \in ClusterJobs PROVE Makes(k)'
  BY <1>2, <1>6, IdleMakesNext
<1> QED
  BY <1>3, <1>5, <1>7 DEF Calm

-----------------------------------------------------------------------------
(* The shape, action by action.                                             *)
LEMMA ShapeQuiet ==
  ASSUME ClusterShape, NEW j \in ClusterJobs,
         Raise(j) \/ CutOff(j) \/ Prepare(j) \/ List(j)
  PROVE  ClusterShape'
<1>0. JobsShape /\ PartsShape
  BY DEF ClusterShape
<1>1. CASE Raise(j) \/ CutOff(j)
  <2>1. JobsShape'
    BY <1>0, <1>1, EndsGoes DEF Raise, CutOff
  <2>2. PartsShape'
    BY <1>0, <1>1 DEF Raise, CutOff, PartsShape, nodeSide, instance
  <2> QED
    BY <2>1, <2>2 DEF ClusterShape
<1>2. CASE Prepare(j)
  <2>1. JobsShape'
    BY <1>0, <1>2, OnwardGoes DEF Prepare
  <2>2. PartsShape'
    BY <1>0, <1>2 DEF Prepare, PartsShape, nodeSide, instance
  <2> QED
    BY <2>1, <2>2 DEF ClusterShape
<1>3. CASE List(j)
  <2>1. PICK b \in BOOLEAN : b = (instStatus = "active")
    OBVIOUS
  <2>2. OnwardListed(j, b) /\ Busy(j)
    BY <1>3, <2>1 DEF List, OnwardListed, Doing
  <2>3. JobsShape'
    BY <1>0, <2>2, ListedGoes
  <2>4. kept' \subseteq Keepings
    BY <1>0, <1>3 DEF List, PartsShape, Keepings
  <2>5. PartsShape'
    BY <1>0, <1>3, <2>4 DEF List, PartsShape, nodeSide
  <2> QED
    BY <2>3, <2>5 DEF ClusterShape
<1> QED
  BY <1>1, <1>2, <1>3

LEMMA ShapeRay ==
  ASSUME ClusterShape, NEW j \in ClusterJobs, StartRay(j) \/ StopRay(j)
  PROVE  ClusterShape'
<1>0. JobsShape /\ PartsShape
  BY DEF ClusterShape
<1>1. Busy(j)
  BY DEF StartRay, StopRay, Doing
<1>2. JobsShape'
  BY <1>0, <1>1, OnwardGoes, EndsGoes DEF StartRay, StopRay
<1>3. CASE StartRay(j)
  <2>1. /\ ray' \in [ClusterNodes -> Images \union {NoImage}]
        /\ unstarted' \subseteq 0..NumNodes
    BY <1>3, RayChanges DEF StartedOrNot
  <2>2. PartsShape'
    BY <1>0, <1>3, <2>1 DEF StartRay, PartsShape, instance
  <2> QED
    BY <1>2, <2>2 DEF ClusterShape
<1>4. CASE StopRay(j)
  <2>1. PICK n : n = Node(j)
    OBVIOUS
  <2>2. PICK left \in {ray[n], NoImage} : ray' = [ray EXCEPT ![n] = left]
    BY <1>4, <2>1 DEF StopRay
  <2>3. ray \in [ClusterNodes -> Images \union {NoImage}]
    BY <1>0 DEF PartsShape
  <2>4. ray' \in [ClusterNodes -> Images \union {NoImage}]
    <3>1. CASE n \in ClusterNodes
      BY <2>2, <2>3, <3>1
    <3>2. CASE n \notin ClusterNodes
      BY <2>2, <2>3, <3>2
    <3> QED
      BY <3>1, <3>2
  <2>5. PartsShape'
    BY <1>0, <1>4, <2>4 DEF StopRay, PartsShape, instance
  <2> QED
    BY <1>2, <2>5 DEF ClusterShape
<1> QED
  BY <1>3, <1>4

LEMMA ShapeRecords ==
  ASSUME ClusterShape, NEW j \in ClusterJobs,
         \/ VerifyCluster(j) \/ Record(j) \/ Wait(j) \/ Roll(j) \/ Forget(j)
  PROVE  ClusterShape'
<1>0. JobsShape /\ PartsShape
  BY DEF ClusterShape
<1>1. Busy(j) /\ Onward(j)
  BY DEF VerifyCluster, Record, Wait, Roll, Forget, Doing
<1>2. JobsShape' /\ cjob[j].cfg \in Images
  BY <1>0, <1>1, OnwardGoes, AtWork
<1>3. CASE VerifyCluster(j)
  <2>1. complete' \in BOOLEAN
    <3>1. PICK ok \in {FALSE, Formed} : complete' = Column(cjob[j].flag, ok, complete)
      BY <1>3 DEF VerifyCluster
    <3>2. complete' = ok \/ complete' = complete
      BY <3>1, ZenonT(30) DEF Column
    <3>3. ok \in BOOLEAN /\ complete \in BOOLEAN
      BY <1>0, <3>1, ZenonT(30) DEF PartsShape, Formed
    <3> QED
      BY <3>2, <3>3, ZenonT(30)
  <2>2. PartsShape'
    BY <1>0, <1>3, <2>1 DEF VerifyCluster, PartsShape, nodeSide, instance
  <2> QED
    BY <1>2, <2>2 DEF ClusterShape
<1>4. CASE Forget(j)
  <2>1. complete' \in BOOLEAN
    BY <1>0, <1>4 DEF Forget, Column, PartsShape
  <2>2. PartsShape'
    BY <1>0, <1>4, <2>1 DEF Forget, PartsShape, nodeSide, instance
  <2> QED
    BY <1>2, <2>2 DEF ClusterShape
<1>5. CASE Record(j)
  <2>1. PartsShape'
    BY <1>0, <1>2, <1>5 DEF Record, PartsShape, nodeSide, instance
  <2> QED
    BY <1>2, <2>1 DEF ClusterShape
<1>6. CASE Wait(j)
  <2>1. PartsShape'
    BY <1>0, <1>6 DEF Wait, Settle, PartsShape, nodeSide, instance
  <2> QED
    BY <1>2, <2>1 DEF ClusterShape
<1>7. CASE Roll(j)
  <2>0. /\ image' = image /\ complete' = complete /\ begun' = begun /\ ray' = ray
        /\ unstarted' = unstarted /\ launch' = launch /\ disturbed' = disturbed
        /\ settled' = settled \union {"instances"}
    BY <1>7 DEF Roll, Settle, nodeSide
  <2>1. /\ serving' \in Images \union {NoImage} /\ kept' \subseteq Keepings
        /\ instStatus' \in {"stopped", "active", "error"}
    <3>1. /\ serving \in Images \union {NoImage} /\ kept \subseteq Keepings
          /\ instStatus \in {"stopped", "active", "error"}
      BY <1>0 DEF PartsShape
    <3>2. Rerun(j) \/ RerunFails \/ UNCHANGED <<serving, instStatus, kept>>
      BY <1>7 DEF Roll
    <3>3. CASE Rerun(j)
      BY <1>2, <3>1, <3>3 DEF Rerun
    <3>4. CASE RerunFails
      BY <3>1, <3>4 DEF RerunFails, Keepings
    <3>5. CASE UNCHANGED <<serving, instStatus, kept>>
      BY <3>1, <3>5
    <3> QED
      BY <3>2, <3>3, <3>4, <3>5
  <2>2. PartsShape'
    BY <1>0, <2>0, <2>1 DEF PartsShape
  <2> QED
    BY <1>2, <2>2 DEF ClusterShape
<1> QED
  BY <1>3, <1>4, <1>5, <1>6, <1>7

LEMMA ShapeBegin ==
  ASSUME ClusterShape, NEW j \in ClusterJobs, NEW s, GoodStart(s), NEW target \in Images,
         Begin(j, s, target)
  PROVE  ClusterShape'
<1>0. JobsShape /\ PartsShape
  BY DEF ClusterShape
<1>1. JobsShape'
  BY <1>0, BeginGoes
<1>2. begun' \in 0..MaxJobs
  <2>1. begun < MaxJobs /\ begun' = begun + 1
    BY DEF Begin
  <2>2. begun \in 0..MaxJobs /\ MaxJobs \in Nat
    BY <1>0, ClusterAssumption DEF PartsShape
  <2> QED
    BY <2>1, <2>2
<1>3. disturbed' \in BOOLEAN
  BY <1>0 DEF Begin, PartsShape
<1>4. PartsShape'
  BY <1>0, <1>2, <1>3 DEF Begin, PartsShape, nodeSide
<1> QED
  BY <1>1, <1>4 DEF ClusterShape

LEMMA ShapeOperators ==
  ASSUME ClusterShape, Start \/ Launch \/ Stop \/ Observe \/ UpdateConfig
  PROVE  ClusterShape'
<1>0. JobsShape /\ PartsShape /\ cjob' = cjob
  BY DEF ClusterShape, Start, Launch, Stop, Observe, UpdateConfig
<1>1. JobsShape'
  BY <1>0 DEF JobsShape, Busy
<1>2. CASE Start \/ Stop \/ Observe
  <2>1. /\ serving' \in Images \union {NoImage} /\ kept' = kept
        /\ instStatus' \in {"stopped", "active", "error"}
        /\ launch' \in Images \union {NoImage}
    BY <1>0, <1>2 DEF Start, Stop, Observe, PartsShape
  <2> QED
    BY <1>0, <1>1, <1>2, <2>1 DEF Start, Stop, Observe, PartsShape, ClusterShape, nodeSide
<1>3. CASE Launch
  <2>1. /\ serving' \in Images \union {NoImage} /\ kept' \subseteq Keepings
        /\ instStatus' \in {"stopped", "active", "error"}
        /\ launch' \in Images \union {NoImage}
    BY <1>0, <1>3 DEF Launch, PartsShape, Keepings
  <2> QED
    BY <1>0, <1>1, <1>3, <2>1 DEF Launch, PartsShape, ClusterShape, nodeSide
<1>4. CASE UpdateConfig
  <2>1. disturbed' \in BOOLEAN /\ image' \in Images
    BY <1>0, <1>4 DEF UpdateConfig, PartsShape
  <2> QED
    BY <1>0, <1>1, <1>4, <2>1 DEF UpdateConfig, PartsShape, ClusterShape, nodeSide, instance
<1> QED
  BY <1>2, <1>3, <1>4

-----------------------------------------------------------------------------
(* The pieces that jobs are put together of.                                *)
Piece(s, lo, hi) ==
  /\ s \in Seq(ClusterStep) /\ Sorted(s)
  /\ \A k \in 1..Len(s) : Rank(s[k].do) \in lo..hi

Words == Early \union {"pull", "ray", "verify", "record", "wait", "list", "roll",
                       "stop ray", "forget"}

LEMMA CatAt ==
  ASSUME NEW s \in Seq(ClusterStep), NEW t \in Seq(ClusterStep)
  PROVE  /\ s \o t \in Seq(ClusterStep) /\ Len(s \o t) = Len(s) + Len(t)
         /\ Len(s) \in Nat /\ Len(t) \in Nat
         /\ \A k \in 1..Len(s \o t) :
              \/ k \in 1..Len(s) /\ (s \o t)[k] = s[k]
              \/ k - Len(s) \in 1..Len(t) /\ k > Len(s) /\ (s \o t)[k] = t[k - Len(s)]
<1>1. /\ s \o t \in Seq(ClusterStep) /\ Len(s \o t) = Len(s) + Len(t)
      /\ \A k \in 1..(Len(s) + Len(t)) :
           (s \o t)[k] = IF k <= Len(s) THEN s[k] ELSE t[k - Len(s)]
  BY ConcatProperties
<1>2. Len(s) \in Nat /\ Len(t) \in Nat
  BY LenProperties
<1> QED
  BY <1>1, <1>2

LEMMA CatHas ==
  ASSUME NEW s \in Seq(ClusterStep), NEW t \in Seq(ClusterStep), NEW do
  PROVE  Has(s \o t, do) <=> Has(s, do) \/ Has(t, do)
<1>1. /\ Len(s \o t) = Len(s) + Len(t) /\ Len(s) \in Nat /\ Len(t) \in Nat
      /\ \A k \in 1..(Len(s) + Len(t)) :
           (s \o t)[k] = IF k <= Len(s) THEN s[k] ELSE t[k - Len(s)]
  BY ConcatProperties, LenProperties
<1>2. ASSUME Has(s, do) PROVE Has(s \o t, do)
  <2>1. PICK k \in 1..Len(s) : s[k].do = do
    BY <1>2 DEF Has
  <2>2. k \in 1..Len(s \o t) /\ (s \o t)[k].do = do
    BY <1>1, <2>1
  <2> QED
    BY <2>2 DEF Has
<1>3. ASSUME Has(t, do) PROVE Has(s \o t, do)
  <2>1. PICK k \in 1..Len(t) : t[k].do = do
    BY <1>3 DEF Has
  <2>2. k + Len(s) \in 1..(Len(s) + Len(t)) /\ ~(k + Len(s) <= Len(s))
        /\ (k + Len(s)) - Len(s) = k
    BY <1>1, <2>1
  <2>3. (s \o t)[k + Len(s)] = t[k]
    BY <1>1, <2>2
  <2> QED
    BY <1>1, <2>1, <2>2, <2>3 DEF Has
<1>4. ASSUME Has(s \o t, do) PROVE Has(s, do) \/ Has(t, do)
  <2>1. PICK k \in 1..Len(s \o t) : (s \o t)[k].do = do
    BY <1>4 DEF Has
  <2>2. CASE k <= Len(s)
    BY <1>1, <2>1, <2>2 DEF Has
  <2>3. CASE k > Len(s)
    <3>1. k - Len(s) \in 1..Len(t) /\ t[k - Len(s)].do = do
      BY <1>1, <2>1, <2>3
    <3> QED
      BY <3>1 DEF Has
  <2> QED
    BY <1>1, <2>1, <2>2, <2>3
<1> QED
  BY <1>2, <1>3, <1>4

LEMMA CatRayTo ==
  ASSUME NEW s \in Seq(ClusterStep), NEW t \in Seq(ClusterStep), NEW n
  PROVE  RayTo(s, n) \/ RayTo(t, n) => RayTo(s \o t, n)
<1>1. /\ Len(s \o t) = Len(s) + Len(t) /\ Len(s) \in Nat /\ Len(t) \in Nat
      /\ \A k \in 1..(Len(s) + Len(t)) :
           (s \o t)[k] = IF k <= Len(s) THEN s[k] ELSE t[k - Len(s)]
  BY ConcatProperties, LenProperties
<1>2. ASSUME RayTo(s, n) PROVE RayTo(s \o t, n)
  <2>1. PICK k \in 1..Len(s) : s[k].do = "ray" /\ s[k].node = n
    BY <1>2 DEF RayTo
  <2>2. k \in 1..Len(s \o t) /\ (s \o t)[k] = s[k]
    BY <1>1, <2>1
  <2> QED
    BY <2>1, <2>2 DEF RayTo
<1>3. ASSUME RayTo(t, n) PROVE RayTo(s \o t, n)
  <2>1. PICK k \in 1..Len(t) : t[k].do = "ray" /\ t[k].node = n
    BY <1>3 DEF RayTo
  <2>2. k + Len(s) \in 1..(Len(s) + Len(t)) /\ ~(k + Len(s) <= Len(s))
        /\ (k + Len(s)) - Len(s) = k
    BY <1>1, <2>1
  <2>3. (s \o t)[k + Len(s)] = t[k]
    BY <1>1, <2>2
  <2> QED
    BY <1>1, <2>1, <2>2, <2>3 DEF RayTo
<1> QED
  BY <1>2, <1>3

LEMMA CatPiece ==
  ASSUME NEW a \in Nat, NEW b \in Nat, NEW c \in Nat, NEW d \in Nat, a <= b, b < c, c <= d,
         NEW s, NEW t, Piece(s, a, b), Piece(t, c, d)
  PROVE  Piece(s \o t, a, d)
<1>1. s \in Seq(ClusterStep) /\ t \in Seq(ClusterStep)
  BY DEF Piece
<1>2. /\ s \o t \in Seq(ClusterStep) /\ Len(s) \in Nat /\ Len(t) \in Nat
      /\ \A k \in 1..Len(s \o t) :
           \/ k \in 1..Len(s) /\ (s \o t)[k] = s[k]
           \/ k - Len(s) \in 1..Len(t) /\ k > Len(s) /\ (s \o t)[k] = t[k - Len(s)]
  BY <1>1, CatAt
<1>3. ASSUME NEW k \in 1..Len(s \o t) PROVE Rank((s \o t)[k].do) \in a..d
  <2>1. CASE k \in 1..Len(s) /\ (s \o t)[k] = s[k]
    <3>1. Rank(s[k].do) \in a..b
      BY <2>1 DEF Piece
    <3> QED
      BY <2>1, <3>1
  <2>2. CASE k - Len(s) \in 1..Len(t) /\ (s \o t)[k] = t[k - Len(s)]
    <3>1. Rank(t[k - Len(s)].do) \in c..d
      BY <2>2 DEF Piece
    <3> QED
      BY <2>2, <3>1
  <2> QED
    BY <1>2, <2>1, <2>2
<1>4. ASSUME NEW k \in 1..Len(s \o t), NEW m \in 1..Len(s \o t), k < m
      PROVE  \/ Rank((s \o t)[k].do) < Rank((s \o t)[m].do)
             \/ (s \o t)[k].do = (s \o t)[m].do /\ Rank((s \o t)[k].do) \in {0, 1, 3}
  <2>1. CASE m \in 1..Len(s) /\ (s \o t)[m] = s[m]
    <3>1. k \in 1..Len(s) /\ (s \o t)[k] = s[k]
      BY <1>2, <1>4, <2>1
    <3> QED
      BY <1>4, <2>1, <3>1 DEF Piece, Sorted
  <2>2. CASE m - Len(s) \in 1..Len(t) /\ m > Len(s) /\ (s \o t)[m] = t[m - Len(s)]
    <3>1. CASE k \in 1..Len(s) /\ (s \o t)[k] = s[k]
      <4>1. Rank(s[k].do) \in a..b
        BY <3>1 DEF Piece
      <4>2. Rank(t[m - Len(s)].do) \in c..d
        BY <2>2 DEF Piece
      <4> QED
        BY <2>2, <3>1, <4>1, <4>2
    <3>2. CASE k - Len(s) \in 1..Len(t) /\ k > Len(s) /\ (s \o t)[k] = t[k - Len(s)]
      <4>1. k - Len(s) < m - Len(s)
        BY <1>2, <1>4
      <4>2. PICK p \in 1..Len(t), q \in 1..Len(t) : p = k - Len(s) /\ q = m - Len(s)
        BY <2>2, <3>2
      <4>3. p < q
        BY <4>1, <4>2
      <4>4. \/ Rank(t[p].do) < Rank(t[q].do)
            \/ t[p].do = t[q].do /\ Rank(t[p].do) \in {0, 1, 3}
        BY <4>3 DEF Piece, Sorted
      <4>5. (s \o t)[k] = t[p] /\ (s \o t)[m] = t[q]
        BY <2>2, <3>2, <4>2
      <4> QED
        BY <4>4, <4>5
    <3> QED
      BY <1>2, <3>1, <3>2
  <2> QED
    BY <1>2, <2>1, <2>2
<1>5. Sorted(s \o t)
  BY <1>4 DEF Sorted
<1> QED
  BY <1>2, <1>3, <1>5 DEF Piece

LEMMA StepMade ==
  ASSUME NEW do \in Words, NEW n \in 0..NumNodes
  PROVE  [do |-> do, node |-> n] \in ClusterStep
<1>1. ClusterStep = [do : Words, node : 0..NumNodes]
  BY DEF ClusterStep, Words
<1> QED
  BY <1>1

LEMMA EachPiece ==
  ASSUME NEW do \in Words, Rank(do) \in {0, 1, 3}
  PROVE  /\ Piece(Each(do), Rank(do), Rank(do))
         /\ \A x : Has(Each(do), x) => x = do
         /\ Has(Each(do), do)
         /\ do = "ray" => \A n \in ClusterNodes : RayTo(Each(do), n)
<1>1. NumNodes \in Nat /\ NumNodes >= 1
  <2>1. NumNodes \in Nat \ {0}
    BY ClusterAssumption
  <2> QED
    BY <2>1
<1>2. \A n \in ClusterNodes : [do |-> do, node |-> n] \in ClusterStep
  <2> SUFFICES ASSUME NEW n \in ClusterNodes PROVE [do |-> do, node |-> n] \in ClusterStep
    OBVIOUS
  <2>1. n \in 0..NumNodes
    BY <1>1 DEF ClusterNodes
  <2> QED
    BY <2>1, StepMade
<1>3. PICK s : s = Each(do)
  OBVIOUS
<1>4. s \in [1..NumNodes -> ClusterStep]
  BY <1>2, <1>3 DEF Each, ClusterNodes
<1>5. s \in Seq(ClusterStep) /\ Len(s) = NumNodes
  BY <1>1, <1>4, SeqDef, LenProperties
<1>6. \A k \in 1..Len(s) : s[k].do = do /\ s[k].node = k
  BY <1>3, <1>5 DEF Each, ClusterNodes
<1>7. Sorted(s)
  BY <1>6 DEF Sorted
<1>8. \A k \in 1..Len(s) : Rank(s[k].do) \in Rank(do)..Rank(do)
  <2>1. Rank(do) \in Rank(do)..Rank(do)
    <3>1. PICK r \in {0, 1, 3} : r = Rank(do)
      OBVIOUS
    <3>2. r \in r..r
      OBVIOUS
    <3> QED
      BY <3>1, <3>2
  <2> QED
    BY <1>6, <2>1
<1>9. Piece(s, Rank(do), Rank(do))
  BY <1>5, <1>7, <1>8 DEF Piece
<1>10. \A x : Has(s, x) => x = do
  BY <1>6 DEF Has
<1>11. Has(s, do)
  BY <1>1, <1>5, <1>6, FirstAndLast DEF Has
<1>12. do = "ray" => \A n \in ClusterNodes : RayTo(s, n)
  BY <1>5, <1>6 DEF RayTo, ClusterNodes
<1> QED
  BY <1>3, <1>9, <1>10, <1>11, <1>12

LEMMA OncePiece ==
  ASSUME NEW do \in Words
  PROVE  /\ Piece(Once(do), Rank(do), Rank(do))
         /\ \A x : Has(Once(do), x) => x = do
         /\ Has(Once(do), do)
<1>1. NumNodes \in Nat
  BY ClusterAssumption
<1>2. PICK e \in ClusterStep : e = [do |-> do, node |-> 0]
  <2>1. 0 \in 0..NumNodes
    BY <1>1
  <2>2. [do |-> do, node |-> 0] \in ClusterStep
    BY <2>1, StepMade
  <2> QED
    BY <2>2
<1>3. PICK s : s = <<e>>
  OBVIOUS
<1>4. s = Once(do) /\ e.do = do
  BY <1>2, <1>3 DEF Once
<1>5. s \in Seq(ClusterStep) /\ Len(s) = 1 /\ s[1] = e
  BY <1>3
<1>6. \A k \in 1..Len(s) : k = 1 /\ s[k].do = do
  BY <1>4, <1>5
<1>7. Sorted(s)
  BY <1>6 DEF Sorted
<1>8. Rank(e.do) \in 0..6
  BY Ranks
<1>9. Rank(do) \in Rank(do)..Rank(do)
  <2>1. PICK r \in 0..6 : r = Rank(do)
    BY <1>4, <1>8
  <2>2. r \in r..r
    OBVIOUS
  <2> QED
    BY <2>1, <2>2
<1>10. Piece(s, Rank(do), Rank(do))
  BY <1>5, <1>6, <1>7, <1>9 DEF Piece
<1>11. /\ \A x : Has(s, x) => x = do
       /\ Has(s, do)
  BY <1>5, <1>6 DEF Has
<1> QED
  BY <1>4, <1>10, <1>11

LEMMA NoPiece ==
  ASSUME NEW lo, NEW hi PROVE Piece(<<>>, lo, hi) /\ \A x : ~Has(<<>>, x)
BY NothingToDo DEF Piece, Ordered

-----------------------------------------------------------------------------
(* Setup, image update and teardown begin with such steps.                  *)
LEMMA SetupStarts ==
  ASSUME NEW names \in {Early \union {"image", "ray", "verify"}, {"ray"}, {"verify"}}
  PROVE  GoodStart(SetupSteps(names))
<1> DEFINE Asked(phase) == IF phase \in names THEN PhaseSteps(phase) ELSE <<>>
<1>1. /\ "pull" \in Words /\ "ray" \in Words /\ "verify" \in Words
      /\ "hosts" \in names => "hosts" \in Early
  BY DEF Words
<1>2. /\ Rank("pull") = 1 /\ Rank("ray") = 3 /\ Rank("verify") = 6
      /\ "hosts" \in Early => Rank("hosts") = 0
  BY Ranks
<1>3. PICK h : h = Asked("hosts")
  OBVIOUS
<1>4. Piece(h, 0, 0) /\ \A x : Has(h, x) => x = "hosts"
  <2>1. CASE "hosts" \in names
    <3>1. h = Each("hosts")
      BY <1>3, <2>1 DEF PhaseSteps
    <3>2. "hosts" \in Words /\ Rank("hosts") = 0
      BY <1>1, <1>2, <2>1 DEF Words
    <3>3. Piece(Each("hosts"), 0, 0) /\ \A x : Has(Each("hosts"), x) => x = "hosts"
      BY <3>2, EachPiece
    <3> QED
      BY <3>1, <3>3
  <2>2. CASE "hosts" \notin names
    BY <1>3, <2>2, NoPiece
  <2> QED
    BY <2>1, <2>2
<1>5. PICK i : i = Asked("image")
  OBVIOUS
<1>6. Piece(i, 1, 1) /\ \A x : Has(i, x) => x = "pull"
  <2>1. CASE "image" \in names
    <3>1. i = Each("pull")
      BY <1>5, <2>1 DEF PhaseSteps
    <3>2. Piece(Each("pull"), 1, 1) /\ \A x : Has(Each("pull"), x) => x = "pull"
      BY <1>1, <1>2, EachPiece
    <3> QED
      BY <3>1, <3>2
  <2>2. CASE "image" \notin names
    BY <1>5, <2>2, NoPiece
  <2> QED
    BY <2>1, <2>2
<1>7. PICK r : r = Asked("ray")
  OBVIOUS
<1>8. Piece(r, 3, 3) /\ \A x : Has(r, x) => x = "ray"
  <2>1. CASE "ray" \in names
    <3>1. r = Each("ray")
      BY <1>7, <2>1 DEF PhaseSteps
    <3>2. Piece(Each("ray"), 3, 3) /\ \A x : Has(Each("ray"), x) => x = "ray"
      BY <1>1, <1>2, EachPiece
    <3> QED
      BY <3>1, <3>2
  <2>2. CASE "ray" \notin names
    BY <1>7, <2>2, NoPiece
  <2> QED
    BY <2>1, <2>2
<1>9. PICK v : v = Asked("verify")
  OBVIOUS
<1>10. Piece(v, 6, 6) /\ \A x : Has(v, x) => x = "verify"
  <2>1. CASE "verify" \in names
    <3>1. v = Once("verify")
      BY <1>9, <2>1 DEF PhaseSteps
    <3>2. Piece(Once("verify"), 6, 6) /\ \A x : Has(Once("verify"), x) => x = "verify"
      BY <1>1, <1>2, OncePiece
    <3> QED
      BY <3>1, <3>2
  <2>2. CASE "verify" \notin names
    BY <1>9, <2>2, NoPiece
  <2> QED
    BY <2>1, <2>2
<1>11. Piece(h \o i, 0, 1)
  BY <1>4, <1>6, CatPiece
<1>12. Piece((h \o i) \o r, 0, 3)
  BY <1>8, <1>11, CatPiece
<1>13. Piece(((h \o i) \o r) \o v, 0, 6)
  BY <1>10, <1>12, CatPiece
<1>14. PICK s : s = ((h \o i) \o r) \o v
  OBVIOUS
<1>15. s = SetupSteps(names)
  BY <1>3, <1>5, <1>7, <1>9, <1>14 DEF SetupSteps
<1>16. ASSUME NEW x PROVE Has(s, x) => x = "hosts" \/ x = "pull" \/ x = "ray" \/ x = "verify"
  <2>1. /\ h \in Seq(ClusterStep) /\ i \in Seq(ClusterStep) /\ r \in Seq(ClusterStep)
        /\ v \in Seq(ClusterStep) /\ h \o i \in Seq(ClusterStep)
        /\ (h \o i) \o r \in Seq(ClusterStep)
    BY <1>4, <1>6, <1>8, <1>10, <1>11, <1>12 DEF Piece
  <2>2. Has(s, x) => Has(h, x) \/ Has(i, x) \/ Has(r, x) \/ Has(v, x)
    BY <1>14, <2>1, CatHas
  <2> QED
    BY <1>4, <1>6, <1>8, <1>10, <2>2
<1>17. /\ ~Has(s, "stop ray") /\ ~Has(s, "forget") /\ ~Has(s, "roll") /\ ~Has(s, "wait")
  BY <1>16
<1>18. s \in Seq(ClusterStep) /\ Sorted(s)
  BY <1>13, <1>14 DEF Piece
<1> QED
  BY <1>15, <1>17, <1>18 DEF GoodStart, Ordered, TearShape, RollShape

LEMMA UpdateStarts ==
  ASSUME NEW restartRay \in BOOLEAN, NEW restartInstances \in BOOLEAN
  PROVE  GoodStart(UpdateSteps(restartRay, restartInstances))
<1>1. /\ "pull" \in Words /\ "ray" \in Words /\ "record" \in Words /\ "wait" \in Words
      /\ "list" \in Words /\ "roll" \in Words
  BY DEF Words
<1>2. /\ Rank("pull") = 1 /\ Rank("record") = 2 /\ Rank("ray") = 3 /\ Rank("wait") = 4
      /\ Rank("list") = 5 /\ Rank("roll") = 6
  BY Ranks
<1>3. PICK p : p = Each("pull") \o Once("record")
  OBVIOUS
<1>4. Piece(Each("pull"), 1, 1) /\ \A x : Has(Each("pull"), x) => x = "pull"
  BY <1>1, <1>2, EachPiece
<1>5. /\ Piece(Once("record"), 2, 2) /\ \A x : Has(Once("record"), x) => x = "record"
      /\ Has(Once("record"), "record")
  BY <1>1, <1>2, OncePiece
<1>6. Piece(p, 1, 2)
  BY <1>3, <1>4, <1>5, CatPiece
<1>7. Has(p, "record") /\ \A x : Has(p, x) => x = "pull" \/ x = "record"
  <2>1. Each("pull") \in Seq(ClusterStep) /\ Once("record") \in Seq(ClusterStep)
    BY <1>4, <1>5 DEF Piece
  <2>2. \A x : Has(p, x) <=> Has(Each("pull"), x) \/ Has(Once("record"), x)
    BY <1>3, <2>1, CatHas
  <2> QED
    BY <1>4, <1>5, <2>2
<1>8. PICK x : x = IF restartRay THEN PhaseSteps("ray") \o Once("wait") ELSE <<>>
  OBVIOUS
<1>9. /\ Piece(x, 3, 4) /\ \A y : Has(x, y) => y = "ray" \/ y = "wait"
      /\ Has(x, "wait") => \A n \in ClusterNodes : RayTo(x, n)
  <2>1. CASE restartRay
    <3>1. x = Each("ray") \o Once("wait")
      BY <1>8, <2>1 DEF PhaseSteps
    <3>2. /\ Piece(Each("ray"), 3, 3) /\ \A y : Has(Each("ray"), y) => y = "ray"
          /\ \A n \in ClusterNodes : RayTo(Each("ray"), n)
      BY <1>1, <1>2, EachPiece
    <3>3. Piece(Once("wait"), 4, 4) /\ \A y : Has(Once("wait"), y) => y = "wait"
      BY <1>1, <1>2, OncePiece
    <3>4. Piece(x, 3, 4)
      BY <3>1, <3>2, <3>3, CatPiece
    <3>5. Each("ray") \in Seq(ClusterStep) /\ Once("wait") \in Seq(ClusterStep)
      BY <3>2, <3>3 DEF Piece
    <3>6. \A y : Has(x, y) <=> Has(Each("ray"), y) \/ Has(Once("wait"), y)
      BY <3>1, <3>5, CatHas
    <3>7. \A n \in ClusterNodes : RayTo(x, n)
      BY <3>1, <3>2, <3>5, CatRayTo
    <3> QED
      BY <3>2, <3>3, <3>4, <3>6, <3>7
  <2>2. CASE ~restartRay
    BY <1>8, <2>2, NoPiece
  <2> QED
    BY <2>1, <2>2
<1>10. PICK z : z = IF restartInstances THEN Once("list") \o Once("roll") ELSE <<>>
  OBVIOUS
<1>11. /\ Piece(z, 5, 6) /\ \A y : Has(z, y) => y = "list" \/ y = "roll"
       /\ Has(z, "roll") => Has(z, "list")
  <2>1. CASE restartInstances
    <3>1. z = Once("list") \o Once("roll")
      BY <1>10, <2>1
    <3>2. /\ Piece(Once("list"), 5, 5) /\ \A y : Has(Once("list"), y) => y = "list"
          /\ Has(Once("list"), "list")
      BY <1>1, <1>2, OncePiece
    <3>3. Piece(Once("roll"), 6, 6) /\ \A y : Has(Once("roll"), y) => y = "roll"
      BY <1>1, <1>2, OncePiece
    <3>4. Piece(z, 5, 6)
      BY <3>1, <3>2, <3>3, CatPiece
    <3>5. Once("list") \in Seq(ClusterStep) /\ Once("roll") \in Seq(ClusterStep)
      BY <3>2, <3>3 DEF Piece
    <3>6. \A y : Has(z, y) <=> Has(Once("list"), y) \/ Has(Once("roll"), y)
      BY <3>1, <3>5, CatHas
    <3> QED
      BY <3>2, <3>3, <3>4, <3>6
  <2>2. CASE ~restartInstances
    BY <1>10, <2>2, NoPiece
  <2> QED
    BY <2>1, <2>2
<1>12. PICK s : s = (p \o x) \o z
  OBVIOUS
<1>13. s = UpdateSteps(restartRay, restartInstances)
  BY <1>3, <1>8, <1>10, <1>12 DEF UpdateSteps
<1>14. Piece(p \o x, 1, 4)
  BY <1>6, <1>9, CatPiece
<1>15. Piece(s, 1, 6)
  BY <1>11, <1>12, <1>14, CatPiece
<1>16. /\ p \in Seq(ClusterStep) /\ x \in Seq(ClusterStep) /\ z \in Seq(ClusterStep)
       /\ p \o x \in Seq(ClusterStep)
  BY <1>6, <1>9, <1>11, <1>14 DEF Piece
<1>17. \A y : Has(s, y) <=> Has(p, y) \/ Has(x, y) \/ Has(z, y)
  BY <1>12, <1>16, CatHas
<1>18. \A n \in ClusterNodes : RayTo(x, n) => RayTo(s, n)
  BY <1>12, <1>16, CatRayTo
<1>19. ~Has(s, "stop ray") /\ ~Has(s, "forget")
  BY <1>7, <1>9, <1>11, <1>17
<1>20. Has(s, "record")
  BY <1>7, <1>17
<1>21. Has(s, "roll") => Has(s, "list")
  <2>1. ~Has(p, "roll") /\ ~Has(x, "roll")
    BY <1>7, <1>9
  <2> QED
    BY <1>11, <1>17, <2>1
<1>22. Has(s, "wait") => \A n \in ClusterNodes : RayTo(s, n)
  <2>1. ~Has(p, "wait") /\ ~Has(z, "wait")
    BY <1>7, <1>11
  <2> QED
    BY <1>9, <1>17, <1>18, <2>1
<1>23. s \in Seq(ClusterStep) /\ Sorted(s)
  BY <1>15 DEF Piece
<1> QED
  BY <1>13, <1>19, <1>20, <1>21, <1>22, <1>23 DEF GoodStart, Ordered, TearShape, RollShape

LEMMA TeardownStarts == GoodStart(TeardownSteps)
<1>1. "stop ray" \in Words /\ "forget" \in Words
  BY DEF Words
<1>2. Rank("stop ray") = 3 /\ Rank("forget") = 6
  BY Ranks
<1>3. /\ Piece(Each("stop ray"), 3, 3) /\ \A x : Has(Each("stop ray"), x) => x = "stop ray"
  BY <1>1, <1>2, EachPiece
<1>4. /\ Piece(Once("forget"), 6, 6) /\ \A x : Has(Once("forget"), x) => x = "forget"
  BY <1>1, <1>2, OncePiece
<1>5. PICK a, b : a = Each("stop ray") /\ b = Once("forget")
  OBVIOUS
<1>6. PICK s : s = a \o b
  OBVIOUS
<1>7. s = TeardownSteps
  BY <1>5, <1>6 DEF TeardownSteps
<1>8. Piece(s, 3, 6)
  <2>1. Piece(a, 3, 3) /\ Piece(b, 6, 6)
    BY <1>3, <1>4, <1>5
  <2>2. Piece(a \o b, 3, 6)
    BY <2>1, CatPiece
  <2> QED
    BY <1>6, <2>2
<1>9. a \in Seq(ClusterStep) /\ b \in Seq(ClusterStep)
  BY <1>3, <1>4, <1>5 DEF Piece
<1>10. \A y : Has(s, y) => y = "stop ray" \/ y = "forget"
  <2>1. \A y : Has(s, y) <=> Has(a, y) \/ Has(b, y)
    BY <1>6, <1>9, CatHas
  <2> QED
    BY <1>3, <1>4, <1>5, <2>1
<1>11. Len(b) = 1
  BY <1>5 DEF Once
<1>12. \A k \in 1..Len(s) : s[k].do = IF k = Len(s) THEN "forget" ELSE "stop ray"
  <2>1. /\ Len(s) = Len(a) + 1 /\ Len(a) \in Nat
        /\ \A k \in 1..Len(s) :
             \/ k \in 1..Len(a) /\ s[k] = a[k]
             \/ k - Len(a) \in 1..1 /\ k > Len(a) /\ s[k] = b[k - Len(a)]
    BY <1>6, <1>9, <1>11, CatAt
  <2>2. \A k \in 1..Len(a) : a[k].do = "stop ray"
    BY <1>3, <1>5 DEF Has
  <2>3. b[1].do = "forget"
    BY <1>5 DEF Once
  <2>4. ASSUME NEW k \in 1..Len(s)
        PROVE  s[k].do = IF k = Len(s) THEN "forget" ELSE "stop ray"
    <3>1. CASE k \in 1..Len(a) /\ s[k] = a[k]
      <4>1. k # Len(s)
        BY <2>1, <3>1
      <4> QED
        BY <2>2, <3>1, <4>1
    <3>2. CASE k - Len(a) \in 1..1 /\ k > Len(a) /\ s[k] = b[k - Len(a)]
      <4>1. k = Len(s) /\ k - Len(a) = 1
        BY <2>1, <3>2
      <4> QED
        BY <2>3, <3>2, <4>1
    <3> QED
      BY <2>1, <3>1, <3>2
  <2> QED
    BY <2>4
<1>13. s \in Seq(ClusterStep) /\ Sorted(s)
  BY <1>8 DEF Piece
<1>14. ~Has(s, "wait") /\ ~Has(s, "roll")
  BY <1>10
<1> QED
  BY <1>7, <1>12, <1>13, <1>14 DEF GoodStart, Ordered, TearShape, RollShape

-----------------------------------------------------------------------------
LEMMA ClusterStarts == ClusterInit => ClusterIInv
<1> SUFFICES ASSUME ClusterInit PROVE ClusterIInv
  OBVIOUS
<1>0. 0 \in 0..MaxJobs
  <2>1. MaxJobs \in Nat
    BY ClusterAssumption
  <2> QED
    BY <2>1
<1>1. PICK q : q = Resting
  OBVIOUS
<1>2. q \in ClusterJobRecs /\ q.todo = <<>>
  BY <1>1, NothingToDo DEF Resting, ClusterJobRecs
<1>3. cjob \in [ClusterJobs -> ClusterJobRecs] /\ \A j \in ClusterJobs : cjob[j].todo = <<>>
  BY <1>1, <1>2 DEF ClusterInit
<1>4. \A j \in ClusterJobs : ~Busy(j) /\ Ordered(cjob[j].todo)
  BY <1>3, NothingToDo DEF Busy
<1>5. JobsShape
  BY <1>3, <1>4 DEF JobsShape
<1>6. PartsShape
  BY <1>0 DEF ClusterInit, PartsShape
<1>7. \A j \in ClusterJobs : Makes(j)
  BY <1>3, IdleMakes
<1>8. AloneAtWork
  BY <1>4 DEF AloneAtWork
<1>9. CompleteIsFormed /\ RaySettled /\ InstancesSettled
  BY DEF ClusterInit, CompleteIsFormed, RaySettled, InstancesSettled
<1> QED
  BY <1>5, <1>6, <1>7, <1>8, <1>9 DEF ClusterIInv, ClusterShape, Calm

(* The three jobs begin as any job does.                                    *)
LEMMA JobsBegin ==
  ASSUME ClusterShape, NEW j \in ClusterJobs, Setup(j) \/ UpdateImage(j) \/ Teardown(j)
  PROVE  \E s, target : GoodStart(s) /\ target \in Images /\ Begin(j, s, target)
<1>0. image \in Images
  BY DEF ClusterShape, PartsShape
<1>1. CASE Setup(j)
  <2>1. PICK names \in {Early \union {"image", "ray", "verify"}, {"ray"}, {"verify"}} :
          Begin(j, SetupSteps(names), image)
    BY <1>1 DEF Setup
  <2>2. GoodStart(SetupSteps(names))
    BY SetupStarts
  <2> QED
    BY <1>0, <2>1, <2>2
<1>2. CASE UpdateImage(j)
  <2>1. PICK target \in Images, restartRay \in BOOLEAN, restartInstances \in BOOLEAN :
          Begin(j, UpdateSteps(restartRay, restartInstances), target)
    BY <1>2 DEF UpdateImage
  <2>2. GoodStart(UpdateSteps(restartRay, restartInstances))
    BY UpdateStarts
  <2> QED
    BY <2>1, <2>2
<1>3. CASE Teardown(j)
  BY <1>0, <1>3, TeardownStarts DEF Teardown
<1> QED
  BY <1>1, <1>2, <1>3

LEMMA ShapeStep ==
  ASSUME ClusterShape, ClusterNext PROVE ClusterShape'
<1>1. CASE Start \/ Launch \/ Stop \/ Observe \/ UpdateConfig
  BY <1>1, ShapeOperators
<1>2. ASSUME NEW j \in ClusterJobs, Setup(j) \/ UpdateImage(j) \/ Teardown(j)
      PROVE  ClusterShape'
  <2>1. PICK s, target : GoodStart(s) /\ target \in Images /\ Begin(j, s, target)
    BY <1>2, JobsBegin
  <2> QED
    BY <2>1, ShapeBegin
<1>3. ASSUME NEW j \in ClusterJobs,
             Raise(j) \/ CutOff(j) \/ Prepare(j) \/ List(j)
      PROVE  ClusterShape'
  BY <1>3, ShapeQuiet
<1>4. ASSUME NEW j \in ClusterJobs, StartRay(j) \/ StopRay(j) PROVE ClusterShape'
  BY <1>4, ShapeRay
<1>5. ASSUME NEW j \in ClusterJobs,
             \/ VerifyCluster(j) \/ Record(j) \/ Wait(j) \/ Roll(j) \/ Forget(j)
      PROVE  ClusterShape'
  BY <1>5, ShapeRecords
<1> QED
  BY <1>1, <1>2, <1>3, <1>4, <1>5 DEF ClusterNext

(* What was disturbed stays so, and what is not disturbed stays calm.       *)
LEMMA CalmStep ==
  ASSUME ClusterShape, ~disturbed => Calm, ClusterNext, ~disturbed' PROVE Calm'
<1>0. JobsShape /\ PartsShape /\ disturbed \in BOOLEAN
  BY DEF ClusterShape, PartsShape
<1>1. CASE Start \/ Launch \/ Stop \/ Observe \/ UpdateConfig
  <2>1. ~disturbed
    BY <1>1 DEF Start, Launch, Stop, Observe, UpdateConfig
  <2>2. CASE Start \/ Launch \/ Stop \/ Observe
    BY <2>1, <2>2, CalmOperate
  <2>3. CASE UpdateConfig
    <3>1. disturbed' = FALSE
      BY <1>0, <2>3 DEF UpdateConfig
    <3> QED
      BY <2>1, <2>3, <3>1, CalmConfig
  <2> QED
    BY <1>1, <2>2, <2>3
<1>2. ASSUME NEW j \in ClusterJobs, Setup(j) \/ UpdateImage(j) \/ Teardown(j)
      PROVE  Calm'
  <2>1. PICK s, target : GoodStart(s) /\ target \in Images /\ Begin(j, s, target)
    BY <1>2, JobsBegin
  <2>2. ~disturbed /\ disturbed' = FALSE
    BY <1>0, <2>1 DEF Begin
  <2> QED
    BY <1>0, <2>1, <2>2, CalmBegin
<1>3. ASSUME NEW j \in ClusterJobs,
             \/ Raise(j) \/ Prepare(j) \/ List(j) \/ StopRay(j)
             \/ VerifyCluster(j) \/ Record(j) \/ Wait(j) \/ Roll(j) \/ Forget(j)
      PROVE  Calm'
  <2>1. disturbed' = disturbed
    BY <1>3 DEF Raise, Prepare, List, StopRay, VerifyCluster, Record, Wait, Roll, Forget
  <2>2. Calm
    BY <2>1
  <2> QED
    BY <1>0, <1>3, <2>2, CalmRaise, CalmPrepare, CalmList, CalmStopRay,
       CalmVerify, CalmRecord, CalmWait, CalmRoll, CalmForget
<1>4. ASSUME NEW j \in ClusterJobs, StartRay(j) PROVE Calm'
  <2>1. disturbed' = disturbed
    BY <1>4 DEF StartRay
  <2>2. Calm
    BY <1>0, <2>1
  <2> QED
    BY <1>4, <2>2, CalmStartRay
<1>5. ASSUME NEW j \in ClusterJobs, CutOff(j) PROVE FALSE
  BY <1>5 DEF CutOff
<1> QED
  BY <1>1, <1>2, <1>3, <1>4, <1>5 DEF ClusterNext

LEMMA ClusterKeeps ==
  ASSUME ClusterIInv, [ClusterNext]_clusterVars PROVE ClusterIInv'
<1>1. CASE ClusterNext
  <2>1. ClusterShape'
    BY <1>1, ShapeStep DEF ClusterIInv
  <2>2. ASSUME ~disturbed' PROVE Calm'
    BY <1>1, <2>2, CalmStep DEF ClusterIInv
  <2> QED
    BY <2>1, <2>2 DEF ClusterIInv
<1>2. CASE UNCHANGED clusterVars
  <2>0. /\ image' = image /\ complete' = complete /\ unstarted' = unstarted
        /\ ray' = ray /\ serving' = serving /\ cjob' = cjob /\ begun' = begun
        /\ instStatus' = instStatus /\ launch' = launch /\ kept' = kept
        /\ settled' = settled /\ disturbed' = disturbed
    BY <1>2 DEF clusterVars, nodeSide, instance
  <2>1. ClusterShape'
    BY <2>0 DEF ClusterIInv, ClusterShape, PartsShape, JobsShape, Busy
  <2>2. ~disturbed' => Calm'
    <3>1. Calm => Calm'
      BY <2>0 DEF Calm, AloneAtWork, CompleteIsFormed, RaySettled, InstancesSettled, Busy,
                  RayUp, ServesRecorded, Makes, FlagHolds, RayReaches, ImageReaches, NothingFormer,
                  RayStarted, RollsAtEnd
    <3> QED
      BY <2>0, <3>1 DEF ClusterIInv
  <2> QED
    BY <2>1, <2>2 DEF ClusterIInv
<1> QED
  BY <1>1, <1>2

LEMMA ClusterImplies == ClusterIInv => ClusterInv
<1> SUFFICES ASSUME ClusterIInv PROVE ClusterInv
  OBVIOUS
<1>1. JobsShape /\ PartsShape
  BY DEF ClusterIInv, ClusterShape
<1>2. ASSUME NEW j \in ClusterJobs
      PROVE  /\ cjob[j].cfg \in Images \union {NoImage}
             /\ cjob[j].flag \in BOOLEAN /\ cjob[j].listed \in BOOLEAN
             /\ \A k \in 1..Len(cjob[j].todo) : cjob[j].todo[k] \in ClusterStep
  <2>1. PICK r \in ClusterJobRecs : r = cjob[j]
    BY <1>1 DEF JobsShape
  <2>2. \A k \in 1..Len(r.todo) : r.todo[k] \in ClusterStep
    BY JobFields
  <2> QED
    BY <2>1, <2>2, JobFields
<1>3. ClusterTypeOK
  BY <1>1, <1>2 DEF ClusterTypeOK, PartsShape
<1>4. ClusterAsRecorded
  <2> SUFFICES ASSUME ~disturbed
               PROVE  /\ complete /\ (\A j \in ClusterJobs : ~Busy(j)) => RayUp
                      /\ "ray" \in settled =>
                           \A n \in ClusterNodes : ray[n] = image \/ n \in unstarted
                      /\ "instances" \in settled => ServesRecorded
    BY DEF ClusterAsRecorded
  <2>1. Calm
    BY DEF ClusterIInv
  <2>2. complete /\ (\A j \in ClusterJobs : ~Busy(j)) => RayUp
    BY <2>1, FormedAtRest
  <2> QED
    BY <2>1, <2>2 DEF Calm, RaySettled, InstancesSettled
<1> QED
  BY <1>3, <1>4 DEF ClusterInv

(* What the portal records of the cluster is true of it once its jobs are   *)
(* over, for any number of nodes, images and job slots and any number of    *)
(* jobs: a complete setup means that Ray runs on every node whose unit did  *)
(* not fail to restart, and after an image update no former image is left at*)
(* work without a cause that is named (services/cluster.py:30-318,          *)
(* services/phases.py:359-360, nodeops.py:70-75).                           *)
THEOREM ClusterAsKept == ClusterSpec => []ClusterInv
<1>1. ClusterInit => ClusterIInv
  BY ClusterStarts
<1>2. ClusterIInv /\ [ClusterNext]_clusterVars => ClusterIInv'
  BY ClusterKeeps
<1>3. ClusterIInv => ClusterInv
  BY ClusterImplies
<1> QED
  BY <1>1, <1>2, <1>3, PTL DEF ClusterSpec
=============================================================================
