-------------------------------- MODULE SshPool --------------------------------
(***************************************************************************)
(* The SSH connections of one node (ssh/pool.py, ssh/client.py): operations *)
(* share one pooled client while the node's row is edited, its client is    *)
(* dropped and links die.  get works under the node's lock, drop does not.  *)
(* Closing a client is one step: a command that meets the closing is one    *)
(* whose link has died.                                                     *)
(***************************************************************************)
EXTENDS Naturals, FiniteSets

CONSTANTS
  SshOps,      \* jobs and requests that talk to the node
  MaxClients,  \* bound on SSHClient objects ever made
  MaxLinks,    \* bound on connections ever opened
  MaxEdits     \* bound on edits of the node's row

ASSUME SshBounds == {MaxClients, MaxLinks, MaxEdits} \subseteq Nat

VARIABLES
  edition,   \* the connection settings in the row
  dropping,  \* an edit was committed and pool.drop has yet to come
  pooled,    \* _clients: the node's client, 0 for none
  made,      \* clients made so far
  conn,      \* client -> the settings it was made with
  ssh,       \* client -> its connection, 0 for none
  open,      \* connections that are open
  dialled,   \* connections opened so far
  op,        \* operation -> where it is, the settings it read, its client
  strays     \* history: clients that left the pool while an operation had them

sshVars == <<edition, dropping, pooled, made, conn, ssh, open, dialled, op, strays>>

Clients == 1..MaxClients
NoOp == [at |-> "idle", read |-> 0, client |-> 0]
Uses == [at : {"idle", "asking", "getting", "getting dials", "working", "working dials"},
         read : 0..MaxEdits, client : 0..MaxClients]

SshTypeOK ==
  /\ edition \in 0..MaxEdits /\ dropping \in BOOLEAN
  /\ pooled \in 0..made /\ made \in 0..MaxClients
  /\ conn \in [Clients -> 0..MaxEdits] /\ ssh \in [Clients -> 0..dialled]
  /\ dialled \in 0..MaxLinks /\ open \subseteq 1..dialled /\ strays \subseteq Clients
  /\ op \in [SshOps -> Uses]

SshInit ==
  /\ edition = 0 /\ dropping = FALSE /\ pooled = 0 /\ made = 0
  /\ conn = [c \in Clients |-> 0] /\ ssh = [c \in Clients |-> 0]
  /\ open = {} /\ dialled = 0 /\ op = [o \in SshOps |-> NoOp] /\ strays = {}

-----------------------------------------------------------------------------
(* _live: asyncssh keeps the object around after the transport has died.    *)
Usable(c) == ssh[c] \in open

Users(c) == {o \in SshOps : op[o].client = c}
Moves(o, where) == op' = [op EXCEPT ![o].at = where]

(* SSHPool._lock and SSHClient._lock: held across the awaits of get and of  *)
(* connect.                                                                 *)
PoolLocked == \E o \in SshOps : op[o].at \in {"getting", "getting dials"}
Dialling(c) == \E o \in Users(c) : op[o].at \in {"getting dials", "working dials"}

(* ssh_for_node reads the row.                                              *)
Ask(o) ==
  /\ op[o].at = "idle"
  /\ op' = [op EXCEPT ![o] = [at |-> "asking", read |-> edition, client |-> 0]]
  /\ UNCHANGED <<edition, dropping, pooled, made, conn, ssh, open, dialled, strays>>

Closed(c) == [d \in Clients |-> IF d = c THEN 0 ELSE ssh[d]]
Link(c) == IF c = 0 THEN {} ELSE {ssh[c]}

(* The pooled client leaves the pool while operations other than these have *)
(* it.                                                                      *)
Strayed(others) ==
  IF pooled # 0 /\ Users(pooled) \ others # {} THEN strays \union {pooled} ELSE strays

(* Mutant: a client with other settings is replaced but not closed.         *)
BugReplaced == open

Replaced == open \ Link(pooled)

(* get, with the lock: the pooled client if its settings are the same.      *)
Get(o) ==
  /\ op[o].at = "asking" /\ ~PoolLocked
  /\ IF pooled # 0 /\ conn[pooled] = op[o].read
     THEN /\ op' = [op EXCEPT ![o].at = "getting", ![o].client = pooled]
          /\ UNCHANGED <<pooled, made, conn, ssh, open, strays>>
     ELSE /\ made < MaxClients /\ made' = made + 1 /\ pooled' = made'
          /\ conn' = [conn EXCEPT ![made'] = op[o].read]
          /\ ssh' = Closed(pooled) /\ open' = Replaced
          /\ strays' = Strayed({})
          /\ op' = [op EXCEPT ![o].at = "getting", ![o].client = made']
  /\ UNCHANGED <<edition, dropping, dialled>>

(* connect: there already, or a dead connection is discarded and dialled    *)
(* anew; then get returns, or run goes on.                                  *)
Connected(o) ==
  /\ op[o].at = "getting" /\ Usable(op[o].client) /\ Moves(o, "working")
  /\ UNCHANGED <<edition, dropping, pooled, made, conn, ssh, open, dialled, strays>>

Dial(o) ==
  LET c == op[o].client IN
  /\ op[o].at \in {"getting", "working"} /\ ~Usable(c) /\ ~Dialling(c)
  /\ ssh' = Closed(c)
  /\ Moves(o, IF op[o].at = "getting" THEN "getting dials" ELSE "working dials")
  /\ UNCHANGED <<edition, dropping, pooled, made, conn, open, dialled, strays>>

DialSucceeds(o) ==
  /\ op[o].at \in {"getting dials", "working dials"}
  /\ dialled < MaxLinks /\ dialled' = dialled + 1
  /\ open' = open \union {dialled'} /\ ssh' = [ssh EXCEPT ![op[o].client] = dialled']
  /\ Moves(o, "working")
  /\ UNCHANGED <<edition, dropping, pooled, made, conn, strays>>

(* SSHError: get takes whatever is in the pool out of it.                   *)
DialFails(o) ==
  /\ op[o].at \in {"getting dials", "working dials"}
  /\ op' = [op EXCEPT ![o] = NoOp]
  /\ pooled' = IF op[o].at = "getting dials" THEN 0 ELSE pooled
  /\ strays' = IF op[o].at = "getting dials" THEN Strayed({o}) ELSE strays
  /\ UNCHANGED <<edition, dropping, made, conn, ssh, open, dialled>>

(* run returns, or its transport fails and the connection is discarded; the *)
(* operation may have more to run.  It may be cut off at any of its awaits. *)
Finish(o) ==
  /\ op[o].at # "idle" /\ op' = [op EXCEPT ![o] = NoOp]
  /\ UNCHANGED <<edition, dropping, pooled, made, conn, ssh, open, dialled, strays>>

RunFails(o) ==
  /\ op[o].at = "working" /\ op' = [op EXCEPT ![o] = NoOp]
  /\ ssh' = Closed(op[o].client) /\ open' = open \ {ssh[op[o].client]}
  /\ UNCHANGED <<edition, dropping, pooled, made, conn, dialled, strays>>

-----------------------------------------------------------------------------
(* sshd restarts, the node reboots, the network flaps.                      *)
LinkDies ==
  /\ \E l \in open : open' = open \ {l}
  /\ UNCHANGED <<edition, dropping, pooled, made, conn, ssh, dialled, op, strays>>

(* update_node and its like commit, and then drop the client.               *)
EditNode ==
  /\ ~dropping /\ edition < MaxEdits /\ edition' = edition + 1 /\ dropping' = TRUE
  /\ UNCHANGED <<pooled, made, conn, ssh, open, dialled, op, strays>>

Drop ==
  /\ dropping /\ dropping' = FALSE /\ pooled' = 0
  /\ strays' = Strayed({}) /\ open' = open \ Link(pooled) /\ ssh' = Closed(pooled)
  /\ UNCHANGED <<edition, made, conn, dialled, op>>

SshNext ==
  \/ LinkDies \/ EditNode \/ Drop
  \/ \E o \in SshOps : \/ Ask(o) \/ Get(o) \/ Connected(o) \/ Dial(o)
                       \/ DialSucceeds(o) \/ DialFails(o) \/ Finish(o) \/ RunFails(o)

SshSpec == SshInit /\ [][SshNext]_sshVars

-----------------------------------------------------------------------------
(* No connection is left open behind everybody's back: each is that of the  *)
(* pooled client or of one that left the pool while an operation had it,    *)
(* which may have dialled again; and nobody else than an operation that has *)
(* the client still opens one (ssh/pool.py:27-47, ssh/client.py:99-188).    *)
OpenIsTended ==
  \A l \in open : \E c \in Clients : ssh[c] = l /\ (c = pooled \/ c \in strays)

(* What the pool keeps: the types, and a client behind every connection     *)
(* (ssh/pool.py:27-47).                                                     *)
SshInv == SshTypeOK /\ OpenIsTended
=============================================================================
