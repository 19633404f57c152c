--------------------------------- MODULE Ports ---------------------------------
(***************************************************************************)
(* The ports of the instances (services/ports.py, services/binding.py, the  *)
(* create and edit handlers of routers/instances.py, endpoint edits): a port*)
(* is allotted, or an explicit one compared with the other rows, some       *)
(* awaits before the row is committed.                                      *)
(***************************************************************************)
EXTENDS Naturals

CONSTANTS
  Slots,      \* instance rows there is room for
  Hosts,      \* nodes
  Editors,    \* create and edit requests that overlap
  MaxPort,    \* ports are 1..MaxPort; API_PORT_START is 1
  Reserved,   \* RESERVED: the cluster's own ports
  TlsPort,    \* the port a TLS proxy may be given
  MaxPortEdits \* bound on requests and endpoint edits together

ASSUME PortsAssumption ==
  /\ MaxPort \in Nat /\ Reserved \subseteq 1..MaxPort
  /\ TlsPort \in 1..MaxPort /\ MaxPortEdits \in Nat

VARIABLES
  inst,    \* slot -> instance row, or NoInst
  pin,     \* the endpoint's upstream_port, 0 for none
  head,    \* the node with the head role, NoHost until there is one
  asked,   \* request -> what it has checked and is about to commit
  against, \* history: slot -> rows its port was compared with, unchanged since
  portEdits

portsVars == <<inst, pin, head, asked, against, portEdits>>

NoHost == "unknown"
NoInst == [host |-> NoHost, port |-> 0, tls |-> 0, member |-> FALSE]
Asked  == [at |-> "none", slot |-> "none", read |-> NoInst, row |-> NoInst,
           against |-> {}]
Ports  == 1..MaxPort

PortRows == [host : Hosts \union {NoHost, "head"}, port : 0..MaxPort,
             tls : {0, TlsPort}, member : BOOLEAN]
Taken == {s \in Slots : inst[s] # NoInst}

PortsTypeOK ==
  /\ inst \in [Slots -> PortRows] /\ pin \in 0..MaxPort /\ head \in Hosts \union {NoHost}
  /\ asked \in [Editors -> [at : {"none", "create", "edit"}, slot : Slots \union {"none"},
                            read : PortRows, row : PortRows, against : SUBSET Slots]]
  /\ against \in [Slots -> SUBSET Slots] /\ portEdits \in 0..MaxPortEdits

PortsInit ==
  /\ inst = [s \in Slots |-> NoInst] /\ pin = 0 /\ head = NoHost
  /\ asked = [q \in Editors |-> Asked] /\ against = [s \in Slots |-> {}] /\ portEdits = 0

-----------------------------------------------------------------------------
(* effective_port: a member binds what its endpoint pins.                   *)
Effective(row) == IF row.member /\ pin # 0 THEN pin ELSE row.port

(* _serving_node_id: all but single instances serve on the head.            *)
Serving(row) == IF row.host = "head" THEN head ELSE row.host

Overlaps(r1, r2) ==
  Serving(r1) = Serving(r2) \/ NoHost \in {Serving(r1), Serving(r2)}

(* Mutant: members are taken to bind their own port.                        *)
BugInUse(row) == {row.port, row.tls} \ {0}

InUse(row) == {row.port, Effective(row), row.tls} \ {0}

(* allocate_api_port: the first port no row of any node has.                *)
Allotted(port) ==
  LET taken == Reserved \union UNION {InUse(inst[s]) : s \in Taken} IN
  port \notin taken /\ \A lower \in 1..(port - 1) : lower \in taken

(* port_conflict for a row that belongs to the endpoint or not: co-members  *)
(* may share.                                                               *)
Compared(row, member, self) ==
  {s \in Taken \ {self} : /\ ~(member /\ inst[s].member)
                          /\ Overlaps(row, inst[s])}
Conflict(row, member, self) ==
  \/ row.port \in Reserved
  \/ \E s \in Compared(row, member, self) :
       row.port \in {Effective(inst[s]), inst[s].tls}

(* What a port was compared with counts for the port the row will bind.     *)
Assured(row, rows) == IF row.member /\ pin # 0 THEN {} ELSE rows

CanAsk(q) == asked[q].at = "none" /\ portEdits < MaxPortEdits

Await(q, what, s, row, rows) ==
  /\ portEdits' = portEdits + 1
  /\ asked' = [asked EXCEPT ![q] = [at |-> what, slot |-> s, row |-> row,
                                read |-> IF what = "edit" THEN inst[s] ELSE NoInst,
                                against |-> Assured(row, rows)]]

(* create_instance up to the commit.                                        *)
CreateAuto(q) ==
  /\ CanAsk(q)
  /\ \E host \in Hosts \union {"head"}, port \in Ports, tls \in {0, TlsPort},
        member \in BOOLEAN :
       LET row == [host |-> host, port |-> port, tls |-> tls, member |-> member] IN
       /\ tls # port /\ Allotted(port)
       /\ Await(q, "create", "none", row, Taken)
  /\ UNCHANGED <<inst, pin, head, against>>

CreateExplicit(q) ==
  /\ CanAsk(q)
  /\ \E host \in Hosts \union {"head"}, port \in Ports, tls \in {0, TlsPort},
        member \in BOOLEAN :
       LET row == [host |-> host, port |-> port, tls |-> tls, member |-> member] IN
       /\ tls # port /\ ~Conflict(row, member, "none")
       /\ Await(q, "create", "none", row, Compared(row, member, "none"))
  /\ UNCHANGED <<inst, pin, head, against>>

(* update_instance of a stopped instance: a new port is compared as one of  *)
(* the endpoint the row names or, when it leaves its endpoint, still        *)
(* belongs to; a new membership or TLS port alone is not compared.          *)
Edit(q, s) ==
  /\ CanAsk(q) /\ s \in Taken
  /\ \E row \in [host : {inst[s].host}, port : Ports, tls : {0, TlsPort}, member : BOOLEAN] :
       LET counted == row.member \/ inst[s].member
           kept == IF row.member = inst[s].member THEN against[s] ELSE {} IN
       /\ row.tls # row.port /\ row # inst[s]
       /\ row.port # inst[s].port => ~Conflict(row, counted, s)
       /\ Await(q, "edit", s, row,
                IF row.port = inst[s].port THEN kept ELSE Compared(row, counted, s))
  /\ UNCHANGED <<inst, pin, head, against>>

(* Rows that were compared with one that changes now are no longer assured  *)
(* of it, nor is an edit of that row that has yet to commit.                *)
Since(s, q) == IF asked[q].slot = s THEN {} ELSE asked[q].against \ {s}
Lose(s) == [q \in Editors |-> [asked[q] EXCEPT !.against = Since(s, q)]]

DeleteInst(s) ==
  /\ s \in Taken /\ inst' = [inst EXCEPT ![s] = NoInst]
  /\ against' = [t \in Slots |-> IF t = s THEN {} ELSE against[t] \ {s}]
  /\ asked' = Lose(s)
  /\ UNCHANGED <<pin, head, portEdits>>

Insert(q, s) ==
  /\ asked[q].at = "create" /\ s \notin Taken
  /\ inst' = [inst EXCEPT ![s] = asked[q].row]
  /\ against' = [against EXCEPT ![s] = asked[q].against]
  /\ asked' = [asked EXCEPT ![q] = Asked]
  /\ UNCHANGED <<pin, head, portEdits>>

(* The columns the edit changed are written, the others stay.               *)
Written(q, now) ==
  [f \in DOMAIN now |-> IF asked[q].row[f] = asked[q].read[f] THEN now[f] ELSE asked[q].row[f]]

Update(q, s) ==
  /\ asked[q].at = "edit" /\ s = asked[q].slot /\ s \in Taken
  /\ inst' = [inst EXCEPT ![s] = Written(q, inst[s])]
  /\ against' = [t \in Slots |-> IF t = s THEN asked[q].against ELSE against[t] \ {s}]
  /\ asked' = [Lose(s) EXCEPT ![q] = Asked]
  /\ UNCHANGED <<pin, head, portEdits>>

(* The row is gone: StaleDataError.                                         *)
Stale(q) ==
  /\ asked[q].at = "edit" /\ asked[q].slot \notin Taken
  /\ asked' = [asked EXCEPT ![q] = Asked]
  /\ UNCHANGED <<inst, pin, head, against, portEdits>>

(* update_endpoint: the pinned port is taken as it is.                      *)
Pin ==
  /\ portEdits < MaxPortEdits /\ portEdits' = portEdits + 1
  /\ \E port \in Ports \union {0} : port # pin /\ pin' = port
  /\ LET members == {s \in Taken : inst[s].member} IN
     /\ against' = [t \in Slots |-> IF t \in members THEN {} ELSE against[t] \ members]
     /\ asked' = [q \in Editors |->
                  [asked[q] EXCEPT !.against =
                     IF asked[q].row.member THEN {} ELSE @ \ members]]
  /\ UNCHANGED <<inst, head>>

(* The head is added after the instances that will serve on it.             *)
AddHead ==
  /\ head = NoHost /\ head' \in Hosts
  /\ UNCHANGED <<inst, pin, asked, against, portEdits>>

PortsNext ==
  \/ Pin \/ AddHead
  \/ \E q \in Editors : CreateAuto(q) \/ CreateExplicit(q) \/ Stale(q)
  \/ \E s \in Slots : DeleteInst(s)
  \/ \E s \in Slots, q \in Editors : Edit(q, s) \/ Insert(q, s) \/ Update(q, s)

PortsSpec == PortsInit /\ [][PortsNext]_portsVars

-----------------------------------------------------------------------------
(* An instance whose port was compared with another row binds no port of    *)
(* that one, wherever the two serve and whatever requests overlap, until one*)
(* of the two changes or its endpoint does.  Rows that may share, members of*)
(* one endpoint, are not compared (services/ports.py:81-108,                *)
(* routers/instances.py:277-304).                                           *)
ComparedStayApart ==
  \A s \in Taken : \A t \in against[s] \cap Taken :
    Effective(inst[s]) \notin {Effective(inst[t]), inst[t].tls}

(* What the port checks keep: the types, and rows that were compared apart  *)
(* (services/ports.py:35-108).                                              *)
PortsInv == PortsTypeOK /\ ComparedStayApart
=============================================================================
