----------------------------- MODULE MCGateway -----------------------------
(* The gateway's slots and its books, each on its own small instance.  They *)
(* share no variable: `part` names the one that moves, the other rests.     *)
EXTENDS GatewaySlots, GatewayBooks, TLC

VARIABLE part
gatewayVars == <<vars, booksVars, part>>

GatewayInit ==
  /\ part \in {"slots", "books"}
  /\ Init /\ BooksInit
  /\ part = "books" =>
       \A r \in Requests : req[r] = CHOOSE q \in Reqs : q.pc = "none" /\ q.limit = 0
                                                      /\ q.at = Never

GatewayNext ==
  /\ \/ part = "slots" /\ Next /\ UNCHANGED booksVars
     \/ part = "books" /\ BooksNext /\ UNCHANGED vars
  /\ part' = part

GatewaySpec == GatewayInit /\ [][GatewayNext]_gatewayVars

GatewaySymmetry == Permutations(Requests) \union Permutations(Admins)
=============================================================================
