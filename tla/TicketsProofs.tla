---------------------------- MODULE TicketsProofs ----------------------------
(***************************************************************************)
(* The ticket store knows nothing of buys that are over, misses no match   *)
(* and sends tickets where works resemble each other, for any number of    *)
(* buys, sellers, works and tickets.  The first part is about the parts of *)
(* the store, the second about what handprints compute, the third puts     *)
(* them together.                                                          *)
(***************************************************************************)
EXTENDS Tickets, FiniteSetTheorems, TLAPS

(***************************************************************************)
(* The invariant, by the parts of the store.  A registered node was        *)
(* registered by a running buy from that seller; what is pooled came from  *)
(* a registered node, for two running buys from it.                        *)
(***************************************************************************)
AnyTicket == [ticket : Buys \X Nat, source : Nodes, like : Buys]

StoreShape ==
  /\ node \in [Buys -> Nodes]
  /\ pc \in [Buys -> {"new", "listing", "sending", "done"}]
  /\ handed \in [Buys -> Nat]
  /\ nodes \in [Nodes -> [buy : Buys \cup {NoBuy}, interested : BOOLEAN]]
  /\ tickets \subseteq AnyTicket
  /\ edges \subseteq Nodes \X Nodes

FromBuy(b, n) == Running(b) /\ node[b] = n

NodesKnown == \A n \in Nodes : Registered(n) => nodes[n].buy \in Buys /\ FromBuy(nodes[n].buy, n)

Owned(t) ==
  Registered(t.source) /\ FromBuy(t.ticket[1], t.source) /\ FromBuy(t.like, t.source)

TicketsOwned == \A t \in tickets : Owned(t)

EdgesKnown == \A e \in edges : Registered(e[1]) /\ Registered(e[2])

Inv == StoreShape /\ NodesKnown /\ TicketsOwned /\ EdgesKnown

LEMMA InitInv == Init => Inv
  BY DEF Init, Inv, StoreShape, NodesKnown, TicketsOwned, EdgesKnown, Registered, Absent

LEMMA InvIsEnough == Inv => StoreReflectsBuys
  BY DEF Inv, NodesKnown, TicketsOwned, EdgesKnown, Owned, FromBuy, StoreReflectsBuys,
         StoreShape, AnyTicket

(***************************************************************************)
(* The parts of the store that are left of a node and of its buy.          *)
(***************************************************************************)
LEMMA WithoutNode ==
  ASSUME Inv, NEW n \in Nodes
  PROVE  /\ \A t \in Without(n).tickets : t \in tickets /\ t.source # n
         /\ \A e \in Without(n).edges : e \in edges /\ e[1] # n /\ e[2] # n
  BY DEF Inv, StoreShape, Without

-----------------------------------------------------------------------------
LEMMA InitNodeInv == ASSUME Inv, NEW b \in Buys, InitNode(b) PROVE Inv'
<1>1. PICK n \in Nodes : n = node[b]
  BY DEF Inv, StoreShape
<1> DEFINE rest == Without(n)
           fitting == {t \in rest.tickets : Fits(n, b, TRUE, t, rest.edges)}
           sources == {t.source : t \in fitting}
<1>2. /\ tickets' \subseteq rest.tickets
      /\ edges' = rest.edges \cup {<<s, n>> : s \in sources}
      /\ nodes' = [nodes EXCEPT ![n] = [buy |-> b, interested |-> TRUE]]
      /\ pc' = [pc EXCEPT ![b] = "listing"]
      /\ pc[b] = "new"
      /\ UNCHANGED <<node, handed>>
  <2>1. tickets' \subseteq rest.tickets
    BY <1>1 DEF InitNode
  <2>2. edges' = rest.edges \cup {<<s, n>> : s \in sources}
    BY <1>1 DEF InitNode
  <2>3. QED
    BY <1>1, <2>1, <2>2 DEF InitNode
<1>3. /\ \A t \in rest.tickets : t \in tickets /\ t.source # n
      /\ \A e \in rest.edges : e \in edges /\ e[1] # n /\ e[2] # n
  BY <1>1, WithoutNode
<1>4. \A s \in sources : s \in Nodes /\ s # n /\ nodes[s] # Absent
  <2> SUFFICES ASSUME NEW t \in fitting
               PROVE  t.source \in Nodes /\ t.source # n /\ nodes[t.source] # Absent
    OBVIOUS
  <2>1. t \in rest.tickets
    OBVIOUS
  <2> HIDE DEF rest, fitting
  <2>2. QED
    BY <2>1, <1>3 DEF Inv, StoreShape, AnyTicket, TicketsOwned, Owned, Registered
<1> HIDE DEF rest, fitting, sources
<1>5. \A m \in Nodes \ {n} : nodes'[m] = nodes[m]
  BY <1>2 DEF Inv, StoreShape
<1>6. nodes'[n] = [buy |-> b, interested |-> TRUE]
  BY <1>2 DEF Inv, StoreShape
<1>7. nodes'[n] # Absent /\ nodes'[n].buy = b
  BY <1>6, TicketsAssumption DEF Absent
<1>8. \A c \in Buys : pc[c] \in {"listing", "sending"} => pc'[c] \in {"listing", "sending"}
  BY <1>2 DEF Inv, StoreShape
<1>9. pc'[b] = "listing" /\ node' = node
  BY <1>2 DEF Inv, StoreShape
<1>10. StoreShape'
  BY <1>2, <1>3, <1>4 DEF Inv, StoreShape
<1>11. NodesKnown'
  <2> SUFFICES ASSUME NEW m \in Nodes, nodes'[m] # Absent'
               PROVE  /\ nodes'[m].buy \in Buys
                      /\ pc'[nodes'[m].buy] \in {"listing", "sending"}
                      /\ node'[nodes'[m].buy] = m
    BY DEF NodesKnown, FromBuy, Running, Registered
  <2>1. CASE m = n
    BY <2>1, <1>1, <1>7, <1>9
  <2>2. CASE m # n
    <3>1. nodes[m] # Absent /\ nodes'[m] = nodes[m]
      BY <2>2, <1>5 DEF Absent
    <3>2. /\ nodes[m].buy \in Buys /\ node[nodes[m].buy] = m
          /\ pc[nodes[m].buy] \in {"listing", "sending"}
      BY <3>1 DEF Inv, NodesKnown, FromBuy, Running, Registered
    <3>3. QED
      BY <3>1, <3>2, <1>8, <1>9
  <2>3. QED
    BY <2>1, <2>2
<1>12. TicketsOwned'
  <2> SUFFICES ASSUME NEW t \in tickets' PROVE Owned(t)'
    BY DEF TicketsOwned
  <2>1. t \in tickets /\ t.source # n
    BY <1>2, <1>3
  <2>2. t.source \in Nodes /\ t.ticket[1] \in Buys /\ t.like \in Buys /\ Owned(t)
    BY <2>1 DEF Inv, StoreShape, AnyTicket, TicketsOwned
  <2>3. QED
    BY <2>1, <2>2, <1>5, <1>8, <1>9 DEF Owned, FromBuy, Running, Registered, Absent
<1>13. EdgesKnown'
  <2> SUFFICES ASSUME NEW e \in edges' PROVE nodes'[e[1]] # Absent' /\ nodes'[e[2]] # Absent'
    BY DEF EdgesKnown, Registered
  <2>1. CASE e \in rest.edges
    BY <2>1, <1>3, <1>5 DEF Inv, StoreShape, EdgesKnown, Registered, Absent
  <2>2. CASE e \in {<<s, n>> : s \in sources}
    <3>1. PICK s \in sources : e = <<s, n>>
      BY <2>2
    <3>2. e[1] = s /\ e[2] = n /\ nodes[s] # Absent /\ s \in Nodes \ {n}
      BY <3>1, <1>4
    <3>3. QED
      BY <3>2, <1>5, <1>7 DEF Absent
  <2>3. QED
    BY <1>2, <2>1, <2>2
<1>14. QED
  BY <1>10, <1>11, <1>12, <1>13 DEF Inv

LEMMA NewTicketInv == ASSUME Inv, NEW b \in Buys, NewTicket(b) PROVE Inv'
<1>0. PICK n \in Nodes : n = node[b]
  BY DEF Inv, StoreShape
<1> DEFINE t == [ticket |-> <<b, handed[b] + 1>>, source |-> n, like |-> nodes[n].buy]
<1>1. pc[b] = "listing"
  BY DEF Inv, StoreShape, NewTicket
<1>2. UNCHANGED <<node, pc, nodes>> /\ handed' = [handed EXCEPT ![b] = @ + 1]
  BY DEF NewTicket
<1>3. \/ UNCHANGED <<tickets, edges>>
      \/ /\ Registered(n) /\ tickets' = tickets \cup {t} /\ UNCHANGED edges
      \/ /\ Registered(n) /\ UNCHANGED tickets
         /\ \E m \in Nodes : Registered(m) /\ edges' = edges \cup {<<n, m>>}
  BY <1>0 DEF NewTicket
<1>4. Registered(n) => t \in AnyTicket /\ Owned(t)
  BY <1>0, <1>1 DEF Inv, StoreShape, AnyTicket, NodesKnown, Owned, FromBuy, Running
<1> HIDE DEF t
<1>5. StoreShape'
  BY <1>1, <1>2, <1>3, <1>4 DEF Inv, StoreShape
<1>6. /\ \A m : Registered(m)' <=> Registered(m)
      /\ \A c, m : FromBuy(c, m)' <=> FromBuy(c, m)
  BY <1>2 DEF Registered, FromBuy, Running
<1>7. NodesKnown'
  BY <1>2, <1>6 DEF Inv, NodesKnown
<1>8. TicketsOwned'
  BY <1>3, <1>4, <1>6 DEF Inv, TicketsOwned, Owned
<1>9. EdgesKnown'
  BY <1>3, <1>6 DEF Inv, EdgesKnown
<1>10. QED
  BY <1>5, <1>7, <1>8, <1>9 DEF Inv

LEMMA SendInv == ASSUME Inv, NEW b \in Buys, Send(b) PROVE Inv'
<1>1. UNCHANGED <<node, handed, nodes, tickets, edges>> /\ pc[b] = "listing"
      /\ pc' = [pc EXCEPT ![b] = "sending"]
  BY DEF Send
<1>2. StoreShape'
  BY <1>1 DEF Inv, StoreShape
<1>3. /\ \A m : Registered(m)' <=> Registered(m)
      /\ \A c \in Buys, m \in Nodes : FromBuy(c, m) => FromBuy(c, m)'
  BY <1>1 DEF Inv, StoreShape, Registered, FromBuy, Running
<1>4. QED
  BY <1>1, <1>2, <1>3
     DEF Inv, StoreShape, AnyTicket, NodesKnown, TicketsOwned, Owned, EdgesKnown

LEMMA SetNodeInterestedInv == ASSUME Inv, NEW b \in Buys, SetNodeInterested(b) PROVE Inv'
<1>0. PICK n \in Nodes : n = node[b]
  BY DEF Inv, StoreShape
<1> DEFINE r == [nodes[n] EXCEPT !.interested = FALSE]
<1>1. UNCHANGED <<node, pc, handed, tickets, edges>>
  BY DEF SetNodeInterested
<1>2. nodes' = nodes \/ (Registered(n) /\ nodes' = [nodes EXCEPT ![n] = r])
  BY <1>0 DEF SetNodeInterested
<1>3. /\ r \in [buy : Buys \cup {NoBuy}, interested : BOOLEAN]
      /\ r.buy = nodes[n].buy
  BY <1>1 DEF Inv, StoreShape
<1>4. Registered(n) => r # Absent
  BY <1>1, <1>3, TicketsAssumption DEF Inv, NodesKnown, Absent
<1> HIDE DEF r
<1>5. StoreShape'
  BY <1>1, <1>2, <1>3 DEF Inv, StoreShape
<1>6. \A m \in Nodes : nodes'[m].buy = nodes[m].buy /\ (Registered(m)' <=> Registered(m))
  BY <1>1, <1>2, <1>3, <1>4 DEF Inv, StoreShape, Registered
<1>7. \A c, m : FromBuy(c, m)' <=> FromBuy(c, m)
  BY <1>1 DEF FromBuy, Running
<1>8. QED
  BY <1>1, <1>5, <1>6, <1>7
     DEF Inv, StoreShape, AnyTicket, NodesKnown, TicketsOwned, Owned, EdgesKnown

LEMMA ExitNodeInv == ASSUME Inv, NEW b \in Buys, ExitNode(b) PROVE Inv'
<1>1. PICK n \in Nodes : n = node[b]
  BY DEF Inv, StoreShape
<1> DEFINE rest == Without(n)
<1>2. /\ tickets' = rest.tickets /\ edges' = rest.edges
      /\ nodes' = [nodes EXCEPT ![n] = Absent]
      /\ pc' = [pc EXCEPT ![b] = "done"]
      /\ UNCHANGED <<node, handed>>
  BY <1>1 DEF ExitNode
<1>3. /\ \A t \in rest.tickets : t \in tickets /\ t.source # n
      /\ \A e \in rest.edges : e \in edges /\ e[1] # n /\ e[2] # n
  BY <1>1, WithoutNode
<1> HIDE DEF rest
<1>4. /\ \A m \in Nodes \ {n} : nodes'[m] = nodes[m]
      /\ nodes'[n] = Absent
  BY <1>2 DEF Inv, StoreShape
<1>5. /\ \A c \in Buys : node[c] # n => pc'[c] = pc[c]
      /\ node' = node
  BY <1>1, <1>2 DEF Inv, StoreShape
<1>6. StoreShape'
  BY <1>2, <1>3 DEF Inv, StoreShape, Absent
<1>7. NodesKnown'
  <2> SUFFICES ASSUME NEW m \in Nodes, nodes'[m] # Absent'
               PROVE  /\ nodes'[m].buy \in Buys
                      /\ pc'[nodes'[m].buy] \in {"listing", "sending"}
                      /\ node'[nodes'[m].buy] = m
    BY DEF NodesKnown, FromBuy, Running, Registered
  <2>1. m # n /\ nodes'[m] = nodes[m] /\ nodes[m] # Absent
    BY <1>4 DEF Absent
  <2>2. /\ nodes[m].buy \in Buys /\ node[nodes[m].buy] = m
        /\ pc[nodes[m].buy] \in {"listing", "sending"}
    BY <2>1 DEF Inv, NodesKnown, FromBuy, Running, Registered
  <2>3. QED
    BY <2>1, <2>2, <1>5
<1>8. TicketsOwned'
  <2> SUFFICES ASSUME NEW t \in tickets' PROVE Owned(t)'
    BY DEF TicketsOwned
  <2>1. t \in tickets /\ t.source # n
    BY <1>2, <1>3
  <2>2. t.source \in Nodes /\ t.ticket[1] \in Buys /\ t.like \in Buys /\ Owned(t)
    BY <2>1 DEF Inv, StoreShape, AnyTicket, TicketsOwned
  <2>3. QED
    BY <2>1, <2>2, <1>4, <1>5 DEF Owned, FromBuy, Running, Registered, Absent
<1>9. EdgesKnown'
  BY <1>2, <1>3, <1>4 DEF Inv, StoreShape, EdgesKnown, Registered, Absent
<1>10. QED
  BY <1>6, <1>7, <1>8, <1>9 DEF Inv

-----------------------------------------------------------------------------
LEMMA StutterInv == ASSUME Inv, UNCHANGED vars PROVE Inv'
  BY DEF vars, Inv, StoreShape, NodesKnown, TicketsOwned, Owned, EdgesKnown, Registered,
         FromBuy, Running

(***************************************************************************)
(* When a buy is over, the store has no tickets for its receiver, neither  *)
(* of its work, no node that it registered and no connection of one,       *)
(* although buys may share a seller.                                       *)
(***************************************************************************)
THEOREM StoreIsCurrent == Spec => []StoreReflectsBuys
<1>1. Init => Inv
  BY InitInv
<1>2. Inv /\ [Next]_vars => Inv'
  <2> SUFFICES ASSUME Inv, [Next]_vars PROVE Inv'
    OBVIOUS
  <2>1. CASE UNCHANGED vars
    BY <2>1, StutterInv
  <2>2. CASE Next
    <3>1. PICK b \in Buys : \/ InitNode(b) \/ NewTicket(b) \/ Send(b)
                            \/ SetNodeInterested(b) \/ ExitNode(b)
      BY <2>2 DEF Next
    <3>2. QED
      BY <3>1, InitNodeInv, NewTicketInv, SendInv, SetNodeInterestedInv, ExitNodeInv
  <2>3. QED
    BY <2>1, <2>2
<1>3. QED
  BY <1>1, <1>2, InvIsEnough, PTL DEF Spec

-----------------------------------------------------------------------------
(***************************************************************************)
(* FoldLeft is a recursive function over sets of positions, and to know    *)
(* anything of it one must know first that it exists: there is no smallest *)
(* length for which it does not. The step is a function here, so that one  *)
(* lemma is for all of them.                                               *)
(***************************************************************************)
LEMMA LeastOf ==
  ASSUME NEW S \in SUBSET Nat, S # {}
  PROVE  \E m \in S : \A k \in S : m <= k
<1>1. PICK less : less = OpToRel(<, Nat)
  OBVIOUS
<1>2. \A k, m \in Nat : k < m => <<k, m>> \in less
  <2> SUFFICES ASSUME NEW k \in Nat, NEW m \in Nat, k < m PROVE <<k, m>> \in OpToRel(<, Nat)
    BY <1>1, Zenon
  <2>1. QED
    BY Zenon DEF OpToRel
<1>3. PICK m \in S : \A k \in S : <<k, m>> \notin less
  BY <1>1, NatLessThanWellFounded, WFMin, Zenon
<1>4. \A k \in S : m <= k
  <2> SUFFICES ASSUME NEW k \in S PROVE ~(k < m)
    OBVIOUS
  <2>1. k \in Nat /\ m \in Nat
    OBVIOUS
  <2>2. QED
    BY <1>2, <1>3, <2>1
<1>5. QED
  BY <1>4

LEMMA MaxIsGreatest ==
  ASSUME NEW n \in Nat, NEW s \in SUBSET (1..n), s # {}
  PROVE  Max(s) \in s /\ \A x \in s : Max(s) >= x
<1> DEFINE bounds == {k \in Nat : \A x \in s : x <= k}
<1>1. n \in bounds
  OBVIOUS
<1>2. PICK m \in bounds : \A k \in bounds : m <= k
  BY <1>1, LeastOf
<1>3. m \in s
  <2> SUFFICES ASSUME m \notin s PROVE FALSE
    OBVIOUS
  <2>1. PICK x \in s : x \in 1..n
    OBVIOUS
  <2>2. m - 1 \in bounds
    BY <1>2, <2>1
  <2>3. QED
    BY <1>2, <2>2
<1>4. QED
  BY <1>2, <1>3 DEF Max

Folded(F, base, seq, s, g) ==
  IF s = {} THEN base ELSE F[<<g[s \ {Max(s)}], seq[Max(s)]>>]

FoldOf(F, base, seq, n, St, g) ==
  /\ g \in [SUBSET (1..n) -> St]
  /\ \A s \in SUBSET (1..n) : g[s] = Folded(F, base, seq, s, g)

LEMMA FoldGoesOn ==
  ASSUME NEW St, NEW A, NEW F \in [St \X A -> St], NEW base \in St,
         NEW n \in Nat, NEW seq, \A i \in 1..n+1 : seq[i] \in A,
         NEW g, FoldOf(F, base, seq, n, St, g)
  PROVE  \E f : FoldOf(F, base, seq, n + 1, St, f)
<1> DEFINE f == [s \in SUBSET (1..n+1) |->
                   IF n + 1 \in s THEN F[<<g[s \ {n + 1}], seq[n + 1]>>] ELSE g[s]]
<1>1. \A s \in SUBSET (1..n+1) : s \ {n + 1} \in SUBSET (1..n)
  OBVIOUS
<1>2. \A s \in SUBSET (1..n+1) : n + 1 \notin s => s \in SUBSET (1..n)
  OBVIOUS
<1>3. seq[n + 1] \in A
  OBVIOUS
<1>4. f \in [SUBSET (1..n+1) -> St]
  BY <1>1, <1>2, <1>3 DEF FoldOf
<1>5. ASSUME NEW s \in SUBSET (1..n+1) PROVE f[s] = Folded(F, base, seq, s, f)
  <2>1. CASE n + 1 \in s
    <3>1. Max(s) = n + 1
      <4>1. Max(s) \in s /\ \A x \in s : Max(s) >= x
        BY <2>1, MaxIsGreatest, n + 1 \in Nat
      <4>2. Max(s) \in 1..n+1
        BY <4>1
      <4>3. QED
        BY <2>1, <4>1, <4>2
    <3>2. f[s \ {n + 1}] = g[s \ {n + 1}]
      BY <1>1
    <3>3. f[s] = F[<<g[s \ {n + 1}], seq[n + 1]>>]
      BY <2>1
    <3> HIDE DEF f
    <3>4. QED
      BY <2>1, <3>1, <3>2, <3>3 DEF Folded
  <2>2. CASE n + 1 \notin s
    <3>1. s \in SUBSET (1..n) /\ f[s] = g[s]
      BY <2>2, <1>2
    <3>2. g[s] = Folded(F, base, seq, s, g)
      BY <3>1 DEF FoldOf
    <3>3. CASE s = {}
      BY <3>1, <3>2, <3>3 DEF Folded
    <3>4. CASE s # {}
      <4>1. s \ {Max(s)} \in SUBSET (1..n) /\ n + 1 \notin s \ {Max(s)}
        BY <3>1, <2>2
      <4>2. f[s \ {Max(s)}] = g[s \ {Max(s)}]
        BY <4>1
      <4> HIDE DEF f
      <4>3. QED
        BY <3>1, <3>2, <3>4, <4>2 DEF Folded
    <3>5. QED
      BY <3>3, <3>4
  <2>3. QED
    BY <2>1, <2>2
<1> HIDE DEF f
<1>6. QED
  BY <1>4, <1>5 DEF FoldOf

LEMMA FoldExists ==
  ASSUME NEW St, NEW A, NEW F \in [St \X A -> St], NEW base \in St,
         NEW n \in Nat, NEW seq, \A i \in 1..n : seq[i] \in A
  PROVE  \E g : FoldOf(F, base, seq, n, St, g)
<1> DEFINE none == {m \in Nat : m <= n /\ ~\E g : FoldOf(F, base, seq, m, St, g)}
<1>1. ASSUME none # {} PROVE FALSE
  <2>1. PICK m \in none : \A k \in none : m <= k
    BY <1>1, LeastOf
  <2>2. m # 0
    <3> DEFINE g == [s \in SUBSET (1..0) |-> base]
    <3>1. FoldOf(F, base, seq, 0, St, g)
      BY DEF FoldOf, Folded
    <3> HIDE DEF g
    <3>2. QED
      BY <2>1, <3>1
  <2>3. m - 1 \in Nat /\ m - 1 <= n /\ m - 1 \notin none
    BY <2>1, <2>2
  <2>4. PICK g : FoldOf(F, base, seq, m - 1, St, g)
    BY <2>3
  <2>5. \A i \in 1..(m - 1) + 1 : seq[i] \in A
    BY <2>1
  <2>6. \E f : FoldOf(F, base, seq, (m - 1) + 1, St, f)
    BY <2>3, <2>4, <2>5, FoldGoesOn
  <2>7. QED
    BY <2>1, <2>6
<1>2. QED
  BY <1>1

(***************************************************************************)
(* From there each fold is a run of its step, from position to position.   *)
(***************************************************************************)
LEMMA Intervals ==
  ASSUME NEW n \in Nat, NEW k \in 1..n
  PROVE  /\ (1..k) \in SUBSET (1..n) /\ 1..k # {}
         /\ Max(1..k) = k /\ (1..k) \ {k} = 1..k-1
<1>1. k \in 1..k /\ k \in Nat
  OBVIOUS
<1>2. (1..k) \in SUBSET (1..n) /\ 1..k # {}
  BY <1>1
<1>3. Max(1..k) \in 1..k /\ \A x \in 1..k : Max(1..k) >= x
  BY <1>2, MaxIsGreatest
<1>4. Max(1..k) = k
  BY <1>1, <1>3
<1>5. (1..k) \ {k} = 1..k-1
  OBVIOUS
<1>6. QED
  BY <1>2, <1>4, <1>5

LEMMA MatchRun ==
  ASSUME NEW h \in [1..4 -> Nat], NEW o \in [1..4 -> Nat], NEW n
  PROVE \E r : /\ r[0] = [i |-> 1, j |-> 1, n |-> 0]
               /\ \A k \in 1..8 : r[k] = MatchStep(h, o, r[k-1])
               /\ Matches(h, o, n) <=> r[8].n >= n
<1> DEFINE St == [i : 1..5, j : 1..5, n : Nat]
           F == [p \in St \X (1..8) |-> MatchStep(h, o, p[1])]
           base == [i |-> 1, j |-> 1, n |-> 0]
           seq == [k \in 1..8 |-> k]
           body(g) == [s \in SUBSET (1..8) |-> IF s = {} THEN base ELSE MatchStep(h, o, g[s \ {Max(s)}])]
           it == CHOOSE g : g = body(g)
<1>1. F \in [St \X (1..8) -> St]
  <2> SUFFICES ASSUME NEW s \in St PROVE MatchStep(h, o, s) \in St
    OBVIOUS
  <2>1. QED
    BY DEF MatchStep, numFingers
<1>2. \A i \in 1..8 : seq[i] \in 1..8
  OBVIOUS
<1>3. base \in St
  OBVIOUS
<1> HIDE DEF F, base, St
<1>4. PICK f : FoldOf(F, base, seq, 8, St, f)
  BY <1>1, <1>2, <1>3, FoldExists
<1>5. ASSUME NEW s \in SUBSET (1..8), s # {} PROVE f[s] = MatchStep(h, o, f[s \ {Max(s)}])
  <2>1. Max(s) \in 1..8
    BY <1>5, MaxIsGreatest
  <2>2. f[s] = F[<<f[s \ {Max(s)}], seq[Max(s)]>>]
    BY <1>4, <1>5 DEF FoldOf, Folded
  <2>3. s \ {Max(s)} \in SUBSET (1..8)
    OBVIOUS
  <2>4. f[s \ {Max(s)}] \in St
    BY <1>4, <2>3 DEF FoldOf
  <2>5. QED
    BY <2>1, <2>2, <2>4 DEF F
<1>6. f = body(f)
  BY <1>4, <1>5 DEF FoldOf, Folded
<1>7. it = body(it)
  BY <1>6
<1>8. Matches(h, o, n) <=> it[1..8].n >= n
  BY DEF Matches, FoldLeft, MapThenFoldSet, numFingers, base
<1>9. \A s \in SUBSET (1..8) : it[s] = IF s = {} THEN base ELSE MatchStep(h, o, it[s \ {Max(s)}])
  BY <1>7
<1> HIDE DEF it
<1> DEFINE r == [k \in 0..8 |-> it[1..k]]
<1>10. r[0] = base
  <2>1. 1..0 = {} /\ {} \in SUBSET (1..8) /\ r[0] = it[1..0]
    OBVIOUS
  <2>2. it[{}] = base
    BY <1>9
  <2>3. QED
    BY <2>1, <2>2
<1>11. ASSUME NEW k \in 1..8 PROVE r[k] = MatchStep(h, o, r[k - 1])
  <2>1. /\ (1..k) \in SUBSET (1..8) /\ 1..k # {}
        /\ Max(1..k) = k /\ (1..k) \ {k} = 1..k-1
    BY Intervals, 8 \in Nat
  <2>2. it[1..k] = MatchStep(h, o, it[(1..k) \ {Max(1..k)}])
    BY <1>9, <2>1
  <2>3. it[1..k] = MatchStep(h, o, it[1..k-1])
    BY <2>1, <2>2
  <2>4. r[k] = it[1..k] /\ r[k - 1] = it[1..k-1]
    OBVIOUS
  <2>5. QED
    BY <2>3, <2>4
<1>12. r[8] = it[1..8]
  OBVIOUS
<1> HIDE DEF r
<1>13. QED
  BY <1>8, <1>10, <1>11, <1>12 DEF base

Keys == 0..MaxKey
Prints == [1..4 -> Keys]

LEMMA InsertRun ==
  ASSUME NEW h \in Prints, NEW x \in Keys
  PROVE  \E r : /\ r[0] = [fingers |-> h, finger |-> x, over |-> FALSE]
                /\ \A k \in 1..4 : r[k] = InsertStep(r[k - 1], k)
                /\ Insert(h, x) = r[4].fingers
<1> DEFINE St == [fingers : Prints, finger : Keys, over : BOOLEAN]
           F == [p \in St \X (1..4) |-> InsertStep(p[1], p[2])]
           base == [fingers |-> h, finger |-> x, over |-> FALSE]
           seq == [k \in 1..4 |-> k]
           body(g) == [s \in SUBSET (1..4) |->
                         IF s = {} THEN base ELSE InsertStep(g[s \ {Max(s)}], seq[Max(s)])]
           it == CHOOSE g : g = body(g)
<1>1. F \in [St \X (1..4) -> St]
  <2> SUFFICES ASSUME NEW s \in St, NEW i \in 1..4 PROVE InsertStep(s, i) \in St
    OBVIOUS
  <2>1. QED
    BY DEF InsertStep, Prints
<1>2. \A i \in 1..4 : seq[i] = i /\ seq[i] \in 1..4
  OBVIOUS
<1>3. base \in St
  OBVIOUS
<1> HIDE DEF F, base, St, seq
<1>4. PICK f : FoldOf(F, base, seq, 4, St, f)
  BY <1>1, <1>2, <1>3, FoldExists
<1>5. ASSUME NEW s \in SUBSET (1..4), s # {} PROVE f[s] = InsertStep(f[s \ {Max(s)}], seq[Max(s)])
  <2>1. Max(s) \in 1..4
    BY <1>5, MaxIsGreatest
  <2>2. f[s] = F[<<f[s \ {Max(s)}], seq[Max(s)]>>]
    BY <1>4, <1>5 DEF FoldOf, Folded
  <2>3. s \ {Max(s)} \in SUBSET (1..4)
    OBVIOUS
  <2>4. f[s \ {Max(s)}] \in St
    BY <1>4, <2>3 DEF FoldOf
  <2>5. QED
    BY <1>2, <2>1, <2>2, <2>4 DEF F
<1>6. f = body(f)
  BY <1>4, <1>5 DEF FoldOf, Folded
<1>7. it = body(it)
  BY <1>6
<1>8. Insert(h, x) = it[1..4].fingers
  BY DEF Insert, FoldLeft, MapThenFoldSet, numFingers, base, seq
<1>9. \A s \in SUBSET (1..4) :
        it[s] = IF s = {} THEN base ELSE InsertStep(it[s \ {Max(s)}], seq[Max(s)])
  BY <1>7
<1> HIDE DEF it
<1> DEFINE r == [k \in 0..4 |-> it[1..k]]
<1>10. r[0] = base
  <2>1. 1..0 = {} /\ {} \in SUBSET (1..4) /\ r[0] = it[1..0]
    OBVIOUS
  <2>2. it[{}] = base
    BY <1>9
  <2>3. QED
    BY <2>1, <2>2
<1>11. ASSUME NEW k \in 1..4 PROVE r[k] = InsertStep(r[k - 1], k)
  <2>1. /\ (1..k) \in SUBSET (1..4) /\ 1..k # {}
        /\ Max(1..k) = k /\ (1..k) \ {k} = 1..k-1
    BY Intervals, 4 \in Nat
  <2>2. it[1..k] = InsertStep(it[(1..k) \ {Max(1..k)}], seq[Max(1..k)])
    BY <1>9, <2>1
  <2>3. it[1..k] = InsertStep(it[1..k-1], k)
    BY <1>2, <2>1, <2>2
  <2>4. r[k] = it[1..k] /\ r[k - 1] = it[1..k-1]
    OBVIOUS
  <2>5. QED
    BY <2>3, <2>4
<1>12. r[4] = it[1..4]
  OBVIOUS
<1> HIDE DEF r
<1>13. QED
  BY <1>8, <1>10, <1>11, <1>12 DEF base

LEMMA HandprintRun ==
  ASSUME NEW f \in Seq(Keys), \A h \in Prints, x \in Keys : Insert(h, x) \in Prints
  PROVE  \E r : /\ r[0] = [i \in 1..4 |-> MaxKey]
                /\ \A k \in 1..Len(f) : r[k] = Insert(r[k - 1], f[k])
                /\ Handprint(f) = r[Len(f)]
<1> DEFINE F == [p \in Prints \X Keys |-> Insert(p[1], p[2])]
           base == [i \in 1..4 |-> MaxKey]
           body(g) == [s \in SUBSET (DOMAIN f) |->
                         IF s = {} THEN base ELSE Insert(g[s \ {Max(s)}], f[Max(s)])]
           it == CHOOSE g : g = body(g)
<1>1. F \in [Prints \X Keys -> Prints]
  OBVIOUS
<1>2. PICK n \in Nat : n = Len(f) /\ DOMAIN f = 1..n /\ \A i \in 1..n : f[i] \in Keys
  OBVIOUS
<1>3. base \in Prints
  BY TicketsAssumption DEF Prints, Keys
<1> HIDE DEF F, base
<1>4. PICK w : FoldOf(F, base, f, n, Prints, w)
  BY <1>1, <1>2, <1>3, FoldExists
<1>5. ASSUME NEW s \in SUBSET (1..n), s # {} PROVE w[s] = Insert(w[s \ {Max(s)}], f[Max(s)])
  <2>1. Max(s) \in 1..n
    BY <1>5, MaxIsGreatest
  <2>2. w[s] = F[<<w[s \ {Max(s)}], f[Max(s)]>>]
    BY <1>4, <1>5 DEF FoldOf, Folded
  <2>3. s \ {Max(s)} \in SUBSET (1..n)
    OBVIOUS
  <2>4. w[s \ {Max(s)}] \in Prints
    BY <1>4, <2>3 DEF FoldOf
  <2>5. QED
    BY <1>2, <2>1, <2>2, <2>4 DEF F
<1>6. w = body(w)
  BY <1>2, <1>4, <1>5 DEF FoldOf, Folded
<1>7. it = body(it)
  BY <1>6
<1>8. Handprint(f) = it[DOMAIN f]
  BY DEF Handprint, FoldLeft, MapThenFoldSet, numFingers, base
<1>9. \A s \in SUBSET (1..n) : it[s] = IF s = {} THEN base ELSE Insert(it[s \ {Max(s)}], f[Max(s)])
  BY <1>2, <1>7
<1> HIDE DEF it
<1> DEFINE r == [k \in 0..n |-> it[1..k]]
<1>10. r[0] = base
  <2>1. 1..0 = {} /\ {} \in SUBSET (1..n) /\ r[0] = it[1..0]
    OBVIOUS
  <2>2. it[{}] = base
    BY <1>9
  <2>3. QED
    BY <2>1, <2>2
<1>11. ASSUME NEW k \in 1..n PROVE r[k] = Insert(r[k - 1], f[k])
  <2>1. /\ (1..k) \in SUBSET (1..n) /\ 1..k # {}
        /\ Max(1..k) = k /\ (1..k) \ {k} = 1..k-1
    BY Intervals
  <2>2. it[1..k] = Insert(it[(1..k) \ {Max(1..k)}], f[Max(1..k)])
    BY <1>9, <2>1
  <2>3. it[1..k] = Insert(it[1..k-1], f[k])
    BY <2>1, <2>2
  <2>4. r[k] = it[1..k] /\ r[k - 1] = it[1..k-1]
    OBVIOUS
  <2>5. QED
    BY <2>3, <2>4
<1>12. r[n] = it[DOMAIN f]
  BY <1>2
<1> HIDE DEF r
<1>13. QED
  BY <1>2, <1>8, <1>10, <1>11, <1>12 DEF base

(***************************************************************************)
(* What insert does: the finger takes its place in an ascending handprint  *)
(* and the rest moves up by one, the last one out; or it is there already, *)
(* or too big. Inserted is the invariant of the loop.                      *)
(***************************************************************************)
Ascending(h) == \A a, b \in 1..4 : a < b => h[a] < h[b] \/ h[b] = MaxKey

Shifted(h, x, p, k) ==
  [a \in 1..4 |-> IF a = p THEN x ELSE IF p < a /\ a <= k THEN h[a - 1] ELSE h[a]]

Place(h, x, p) == x < h[p] /\ \A a \in 1..4 : a < p => h[a] < x

Inserted(h, x, s, k) ==
  /\ s \in [fingers : Prints, finger : Keys, over : BOOLEAN]
  /\ \/ /\ s.fingers = h /\ s.finger = x
        /\ s.over => \E a \in 1..4 : h[a] = x
        /\ ~s.over => \A a \in 1..4 : a <= k => h[a] < x
     \/ \E p \in 1..4 :
          /\ Place(h, x, p)
          /\ s.over => s.fingers = Shifted(h, x, p, 4)
          /\ ~s.over => p <= k /\ s.finger = h[k] /\ s.fingers = Shifted(h, x, p, k)

LEMMA InsertStepInserts ==
  ASSUME NEW h \in Prints, Ascending(h), NEW x \in Keys, NEW i \in 1..4, NEW s,
         Inserted(h, x, s, i - 1)
  PROVE  Inserted(h, x, InsertStep(s, i), i)
<1> DEFINE t == InsertStep(s, i)
<1>0. \A a \in 1..4 : h[a] \in Nat /\ h[a] <= MaxKey
  BY TicketsAssumption DEF Prints, Keys
<1>1. t \in [fingers : Prints, finger : Keys, over : BOOLEAN]
  BY DEF InsertStep, Inserted, Prints
<1>2. CASE s.over
  <2>1. t = s
    BY <1>2 DEF InsertStep
  <2>2. QED
    BY <1>2, <2>1 DEF Inserted
<1>3. CASE ~s.over /\ s.fingers = h /\ s.finger = x /\ \A a \in 1..4 : a <= i - 1 => h[a] < x
  <2>1. CASE h[i] < x
    <3>1. t = s
      BY <1>3, <2>1 DEF InsertStep
    <3>2. \A a \in 1..4 : a <= i => h[a] < x
      BY <1>3, <2>1
    <3>3. QED
      BY <1>1, <1>3, <3>1, <3>2 DEF Inserted
  <2>2. CASE h[i] = x
    <3>1. t.fingers = h /\ t.finger = x /\ t.over
      BY <1>3, <2>2 DEF InsertStep, Inserted, Prints, Keys
    <3>2. QED
      BY <1>1, <2>2, <3>1 DEF Inserted
  <2>3. CASE x < h[i]
    <3>1. t.fingers = [h EXCEPT ![i] = x] /\ t.finger = h[i] /\ ~t.over
      <4>1. s.fingers[i] = h[i] /\ ~(h[i] < x) /\ h[i] # x
        BY <1>0, <1>3, <2>3 DEF Keys
      <4>2. QED
        BY <1>3, <4>1 DEF InsertStep, Inserted
    <3>2. t.fingers = Shifted(h, x, i, i)
      <4>1. \A a \in 1..4 : ~(i < a /\ a <= i)
        OBVIOUS
      <4>2. [h EXCEPT ![i] = x] = Shifted(h, x, i, i)
        BY <4>1 DEF Shifted, Prints
      <4>3. QED
        BY <3>1, <4>2
    <3>3. Place(h, x, i)
      BY <1>3, <2>3 DEF Place
    <3>4. QED
      BY <1>1, <3>1, <3>2, <3>3 DEF Inserted
  <2>4. QED
    BY <1>0, <2>1, <2>2, <2>3 DEF Keys
<1>4. ASSUME NEW p \in 1..4, ~s.over, Place(h, x, p), p <= i - 1, s.finger = h[i - 1],
             s.fingers = Shifted(h, x, p, i - 1)
      PROVE  Inserted(h, x, t, i)
  <2>1. s.fingers[i] = h[i] /\ i - 1 \in 1..4
    BY <1>4 DEF Shifted
  <2>2. h[i - 1] < h[i] \/ h[i] = MaxKey
    BY <2>1 DEF Ascending
  <2>3. CASE h[i] = h[i - 1]
    <3>1. t.over /\ t.fingers = s.fingers
      BY <1>4, <2>1, <2>3, <1>0 DEF InsertStep, Inserted
    <3>2. h[i - 1] = MaxKey
      BY <1>0, <2>1, <2>2, <2>3
    <3>3. \A a \in 1..4 : a >= i - 1 => h[a] = MaxKey
      BY <1>0, <2>1, <3>2 DEF Ascending
    <3>4. Shifted(h, x, p, i - 1) = Shifted(h, x, p, 4)
      BY <1>4, <3>3 DEF Shifted
    <3>5. QED
      BY <1>1, <1>4, <3>1, <3>4 DEF Inserted
  <2>4. CASE h[i - 1] < h[i]
    <3>1. ~t.over /\ t.fingers = [s.fingers EXCEPT ![i] = h[i - 1]] /\ t.finger = h[i]
      BY <1>4, <2>1, <2>4, <1>0 DEF InsertStep, Inserted
    <3>2. t.fingers = Shifted(h, x, p, i)
      BY <1>4, <3>1 DEF Shifted
    <3>3. QED
      BY <1>1, <1>4, <3>1, <3>2 DEF Inserted
  <2>5. QED
    BY <1>0, <2>1, <2>2, <2>3, <2>4
<1>5. QED
  BY <1>2, <1>3, <1>4 DEF Inserted

LEMMA InsertResult ==
  ASSUME NEW h \in Prints, Ascending(h), NEW x \in Keys
  PROVE  \/ Insert(h, x) = h /\ ((\E a \in 1..4 : h[a] = x) \/ \A a \in 1..4 : h[a] < x)
         \/ \E p \in 1..4 : Place(h, x, p) /\ Insert(h, x) = Shifted(h, x, p, 4)
<1>1. PICK r : /\ r[0] = [fingers |-> h, finger |-> x, over |-> FALSE]
               /\ \A k \in 1..4 : r[k] = InsertStep(r[k - 1], k)
               /\ Insert(h, x) = r[4].fingers
  BY InsertRun
<1>2. Inserted(h, x, r[0], 0)
  BY <1>1 DEF Inserted
<1>3. \A k \in 1..4 : Inserted(h, x, r[k - 1], k - 1) => Inserted(h, x, r[k], k)
  BY <1>1, InsertStepInserts
<1>4. Inserted(h, x, r[1], 1)
  BY <1>2, <1>3
<1>5. Inserted(h, x, r[2], 2)
  BY <1>4, <1>3
<1>6. Inserted(h, x, r[3], 3)
  BY <1>5, <1>3
<1>7. Inserted(h, x, r[4], 4)
  BY <1>6, <1>3
<1>8. QED
  BY <1>1, <1>7 DEF Inserted

LEMMA InsertPrints == \A h \in Prints, x \in Keys : Insert(h, x) \in Prints
  <1> SUFFICES ASSUME NEW h \in Prints, NEW x \in Keys PROVE Insert(h, x) \in Prints
    OBVIOUS
  <1>1. PICK r : /\ r[0] = [fingers |-> h, finger |-> x, over |-> FALSE]
                 /\ \A k \in 1..4 : r[k] = InsertStep(r[k - 1], k)
                 /\ Insert(h, x) = r[4].fingers
    BY InsertRun
  <1> DEFINE St == [fingers : Prints, finger : Keys, over : BOOLEAN]
  <1>2. r[0] \in St
    BY <1>1
  <1>3. \A s \in St, i \in 1..4 : InsertStep(s, i) \in St
    BY DEF InsertStep, Prints
  <1> HIDE DEF St
  <1>4. \A k \in 1..4 : r[k - 1] \in St => r[k] \in St
    BY <1>1, <1>3
  <1>5. r[1] \in St /\ r[2] \in St /\ r[3] \in St
    BY <1>2, <1>4
  <1>6. r[4] \in St
    BY <1>4, <1>5
  <1>7. QED
    BY <1>1, <1>6 DEF St

(***************************************************************************)
(* A handprint of a set of keys: ascending, padded with MaxKey, and a key  *)
(* that is not in it is greater than all that are.                         *)
(***************************************************************************)
IsHandprint(h, K) ==
  /\ h \in Prints /\ Ascending(h)
  /\ \A a \in 1..4 : h[a] \in K \cup {MaxKey}
  /\ \A k \in K : (\E a \in 1..4 : h[a] = k) \/ \A a \in 1..4 : h[a] < k

LEMMA InsertKeepsHandprint ==
  ASSUME NEW K \in SUBSET (0..MaxKey - 1), NEW h, IsHandprint(h, K), NEW x \in 0..MaxKey - 1
  PROVE  IsHandprint(Insert(h, x), K \cup {x})
<1>0. h \in Prints /\ Ascending(h) /\ x \in Keys
  BY TicketsAssumption DEF IsHandprint, Keys
<1>1. CASE Insert(h, x) = h /\ ((\E a \in 1..4 : h[a] = x) \/ \A a \in 1..4 : h[a] < x)
  BY <1>1 DEF IsHandprint
<1>2. ASSUME NEW p \in 1..4, Place(h, x, p), Insert(h, x) = Shifted(h, x, p, 4)
      PROVE  IsHandprint(Insert(h, x), K \cup {x})
  <2>0. \A a \in 1..4 : h[a] \in Nat /\ h[a] <= MaxKey
    BY <1>0, TicketsAssumption DEF Prints, Keys
  <2> DEFINE g == Shifted(h, x, p, 4)
  <2>1. g \in Prints
    BY <1>0, <2>0 DEF Shifted, Prints
  <2>2. Ascending(g)
    BY <1>0, <1>2, <2>0, TicketsAssumption DEF Ascending, Shifted, Place
  <2>3. \A a \in 1..4 : g[a] \in K \cup {x} \cup {MaxKey}
    BY DEF Shifted, IsHandprint
  <2>4. ASSUME NEW k \in K PROVE (\E a \in 1..4 : g[a] = k) \/ \A a \in 1..4 : g[a] < k
    <3>1. k < MaxKey /\ k \in Nat
      BY TicketsAssumption
    <3>2. CASE \A a \in 1..4 : h[a] < k
      BY <1>2, <2>0, <3>1, <3>2 DEF Shifted, Place
    <3>3. ASSUME NEW a \in 1..4, h[a] = k PROVE (\E b \in 1..4 : g[b] = k) \/ \A b \in 1..4 : g[b] < k
      <4>1. CASE a < p
        <5>1. g[a] = k
          BY <3>3, <4>1 DEF Shifted
        <5>2. QED
          BY <5>1
      <4>2. CASE a >= p /\ a < 4
        <5>1. a + 1 \in 1..4 /\ g[a + 1] = k
          BY <3>3, <4>2 DEF Shifted
        <5>2. QED
          BY <5>1
      <4>3. CASE a = 4
        <5>1. \A b \in 1..4 : b < 4 => h[b] < k
          BY <1>0, <3>1, <3>3, <4>3 DEF Ascending
        <5>2. x < k
          BY <1>2, <2>0, <3>3, <4>3, <5>1 DEF Place
        <5>3. QED
          BY <2>0, <3>1, <4>3, <5>1, <5>2 DEF Shifted
      <4>4. QED
        BY <4>1, <4>2, <4>3
    <3>4. QED
      BY <3>2, <3>3 DEF IsHandprint
  <2>5. g[p] = x
    BY DEF Shifted
  <2> HIDE DEF g
  <2>6. QED
    BY <1>2, <2>1, <2>2, <2>3, <2>4, <2>5 DEF IsHandprint, g
<1>3. QED
  BY <1>0, <1>1, <1>2, InsertResult

LEMMA HandprintIsOne ==
  ASSUME NEW f \in Seq(0..MaxKey - 1)
  PROVE  IsHandprint(Handprint(f), ToSet(f))
<1> DEFINE K(k) == {f[i] : i \in 1..k}
<1>1A. \A i \in 1..Len(f) : f[i] \in 0..MaxKey - 1
  <2>1. PICK A : A = 0..MaxKey - 1
    OBVIOUS
  <2>2. f \in Seq(A)
    BY <2>1
  <2>3. \A i \in 1..Len(f) : f[i] \in A
    BY <2>2
  <2>4. QED
    BY <2>1, <2>3
<1>0. f \in Seq(Keys)
  BY TicketsAssumption DEF Keys
<1>1. PICK r : /\ r[0] = [i \in 1..4 |-> MaxKey]
               /\ \A k \in 1..Len(f) : r[k] = Insert(r[k - 1], f[k])
               /\ Handprint(f) = r[Len(f)]
  BY <1>0, InsertPrints, HandprintRun
<1>2. IsHandprint(r[0], K(0))
  BY <1>1, TicketsAssumption DEF IsHandprint, Prints, Keys, Ascending
<1>3. ASSUME NEW k \in 1..Len(f), IsHandprint(r[k - 1], K(k - 1)) PROVE IsHandprint(r[k], K(k))
  <2>0. \A i \in 1..k : i \in 1..Len(f) /\ f[i] \in 0..MaxKey - 1 /\ (i = k \/ i \in 1..k-1)
    <3> SUFFICES ASSUME NEW i \in 1..k
                 PROVE  i \in 1..Len(f) /\ f[i] \in 0..MaxKey - 1 /\ (i = k \/ i \in 1..k-1)
      OBVIOUS
    <3>1. Len(f) \in Nat /\ i \in 1..Len(f) /\ (i = k \/ i \in 1..k-1)
      OBVIOUS
    <3>2. f[i] \in 0..MaxKey - 1
      BY <1>1A, <3>1
    <3>3. QED
      BY <3>1, <3>2
  <2>1. K(k) = K(k - 1) \cup {f[k]} /\ K(k - 1) \in SUBSET (0..MaxKey - 1) /\ f[k] \in 0..MaxKey - 1
    <3>1. k \in 1..k /\ \A i \in 1..k-1 : i \in 1..k
      OBVIOUS
    <3>2. QED
      BY <2>0, <3>1
  <2> HIDE DEF K
  <2>2. QED
    BY <1>1, <1>3, <2>1, InsertKeepsHandprint
<1> DEFINE bad == {k \in Nat : k <= Len(f) /\ ~IsHandprint(r[k], K(k))}
<1>4. ToSet(f) = K(Len(f))
  BY DEF ToSet
<1> HIDE DEF K
<1>5. ASSUME bad # {} PROVE FALSE
  <2>1. PICK k \in bad : \A l \in bad : k <= l
    BY <1>5, LeastOf
  <2>2. k # 0
    BY <1>2, <2>1
  <2>3. k \in 1..Len(f) /\ k - 1 \in Nat /\ k - 1 \notin bad /\ k - 1 <= Len(f)
    BY <2>1, <2>2
  <2>4. IsHandprint(r[k - 1], K(k - 1))
    BY <2>3
  <2>5. QED
    BY <1>3, <2>1, <2>3, <2>4
<1>6. Len(f) \in Nat /\ Len(f) \notin bad
  BY <1>5
<1>7. QED
  BY <1>1, <1>4, <1>6

(***************************************************************************)
(* Without the padding, a handprint of K has the smallest keys of K; there *)
(* is none if K is large.                                                  *)
(***************************************************************************)
Real(h) == {h[a] : a \in 1..4} \ {MaxKey}

LEMMA FewElements ==
  ASSUME NEW x, NEW y, NEW z, NEW S
  PROVE  /\ S \subseteq {x} => Cardinality(S) <= 1
         /\ S \subseteq {x, y, z} => Cardinality(S) <= 3
<1>1. IsFiniteSet({x}) /\ Cardinality({x}) = 1
  BY FS_Singleton, Zenon
<1>2. {x, y} = {x} \cup {y} /\ {x, y, z} = {x, y} \cup {z}
  OBVIOUS
<1>3. IsFiniteSet({x, y}) /\ (Cardinality({x, y}) = 1 \/ Cardinality({x, y}) = 2)
  BY <1>1, <1>2, FS_AddElement
<1>4. PICK T : T = {x, y, z} /\ IsFiniteSet(T) /\ Cardinality(T) <= 3
  <2>1. PICK T2 : T2 = {x, y} /\ IsFiniteSet(T2) /\ (Cardinality(T2) = 1 \/ Cardinality(T2) = 2)
    BY <1>3
  <2>2. IsFiniteSet(T2 \cup {z}) /\ Cardinality(T2 \cup {z}) <= 3
    BY <2>1, FS_AddElement
  <2>3. QED
    BY <1>2, <2>1, <2>2
<1>5. PICK U : U = {x} /\ IsFiniteSet(U) /\ Cardinality(U) = 1
  BY <1>1
<1>6. S \subseteq U => Cardinality(S) <= 1
  BY <1>5, FS_Subset, FS_CardinalityType
<1>7. S \subseteq T => Cardinality(S) <= 3
  BY <1>4, FS_Subset, FS_CardinalityType
<1>8. QED
  BY <1>4, <1>5, <1>6, <1>7, Zenon

LEMMA FourElements ==
  ASSUME NEW x \in Nat, NEW y \in Nat, NEW z \in Nat, NEW w \in Nat, x < y, y < z, z < w
  PROVE  IsFiniteSet({x, y, z, w}) /\ Cardinality({x, y, z, w}) = 4
<1>1. IsFiniteSet({x}) /\ Cardinality({x}) = 1
  BY FS_Singleton, Zenon
<1>2. /\ {x, y} = {x} \cup {y} /\ y \notin {x}
      /\ {x, y, z} = {x, y} \cup {z} /\ z \notin {x, y}
      /\ {x, y, z, w} = {x, y, z} \cup {w} /\ w \notin {x, y, z}
  OBVIOUS
<1>3. IsFiniteSet({x, y}) /\ Cardinality({x, y}) = 2
  BY <1>1, <1>2, FS_AddElement
<1>4. IsFiniteSet({x, y, z}) /\ Cardinality({x, y, z}) = 3
  BY <1>2, <1>3, FS_AddElement
<1>5. QED
  BY <1>2, <1>4, FS_AddElement

LEMMA FewerElements ==
  ASSUME NEW x \in Nat, NEW y \in Nat, x < y
  PROVE  /\ Cardinality({x, y}) = 2
         /\ \A z \in Nat : y < z => Cardinality({x, y, z}) = 3
<1>1. IsFiniteSet({x}) /\ Cardinality({x}) = 1
  BY FS_Singleton, Zenon
<1>2. {x, y} = {x} \cup {y} /\ y \notin {x}
  OBVIOUS
<1>3. IsFiniteSet({x, y}) /\ Cardinality({x, y}) = 2
  BY <1>1, <1>2, FS_AddElement
<1>4. ASSUME NEW z \in Nat, y < z PROVE Cardinality({x, y, z}) = 3
  <2>1. {x, y, z} = {x, y} \cup {z} /\ z \notin {x, y}
    BY <1>4
  <2>2. QED
    BY <1>3, <2>1, FS_AddElement
<1>5. QED
  BY <1>3, <1>4

LEMMA RealIsSmallest ==
  ASSUME NEW K \in SUBSET (0..MaxKey - 1), IsFiniteSet(K), NEW h, IsHandprint(h, K)
  PROVE  Smallest(K) = Real(h)
<1>0. /\ \A a \in 1..4 : h[a] \in Nat /\ h[a] <= MaxKey
      /\ \A k \in K : k \in Nat /\ k < MaxKey
      /\ MaxKey \in Nat
  BY TicketsAssumption DEF IsHandprint, Prints, Keys
<1> DEFINE Below(k) == {l \in K : l < k}
<1>1. ASSUME NEW k \in K PROVE IsFiniteSet(Below(k)) /\ Cardinality(Below(k)) \in Nat
  BY FS_Subset, FS_CardinalityType
<1>2. ASSUME NEW k \in K, \A a \in 1..4 : h[a] < k PROVE ~(Cardinality(Below(k)) < 4)
  <2>1. h[1] < h[2] /\ h[2] < h[3] /\ h[3] < h[4]
    BY <1>0, <1>2 DEF IsHandprint, Ascending
  <2>2. {h[1], h[2], h[3], h[4]} \in SUBSET Below(k)
    <3>1. \A a \in 1..4 : h[a] \in Below(k)
      BY <1>0, <1>2 DEF IsHandprint
    <3>2. QED
      BY <3>1
  <2>3. /\ h[1] \in Nat /\ h[2] \in Nat /\ h[3] \in Nat /\ h[4] \in Nat
        /\ 1 \in 1..4 /\ 2 \in 1..4
    BY <1>0
  <2>4. Cardinality({h[1], h[2], h[3], h[4]}) = 4
    BY <2>1, <2>3, FourElements, Zenon
  <2>5. QED
    BY <1>1, <2>2, <2>4, FS_Subset
<1>3. ASSUME NEW a \in 1..4, h[a] # MaxKey PROVE h[a] \in K /\ Cardinality(Below(h[a])) < 4
  <2>1. h[a] \in K
    BY <1>3 DEF IsHandprint
  <2>2. ASSUME NEW l \in Below(h[a]) PROVE l \in {h[1], h[2], h[3]}
    <3>1. PICK b \in 1..4 : h[b] = l
      <4>1. l \in K /\ ~(h[a] < l)
        BY <1>0, <2>2
      <4>2. QED
        BY <4>1 DEF IsHandprint
    <3>2. h[b] < h[a]
      BY <3>1
    <3>3. b # 4
      BY <1>0, <1>3, <3>2 DEF IsHandprint, Ascending
    <3>4. QED
      BY <3>1, <3>3
  <2>3. Below(h[a]) \subseteq {h[1], h[2], h[3]}
    BY <2>2, Zenon
  <2>4. Cardinality(Below(h[a])) <= 3
    BY <2>3, FewElements, Zenon
  <2>5. Cardinality(Below(h[a])) \in Nat
    BY <2>1, <1>1
  <2> HIDE DEF Below
  <2>6. QED
    BY <2>1, <2>4, <2>5
<1>4. \A k \in K : Cardinality(Below(k)) < numFingers <=> k \in Real(h)
  BY <1>0, <1>2, <1>3 DEF IsHandprint, Real, numFingers
<1>5. Real(h) \subseteq K
  BY DEF Real, IsHandprint
<1>6. QED
  BY <1>4, <1>5 DEF Smallest

(***************************************************************************)
(* Where the padding begins, which is after as many places as the file has *)
(* smallest keys.                                                          *)
(***************************************************************************)
PadsFrom(h, q) == \A a \in 1..4 : h[a] = MaxKey <=> a >= q

LEMMA RealCount ==
  ASSUME NEW h \in Prints, Ascending(h)
  PROVE  \E q \in 1..5 : PadsFrom(h, q) /\ Cardinality(Real(h)) = q - 1
<1>0. /\ \A a \in 1..4 : h[a] \in Nat /\ h[a] <= MaxKey
      /\ MaxKey \in Nat
  BY TicketsAssumption DEF Prints, Keys
<1>1. \A a, b \in 1..4 : a < b => h[a] < h[b] \/ h[b] = MaxKey
  BY DEF Ascending
<1>2. CASE h[1] = MaxKey
  <2>1. PadsFrom(h, 1)
    BY <1>0, <1>1, <1>2 DEF PadsFrom
  <2>2. Real(h) = {}
    BY <2>1 DEF PadsFrom, Real
  <2>3. QED
    BY <2>1, <2>2, FS_EmptySet
<1>3. CASE h[1] # MaxKey /\ h[2] = MaxKey
  <2>1. PadsFrom(h, 2)
    BY <1>0, <1>1, <1>3 DEF PadsFrom
  <2>2. Real(h) = {h[1]}
    BY <2>1 DEF PadsFrom, Real
  <2>3. Cardinality(Real(h)) = 1
    BY <2>2, FS_Singleton, Zenon
  <2>4. QED
    BY <2>1, <2>3
<1>4. CASE h[2] # MaxKey /\ h[3] = MaxKey
  <2>1. PadsFrom(h, 3)
    BY <1>0, <1>1, <1>4 DEF PadsFrom
  <2>2. Real(h) = {h[1], h[2]}
    BY <2>1 DEF PadsFrom, Real
  <2>3. h[1] < h[2] /\ h[1] \in Nat /\ h[2] \in Nat
    BY <1>0, <1>1, <1>4
  <2>4. Cardinality(Real(h)) = 2
    BY <2>2, <2>3, FewerElements
  <2>5. QED
    BY <2>1, <2>4
<1>5. CASE h[3] # MaxKey /\ h[4] = MaxKey
  <2>1. PadsFrom(h, 4)
    BY <1>0, <1>1, <1>5 DEF PadsFrom
  <2>2. Real(h) = {h[1], h[2], h[3]}
    BY <2>1 DEF PadsFrom, Real
  <2>3. h[1] < h[2] /\ h[2] < h[3] /\ h[1] \in Nat /\ h[2] \in Nat /\ h[3] \in Nat
    BY <1>0, <1>1, <1>5
  <2>4. Cardinality({h[1], h[2], h[3]}) = 3
    BY <2>3, FewerElements, Zenon
  <2>5. QED
    BY <2>1, <2>2, <2>4
<1>6. CASE h[4] # MaxKey
  <2>1. PadsFrom(h, 5)
    BY <1>0, <1>1, <1>6 DEF PadsFrom
  <2>2. Real(h) = {h[1], h[2], h[3], h[4]}
    BY <2>1 DEF PadsFrom, Real
  <2>3. /\ h[1] < h[2] /\ h[2] < h[3] /\ h[3] < h[4]
        /\ h[1] \in Nat /\ h[2] \in Nat /\ h[3] \in Nat /\ h[4] \in Nat
    BY <1>0, <1>1, <1>6
  <2>4. Cardinality({h[1], h[2], h[3], h[4]}) = 4
    BY <2>3, FourElements, Zenon
  <2>5. QED
    BY <2>1, <2>2, <2>4
<1>7. QED
  BY <1>2, <1>3, <1>4, <1>5, <1>6

(***************************************************************************)
(* What Matches counts: the keys that both have before i and j, and the    *)
(* padding that both have: of either as much as lies before i and j.       *)
(***************************************************************************)
Seen(h, i) == {h[a] : a \in 1..i-1}
Common(h, o, i, j) == (Seen(h, i) \cap Seen(o, j)) \ {MaxKey}

Passed(h, o, i, j) ==
  \A a, b \in 1..4 :
    /\ a < i /\ b >= j => h[a] < o[b] \/ o[b] = MaxKey
    /\ a >= i /\ b < j => o[b] < h[a] \/ h[a] = MaxKey

Over(i, q) == IF i > q THEN i - q ELSE 0

Counted(h, o, s, q, p) ==
  /\ s.n = Cardinality(Common(h, o, s.i, s.j)) + Over(s.i, q)
  /\ Over(s.i, q) = Over(s.j, p)

MatchState(h, o, s, k, q, p) ==
  /\ s \in [i : 1..5, j : 1..5, n : Nat]
  /\ s.i > 4 \/ s.j > 4 \/ s.i + s.j >= k + 2
  /\ Passed(h, o, s.i, s.j)
  /\ Counted(h, o, s, q, p)

LEMMA SeenGrows ==
  ASSUME NEW h \in Prints, NEW i \in 1..4
  PROVE  Seen(h, i + 1) = Seen(h, i) \cup {h[i]}
<1>1. \A a \in 1..i : a = i \/ a \in 1..i-1
  OBVIOUS
<1>2. i \in 1..i /\ (\A a \in 1..i-1 : a \in 1..i) /\ (i + 1) - 1 = i
  OBVIOUS
<1>3. QED
  BY <1>1, <1>2 DEF Seen

LEMMA CommonIsFinite ==
  ASSUME NEW h \in Prints, NEW o, NEW i \in 1..5, NEW j
  PROVE  IsFiniteSet(Common(h, o, i, j)) /\ Cardinality(Common(h, o, i, j)) \in Nat
<1>1. IsFiniteSet(0..MaxKey)
  BY TicketsAssumption, FS_Interval
<1>2. Common(h, o, i, j) \in SUBSET (0..MaxKey)
  BY DEF Common, Seen, Prints, Keys
<1>3. QED
  BY <1>1, <1>2, FS_Subset, FS_CardinalityType

LEMMA MatchStepCounts ==
  ASSUME NEW h \in Prints, NEW o \in Prints, Ascending(h), Ascending(o),
         NEW q \in 1..5, NEW p \in 1..5, PadsFrom(h, q), PadsFrom(o, p),
         NEW k \in 1..8, NEW s, MatchState(h, o, s, k - 1, q, p)
  PROVE  MatchState(h, o, MatchStep(h, o, s), k, q, p)
<1>0. /\ \A a \in 1..4 : h[a] \in Nat /\ h[a] <= MaxKey /\ o[a] \in Nat /\ o[a] <= MaxKey
      /\ MaxKey \in Nat
  BY TicketsAssumption DEF Prints, Keys
<1>1. CASE s.i > 4 \/ s.j > 4
  BY <1>1 DEF MatchState, MatchStep, numFingers
<1>2. ASSUME s.i <= 4, s.j <= 4 PROVE MatchState(h, o, MatchStep(h, o, s), k, q, p)
  <2>1. PICK i \in 1..4, j \in 1..4, n \in Nat : s = [i |-> i, j |-> j, n |-> n]
    BY <1>2 DEF MatchState
  <2>2. i + j >= k + 1 /\ Passed(h, o, i, j)
    BY <1>2, <2>1 DEF MatchState
  <2>3. n = Cardinality(Common(h, o, i, j)) + Over(i, q) /\ Over(i, q) = Over(j, p)
    BY <2>1 DEF MatchState, Counted
  <2>p. (h[i] = MaxKey <=> i >= q) /\ (o[j] = MaxKey <=> j >= p)
    BY DEF PadsFrom
  <2>4. Seen(h, i + 1) = Seen(h, i) \cup {h[i]} /\ Seen(o, j + 1) = Seen(o, j) \cup {o[j]}
    BY SeenGrows
  <2>5. h[i] # MaxKey => h[i] \notin Seen(o, j)
    BY <1>0, <2>2 DEF Passed, Seen
  <2>6. o[j] # MaxKey => o[j] \notin Seen(h, i)
    BY <1>0, <2>2 DEF Passed, Seen
  <2>7. CASE h[i] < o[j]
    <3>1. MatchStep(h, o, s) = [i |-> i + 1, j |-> j, n |-> n]
      BY <1>0, <2>1, <2>7 DEF MatchStep, numFingers
    <3>2. Common(h, o, i + 1, j) = Common(h, o, i, j)
      BY <1>0, <2>4, <2>5, <2>7 DEF Common
    <3>3. Passed(h, o, i + 1, j)
      BY <1>0, <2>2, <2>7 DEF Passed, Ascending
    <3>4. Counted(h, o, [i |-> i + 1, j |-> j, n |-> n], q, p)
      BY <1>0, <2>3, <2>p, <2>7, <3>2 DEF Counted, Over
    <3>5. QED
      BY <2>2, <3>1, <3>3, <3>4 DEF MatchState
  <2>8. CASE o[j] < h[i]
    <3>1. MatchStep(h, o, s) = [i |-> i, j |-> j + 1, n |-> n]
      BY <1>0, <2>1, <2>8 DEF MatchStep, numFingers
    <3>2. Common(h, o, i, j + 1) = Common(h, o, i, j)
      BY <1>0, <2>4, <2>6, <2>8 DEF Common
    <3>3. Passed(h, o, i, j + 1)
      BY <1>0, <2>2, <2>8 DEF Passed, Ascending
    <3>4. Counted(h, o, [i |-> i, j |-> j + 1, n |-> n], q, p)
      BY <1>0, <2>3, <2>p, <2>8, <3>2 DEF Counted, Over
    <3>5. QED
      BY <2>2, <3>1, <3>3, <3>4 DEF MatchState
  <2>9. CASE h[i] = o[j]
    <3>1. MatchStep(h, o, s) = [i |-> i + 1, j |-> j + 1, n |-> n + 1]
      BY <1>0, <2>1, <2>9 DEF MatchStep, numFingers
    <3>2. Passed(h, o, i + 1, j + 1)
      BY <1>0, <2>2, <2>9 DEF Passed, Ascending
    <3>3. Counted(h, o, [i |-> i + 1, j |-> j + 1, n |-> n + 1], q, p)
      <4>1. CASE h[i] = MaxKey
        <5>1. Common(h, o, i + 1, j + 1) = Common(h, o, i, j)
          BY <2>4, <2>9, <4>1 DEF Common
        <5>2. Over(i + 1, q) = Over(i, q) + 1 /\ Over(j + 1, p) = Over(j, p) + 1
          BY <2>9, <2>p, <4>1 DEF Over
        <5>3. Cardinality(Common(h, o, i, j)) \in Nat /\ Over(i, q) \in Nat
          BY CommonIsFinite DEF Over
        <5>4. QED
          BY <2>3, <5>1, <5>2, <5>3 DEF Counted
      <4>2. CASE h[i] # MaxKey
        <5>1. Common(h, o, i + 1, j + 1) = Common(h, o, i, j) \cup {h[i]}
          BY <2>4, <2>9, <4>2 DEF Common
        <5>2. h[i] \notin Common(h, o, i, j)
          BY <2>5, <4>2 DEF Common
        <5>3. IsFiniteSet(Common(h, o, i, j)) /\ Cardinality(Common(h, o, i, j)) \in Nat
          BY CommonIsFinite
        <5>4. Cardinality(Common(h, o, i + 1, j + 1)) = Cardinality(Common(h, o, i, j)) + 1
          BY <5>1, <5>2, <5>3, FS_AddElement
        <5>5. /\ Over(i, q) = 0 /\ Over(i + 1, q) = 0
              /\ Over(j, p) = 0 /\ Over(j + 1, p) = 0
          BY <2>9, <2>p, <4>2 DEF Over
        <5>6. QED
          BY <2>3, <5>3, <5>4, <5>5 DEF Counted
      <4>3. QED
        BY <4>1, <4>2
    <3>4. QED
      BY <2>2, <3>1, <3>2, <3>3 DEF MatchState
  <2>10. QED
    BY <1>0, <2>7, <2>8, <2>9
<1>3. QED
  BY <1>1, <1>2 DEF MatchState

LEMMA AllSeen ==
  ASSUME NEW h \in Prints, NEW o \in Prints, NEW i \in 1..5, NEW j \in 1..5,
         Passed(h, o, i, j), i > 4 \/ j > 4
  PROVE  Common(h, o, i, j) = Real(h) \cap Real(o)
<1>0. /\ \A a \in 1..4 : h[a] \in Nat /\ h[a] <= MaxKey /\ o[a] \in Nat /\ o[a] <= MaxKey
      /\ MaxKey \in Nat
  BY TicketsAssumption DEF Prints, Keys
<1>1. Common(h, o, i, j) \subseteq Real(h) \cap Real(o)
  BY DEF Common, Seen, Real
<1>2. ASSUME NEW a \in 1..4, NEW b \in 1..4, h[a] = o[b], h[a] # MaxKey
      PROVE  h[a] \in Seen(h, i) /\ h[a] \in Seen(o, j)
  <2>1. a < i /\ b < j
    BY <1>0, <1>2 DEF Passed
  <2>2. a \in 1..i-1 /\ b \in 1..j-1
    BY <2>1
  <2>3. QED
    BY <1>2, <2>2 DEF Seen
<1>3. Real(h) \cap Real(o) \subseteq Common(h, o, i, j)
  BY <1>2 DEF Common, Real
<1>4. QED
  BY <1>1, <1>3

LEMMA MatchesCounts ==
  ASSUME NEW h \in Prints, NEW o \in Prints, Ascending(h), Ascending(o),
         NEW q \in 1..5, NEW p \in 1..5, PadsFrom(h, q), PadsFrom(o, p)
  PROVE  /\ Cardinality(Real(h) \cap Real(o)) \in Nat
         /\ Matches(h, o, 3) <=> Cardinality(Real(h) \cap Real(o)) >= (IF q > p THEN q ELSE p) - 2
<1>1. PICK r : /\ r[0] = [i |-> 1, j |-> 1, n |-> 0]
               /\ \A k \in 1..8 : r[k] = MatchStep(h, o, r[k - 1])
               /\ Matches(h, o, 3) <=> r[8].n >= 3
  <2>1. h \in [1..4 -> Nat] /\ o \in [1..4 -> Nat]
    BY TicketsAssumption DEF Prints, Keys
  <2>2. QED
    BY <2>1, MatchRun
<1>2. MatchState(h, o, r[0], 0, q, p)
  <2>1. Common(h, o, 1, 1) = {}
    BY DEF Common, Seen
  <2>2. Cardinality(Common(h, o, 1, 1)) = 0
    BY <2>1, FS_EmptySet
  <2>3. Counted(h, o, [i |-> 1, j |-> 1, n |-> 0], q, p)
    BY <2>2 DEF Counted, Over
  <2>4. Passed(h, o, 1, 1)
    BY DEF Passed
  <2>5. QED
    BY <1>1, <2>3, <2>4 DEF MatchState
<1>3. \A k \in 1..8 : MatchState(h, o, r[k - 1], k - 1, q, p) => MatchState(h, o, r[k], k, q, p)
  BY <1>1, MatchStepCounts
<1>4. MatchState(h, o, r[1], 1, q, p)
  BY <1>2, <1>3
<1>5. MatchState(h, o, r[2], 2, q, p)
  BY <1>3, <1>4
<1>6. MatchState(h, o, r[3], 3, q, p)
  BY <1>3, <1>5
<1>7. MatchState(h, o, r[4], 4, q, p)
  BY <1>3, <1>6
<1>8. MatchState(h, o, r[5], 5, q, p)
  BY <1>3, <1>7
<1>9. MatchState(h, o, r[6], 6, q, p)
  BY <1>3, <1>8
<1>10. MatchState(h, o, r[7], 7, q, p)
  BY <1>3, <1>9
<1>11. MatchState(h, o, r[8], 8, q, p)
  BY <1>3, <1>10
<1>12. PICK i \in 1..5, j \in 1..5, n \in Nat : r[8] = [i |-> i, j |-> j, n |-> n]
  BY <1>11 DEF MatchState
<1>13. Passed(h, o, i, j) /\ (i > 4 \/ j > 4)
  BY <1>11, <1>12 DEF MatchState
<1>14. Common(h, o, i, j) = Real(h) \cap Real(o)
  BY <1>13, AllSeen
<1>15. Cardinality(Real(h) \cap Real(o)) \in Nat
  BY <1>14, CommonIsFinite
<1>16. n = Cardinality(Real(h) \cap Real(o)) + Over(i, q) /\ Over(i, q) = Over(j, p)
  <2>1. r[8].i = i /\ r[8].j = j /\ r[8].n = n
    BY <1>12
  <2>2. Counted(h, o, r[8], q, p)
    BY <1>11 DEF MatchState
  <2>3. QED
    BY <1>14, <2>1, <2>2 DEF Counted
<1>17. Matches(h, o, 3) <=> n >= 3
  BY <1>1, <1>12
<1>18. Over(i, q) = 5 - (IF q > p THEN q ELSE p)
  BY <1>13, <1>16 DEF Over
<1>19. QED
  BY <1>15, <1>16, <1>17, <1>18

SmallInCommon(f, g) == Cardinality(Smallest(ToSet(f)) \cap Smallest(ToSet(g)))
HowMany(f) == Cardinality(Smallest(ToSet(f)))
More(f, g) == IF HowMany(f) > HowMany(g) THEN HowMany(f) ELSE HowMany(g)

LEMMA ResembleCounts ==
  ASSUME NEW f \in Files, NEW g \in Files
  PROVE  /\ SmallInCommon(f, g) \in Nat /\ HowMany(f) \in Nat /\ HowMany(g) \in Nat
         /\ Resemble[<<f, g>>] <=> SmallInCommon(f, g) >= More(f, g) - 1
<1> DEFINE h == Handprint(f)
           o == Handprint(g)
<1>1. ASSUME NEW e \in Files
      PROVE  /\ ToSet(e) \in SUBSET (0..MaxKey - 1) /\ IsFiniteSet(ToSet(e))
             /\ IsHandprint(Handprint(e), ToSet(e))
  <2>1. PICK A : A = 0..MaxKey - 1 /\ IsFiniteSet(A)
    BY TicketsAssumption, FS_Interval
  <2>2. e \in Seq(A)
    BY <2>1, TicketsAssumption
  <2>3. ToSet(e) \in SUBSET A
    BY <2>2 DEF ToSet
  <2>4. IsFiniteSet(ToSet(e))
    BY <2>1, <2>3, FS_Subset
  <2>5. IsHandprint(Handprint(e), ToSet(e))
    BY <2>1, <2>2, HandprintIsOne
  <2>6. QED
    BY <2>1, <2>3, <2>4, <2>5
<1>2. Resemble[<<f, g>>] <=> Matches(h, o, 3)
  BY DEF Resemble, numFingers
<1>3. Smallest(ToSet(f)) = Real(h) /\ Smallest(ToSet(g)) = Real(o)
  BY <1>1, RealIsSmallest
<1>4. h \in Prints /\ o \in Prints /\ Ascending(h) /\ Ascending(o)
  BY <1>1 DEF IsHandprint
<1> HIDE DEF h, o
<1>5. PICK q \in 1..5 : PadsFrom(h, q) /\ Cardinality(Real(h)) = q - 1
  BY <1>4, RealCount
<1>6. PICK p \in 1..5 : PadsFrom(o, p) /\ Cardinality(Real(o)) = p - 1
  BY <1>4, RealCount
<1>7. /\ Cardinality(Real(h) \cap Real(o)) \in Nat
      /\ Matches(h, o, 3) <=> Cardinality(Real(h) \cap Real(o)) >= (IF q > p THEN q ELSE p) - 2
  BY <1>4, <1>5, <1>6, MatchesCounts
<1>8. HowMany(f) = q - 1 /\ HowMany(g) = p - 1 /\ SmallInCommon(f, g) = Cardinality(Real(h) \cap Real(o))
  BY <1>3, <1>5, <1>6 DEF HowMany, SmallInCommon
<1>9. QED
  BY <1>2, <1>7, <1>8 DEF More

(***************************************************************************)
(* The greater of two numbers, as Max of the community modules has it.     *)
(***************************************************************************)
LEMMA MoreIsMax ==
  ASSUME NEW b \in Buys, NEW c \in Buys, HowMany(file[b]) \in Nat, HowMany(file[c]) \in Nat
  PROVE  AllButOne(b, c) = More(file[b], file[c]) - 1
<1> DEFINE x == HowMany(file[b])
           y == HowMany(file[c])
<1>1. AllButOne(b, c) = Max({x, y}) - 1
  BY DEF AllButOne, Chunks, HowMany
<1>2. Max({x, y}) = IF x > y THEN x ELSE y
  BY DEF Max
<1>3. QED
  BY <1>1, <1>2 DEF More

-----------------------------------------------------------------------------
(***************************************************************************)
(* Who gets a ticket.  No registered node fits a ticket in the pool, and a *)
(* ticket that was granted resembles, unless its source has another buy.   *)
(***************************************************************************)
NothingFits ==
  \A t \in tickets, n \in Nodes :
    Registered(n) => ~Fits(n, nodes[n].buy, nodes[n].interested, t, edges)

Shared(c) == \E d \in Buys \ {c} : node[d] = node[c]

GrantedFit ==
  \A b \in Buys : \A t \in granted[b] :
    t[1] \in Buys /\ (Shared(t[1]) \/ Resemble[<<file[t[1]], file[b]>>])

FitInv ==
  /\ Inv
  /\ file \in [Buys -> Files]
  /\ granted \in [Buys -> SUBSET (Buys \X Nat)]
  /\ NothingFits /\ GrantedFit

LEMMA InitFit == Init => FitInv
  BY InitInv DEF Init, FitInv, NothingFits, GrantedFit

LEMMA FitInvIsEnough == FitInv => NoMatchMissed /\ TicketsFit
<1> SUFFICES ASSUME FitInv PROVE NoMatchMissed /\ TicketsFit
  OBVIOUS
<1>1. NoMatchMissed
  <2> SUFFICES ASSUME NEW t \in tickets, NEW n \in Nodes \ {t.source}, Registered(n),
                      nodes[n].interested, <<t.source, n>> \notin edges
               PROVE  InCommon(t.like, nodes[n].buy) < AllButOne(t.like, nodes[n].buy)
    BY DEF NoMatchMissed
  <2>1. t.like \in Buys /\ nodes[n].buy \in Buys
    BY DEF FitInv, Inv, StoreShape, AnyTicket, NodesKnown
  <2>2. file[t.like] \in Files /\ file[nodes[n].buy] \in Files
    BY <2>1 DEF FitInv
  <2>3. ~Resemble[<<file[t.like], file[nodes[n].buy]>>]
    BY DEF FitInv, NothingFits, Fits
  <2> DEFINE f == file[t.like]
             g == file[nodes[n].buy]
  <2>4. /\ SmallInCommon(f, g) \in Nat /\ HowMany(f) \in Nat /\ HowMany(g) \in Nat
        /\ ~(SmallInCommon(f, g) >= More(f, g) - 1)
    BY <2>2, <2>3, ResembleCounts
  <2>5. AllButOne(t.like, nodes[n].buy) = More(f, g) - 1
    BY <2>1, <2>4, MoreIsMax
  <2>6. InCommon(t.like, nodes[n].buy) = SmallInCommon(f, g)
    BY DEF InCommon, SmallInCommon, Chunks
  <2> HIDE DEF f, g
  <2>7. QED
    BY <2>4, <2>5, <2>6 DEF More
<1>2. TicketsFit
  <2> SUFFICES ASSUME NEW b \in Buys, NEW t \in granted[b], ~Shared(t[1])
               PROVE  InCommon(b, t[1]) >= AllButOne(b, t[1])
    BY DEF TicketsFit, Shared
  <2>1. t[1] \in Buys /\ Resemble[<<file[t[1]], file[b]>>]
    BY DEF FitInv, GrantedFit
  <2>2. file[t[1]] \in Files /\ file[b] \in Files
    BY <2>1 DEF FitInv
  <2>3. InCommon(b, t[1]) = SmallInCommon(file[t[1]], file[b])
    BY DEF InCommon, SmallInCommon, Chunks
  <2>4. /\ HowMany(file[t[1]]) \in Nat /\ HowMany(file[b]) \in Nat
        /\ SmallInCommon(file[t[1]], file[b]) >= More(file[t[1]], file[b]) - 1
    BY <2>1, <2>2, ResembleCounts
  <2>5. AllButOne(b, t[1]) = More(file[b], file[t[1]]) - 1
    BY <2>1, <2>4, MoreIsMax
  <2>6. More(file[b], file[t[1]]) = More(file[t[1]], file[b])
    BY <2>4 DEF More
  <2>7. QED
    BY <2>3, <2>4, <2>5, <2>6
<1>3. QED
  BY <1>1, <1>2

LEMMA OwnedShares ==
  ASSUME NEW t, Owned(t), t.ticket[1] \in Buys, t.like \in Buys, NEW b \in Buys,
         Resemble[<<file[t.like], file[b]>>]
  PROVE  Shared(t.ticket[1]) \/ Resemble[<<file[t.ticket[1]], file[b]>>]
  BY DEF Owned, FromBuy, Shared

LEMMA InitNodeFit == ASSUME FitInv, NEW b \in Buys, InitNode(b) PROVE FitInv'
<1> DEFINE n == node[b]
           rest == Without(n)
           fitting == {t \in rest.tickets : Fits(n, b, TRUE, t, rest.edges)}
           sources == {t.source : t \in fitting}
<1>1. n \in Nodes
  BY DEF FitInv, Inv, StoreShape
<1>2. PICK choice \in [sources -> fitting] :
        LET taken == {choice[s] : s \in sources} IN
        /\ \A s \in sources : choice[s].source = s
        /\ tickets' = rest.tickets \ taken
        /\ granted' = [granted EXCEPT ![b] = @ \cup {t.ticket : t \in taken}]
  BY DEF InitNode
<1>3. /\ edges' = rest.edges \cup {<<s, n>> : s \in sources}
      /\ nodes' = [nodes EXCEPT ![n] = [buy |-> b, interested |-> TRUE]]
      /\ UNCHANGED <<node, file>>
  BY DEF InitNode
<1>4. /\ \A t \in rest.tickets : t \in tickets /\ t.source # n
      /\ \A e \in edges : e[1] # n /\ e[2] # n => e \in rest.edges
  BY <1>1 DEF FitInv, Inv, StoreShape, Without
<1>5. \A t \in fitting : t \in rest.tickets /\ Fits(n, b, TRUE, t, rest.edges)
  OBVIOUS
<1>6. \A t \in rest.tickets : Fits(n, b, TRUE, t, rest.edges) => t.source \in sources
  OBVIOUS
<1> HIDE DEF n, rest, fitting, sources
<1>7. /\ nodes'[n] = [buy |-> b, interested |-> TRUE]
      /\ \A m \in Nodes \ {n} : nodes'[m] = nodes[m]
  BY <1>1, <1>3 DEF FitInv, Inv, StoreShape
<1>8. NothingFits'
  <2> SUFFICES ASSUME NEW t \in tickets', NEW m \in Nodes, nodes'[m] # Absent',
                      Fits(m, nodes[m].buy, nodes[m].interested, t, edges)'
               PROVE  FALSE
    BY DEF NothingFits, Registered
  <2>1. t \in rest.tickets /\ t \in tickets /\ t.source # n
    BY <1>2, <1>4
  <2>2. CASE m = n
    <3>1. Fits(n, b, TRUE, t, rest.edges) /\ <<t.source, n>> \notin edges'
      BY <1>3, <1>7, <2>2 DEF Fits
    <3>2. QED
      BY <1>3, <1>6, <2>1, <3>1
  <2>3. CASE m # n
    <3>1. <<t.source, m>> \notin edges
      BY <1>3, <1>4, <2>1, <2>3 DEF Fits
    <3>2. Fits(m, nodes[m].buy, nodes[m].interested, t, edges)
      BY <1>3, <1>7, <2>3, <3>1 DEF Fits
    <3>3. QED
      BY <1>7, <2>1, <2>3, <3>2 DEF FitInv, NothingFits, Registered, Absent
  <2>4. QED
    BY <2>2, <2>3
<1>9. ASSUME NEW t \in fitting
      PROVE  /\ t.ticket \in Buys \X Nat
             /\ Shared(t.ticket[1]) \/ Resemble[<<file[t.ticket[1]], file[b]>>]
  <2>1. t \in tickets /\ Resemble[<<file[t.like], file[b]>>]
    BY <1>4, <1>5 DEF Fits
  <2>2. t \in AnyTicket /\ Owned(t)
    BY <2>1 DEF FitInv, Inv, StoreShape, TicketsOwned
  <2>3. t.ticket \in Buys \X Nat /\ t.ticket[1] \in Buys /\ t.like \in Buys
    BY <2>2 DEF AnyTicket
  <2>4. QED
    BY <2>1, <2>2, <2>3, OwnedShares
<1> DEFINE new == {t.ticket : t \in {choice[s] : s \in sources}}
<1>10. /\ granted' = [granted EXCEPT ![b] = @ \cup new]
       /\ \A u \in new : /\ u \in Buys \X Nat
                         /\ Shared(u[1]) \/ Resemble[<<file[u[1]], file[b]>>]
  <2>1. granted' = [granted EXCEPT ![b] = @ \cup new]
    BY <1>2
  <2>2. ASSUME NEW u \in new
        PROVE  u \in Buys \X Nat /\ (Shared(u[1]) \/ Resemble[<<file[u[1]], file[b]>>])
    <3>1. PICK s \in sources : u = choice[s].ticket
      OBVIOUS
    <3>2. choice[s] \in fitting
      BY <3>1
    <3>3. QED
      BY <1>9, <3>1, <3>2
  <2>3. QED
    BY <2>1, <2>2
<1> HIDE DEF new
<1>11. granted' \in [Buys -> SUBSET (Buys \X Nat)]
  BY <1>10 DEF FitInv
<1>12. GrantedFit'
  <2>1. ASSUME NEW c \in Buys, NEW u \in granted'[c]
        PROVE  u[1] \in Buys /\ (Shared(u[1]) \/ Resemble[<<file[u[1]], file[c]>>])
    BY <1>10 DEF FitInv, GrantedFit
  <2>2. QED
    BY <1>3, <2>1 DEF GrantedFit, Shared
<1>13. Inv'
  BY InitNodeInv DEF FitInv
<1>14. QED
  BY <1>3, <1>8, <1>11, <1>12, <1>13 DEF FitInv

LEMMA NewTicketFit == ASSUME FitInv, NEW b \in Buys, NewTicket(b) PROVE FitInv'
<1>1. PICK n \in Nodes : n = node[b]
  BY DEF FitInv, Inv, StoreShape
<1> DEFINE t == [ticket |-> <<b, handed[b] + 1>>, source |-> n, like |-> nodes[n].buy]
<1>2. UNCHANGED <<node, file, nodes>>
  BY DEF NewTicket
<1>3. \/ UNCHANGED <<tickets, edges, granted>>
      \/ /\ tickets' = tickets \cup {t} /\ UNCHANGED <<edges, granted>>
         /\ \A m \in Nodes : Registered(m) => ~Fits(m, nodes[m].buy, nodes[m].interested, t, edges)
      \/ /\ Registered(n) /\ UNCHANGED tickets
         /\ \E m \in Nodes :
              /\ Registered(m) /\ Fits(m, nodes[m].buy, nodes[m].interested, t, edges)
              /\ edges' = edges \cup {<<n, m>>}
              /\ granted' = [granted EXCEPT ![nodes[m].buy] = @ \cup {t.ticket}]
  BY <1>1 DEF NewTicket
<1>4. \A u, m : Fits(m, nodes[m].buy, nodes[m].interested, u, edges)'
                  => Fits(m, nodes[m].buy, nodes[m].interested, u, edges)
  BY <1>2, <1>3 DEF Fits
<1>5. NothingFits'
  BY <1>2, <1>3, <1>4 DEF FitInv, NothingFits, Registered
<1>6. granted' \in [Buys -> SUBSET (Buys \X Nat)] /\ GrantedFit'
  <2>1. CASE UNCHANGED granted
    BY <1>2, <2>1 DEF FitInv, GrantedFit, Shared
  <2>2. ASSUME NEW m \in Nodes, Registered(n), Registered(m),
               Fits(m, nodes[m].buy, nodes[m].interested, t, edges),
               granted' = [granted EXCEPT ![nodes[m].buy] = @ \cup {t.ticket}]
        PROVE  granted' \in [Buys -> SUBSET (Buys \X Nat)] /\ GrantedFit'
    <3>1. PICK c \in Buys : c = nodes[m].buy
      BY <2>2 DEF FitInv, Inv, NodesKnown
    <3>2. Resemble[<<file[nodes[n].buy], file[c]>>]
      BY <2>2, <3>1 DEF Fits
    <3>3. nodes[n].buy \in Buys /\ node[nodes[n].buy] = n
      BY <2>2 DEF FitInv, Inv, NodesKnown, FromBuy
    <3>4. Shared(b) \/ Resemble[<<file[b], file[c]>>]
      BY <1>1, <3>2, <3>3 DEF Shared
    <3>5. t.ticket \in Buys \X Nat /\ t.ticket[1] = b
      BY DEF FitInv, Inv, StoreShape
    <3> HIDE DEF t
    <3>6. granted' \in [Buys -> SUBSET (Buys \X Nat)]
      BY <2>2, <3>1, <3>5 DEF FitInv
    <3>7. ASSUME NEW d \in Buys, NEW u \in granted'[d]
          PROVE  u[1] \in Buys /\ (Shared(u[1]) \/ Resemble[<<file[u[1]], file[d]>>])
      BY <2>2, <3>1, <3>4, <3>5 DEF FitInv, GrantedFit
    <3>8. QED
      BY <1>2, <3>6, <3>7 DEF GrantedFit, Shared
  <2>3. QED
    BY <1>3, <2>1, <2>2
<1>7. Inv'
  BY NewTicketInv DEF FitInv
<1>8. QED
  BY <1>2, <1>5, <1>6, <1>7 DEF FitInv

LEMMA ExitNodeFit == ASSUME FitInv, NEW b \in Buys, ExitNode(b) PROVE FitInv'
<1>1. PICK n \in Nodes : n = node[b]
  BY DEF FitInv, Inv, StoreShape
<1> DEFINE rest == Without(n)
<1>2. /\ tickets' = rest.tickets /\ edges' = rest.edges
      /\ nodes' = [nodes EXCEPT ![n] = Absent]
      /\ UNCHANGED <<node, file, granted>>
  BY <1>1 DEF ExitNode
<1>3. /\ \A t \in rest.tickets : t \in tickets /\ t.source # n
      /\ \A e \in edges : e[1] # n /\ e[2] # n => e \in rest.edges
  BY <1>1 DEF FitInv, Inv, StoreShape, Without
<1> HIDE DEF rest
<1>4. nodes'[n] = Absent /\ \A m \in Nodes \ {n} : nodes'[m] = nodes[m]
  BY <1>2 DEF FitInv, Inv, StoreShape
<1>5. NothingFits'
  <2> SUFFICES ASSUME NEW t \in tickets', NEW m \in Nodes, nodes'[m] # Absent',
                      Fits(m, nodes[m].buy, nodes[m].interested, t, edges)'
               PROVE  FALSE
    BY DEF NothingFits, Registered
  <2>1. m # n /\ t \in tickets /\ t.source # n
    BY <1>2, <1>3, <1>4 DEF Absent
  <2>2. <<t.source, m>> \notin edges
    BY <1>2, <1>3, <2>1 DEF Fits
  <2>3. Fits(m, nodes[m].buy, nodes[m].interested, t, edges)
    BY <1>2, <1>4, <2>1, <2>2 DEF Fits
  <2>4. QED
    BY <1>4, <2>1, <2>3 DEF FitInv, NothingFits, Registered, Absent
<1>6. GrantedFit'
  BY <1>2 DEF FitInv, GrantedFit, Shared
<1>7. Inv'
  BY ExitNodeInv DEF FitInv
<1>8. QED
  BY <1>2, <1>5, <1>6, <1>7 DEF FitInv

LEMMA SetNodeInterestedFit == ASSUME FitInv, NEW b \in Buys, SetNodeInterested(b) PROVE FitInv'
<1>1. PICK n \in Nodes : n = node[b]
  BY DEF FitInv, Inv, StoreShape
<1>2. /\ UNCHANGED <<node, file, tickets, edges, granted>>
      /\ nodes' = nodes \/ (Registered(n) /\ nodes' = [nodes EXCEPT ![n].interested = FALSE])
  BY <1>1 DEF SetNodeInterested
<1>3. \A m \in Nodes : /\ nodes'[m].buy = nodes[m].buy
                       /\ nodes'[m].interested => nodes[m].interested
                       /\ nodes'[m] # nodes[m] => Registered(m)
  BY <1>2 DEF FitInv, Inv, StoreShape
<1>4. NothingFits'
  <2> SUFFICES ASSUME NEW t \in tickets, NEW m \in Nodes, nodes'[m] # Absent',
                      Fits(m, nodes[m].buy, nodes[m].interested, t, edges)'
               PROVE  FALSE
    BY <1>2 DEF NothingFits, Registered
  <2>1. Fits(m, nodes[m].buy, nodes[m].interested, t, edges)
    BY <1>2, <1>3 DEF Fits
  <2>2. Registered(m)
    BY <1>3 DEF Registered, Absent
  <2>3. QED
    BY <2>1, <2>2 DEF FitInv, NothingFits
<1>5. GrantedFit'
  BY <1>2 DEF FitInv, GrantedFit, Shared
<1>6. Inv'
  BY SetNodeInterestedInv DEF FitInv
<1>7. QED
  BY <1>2, <1>4, <1>5, <1>6 DEF FitInv

LEMMA QuietFit ==
  ASSUME FitInv, UNCHANGED <<node, file, nodes, tickets, edges, granted>>, Inv'
  PROVE  FitInv'
  BY DEF FitInv, NothingFits, GrantedFit, Shared, Registered, Absent, Fits

LEMMA FitInvHolds == Spec => []FitInv
<1>1. FitInv /\ [Next]_vars => FitInv'
  <2> SUFFICES ASSUME FitInv, [Next]_vars PROVE FitInv'
    OBVIOUS
  <2>1. CASE UNCHANGED vars
    <3>1. Inv'
      BY <2>1, StutterInv DEF FitInv
    <3>2. QED
      BY <2>1, <3>1, QuietFit DEF vars
  <2>2. CASE Next
    <3>1. PICK b \in Buys : \/ InitNode(b) \/ NewTicket(b) \/ Send(b)
                            \/ SetNodeInterested(b) \/ ExitNode(b)
      BY <2>2 DEF Next
    <3>2. ASSUME Send(b) PROVE FitInv'
      <4>1. Inv'
        BY <3>2, SendInv DEF FitInv
      <4>2. QED
        BY <3>2, <4>1, QuietFit DEF Send
    <3>3. QED
      BY <3>1, <3>2, InitNodeFit, NewTicketFit, SetNodeInterestedFit, ExitNodeFit
  <2>3. QED
    BY <2>1, <2>2
<1>2. QED
  BY InitFit, <1>1, PTL DEF Spec

(***************************************************************************)
(* No ticket is left in the pool that an interested node could use: the    *)
(* handprints tell apart exactly what shares all but one of the smallest   *)
(* keys of the work with more of them, whatever the works are.             *)
(***************************************************************************)
THEOREM MatchesAreNotMissed == Spec => []NoMatchMissed
  BY FitInvHolds, FitInvIsEnough, PTL

(***************************************************************************)
(* Tickets are sent to sellers only for works that share all but one of    *)
(* the smallest keys with theirs, which are none when each of the two works*)
(* has one key, unless another buy has the seller of the ticket.           *)
(***************************************************************************)
THEOREM TicketsAlwaysFit == Spec => []TicketsFit
  BY FitInvHolds, FitInvIsEnough, PTL
=============================================================================
