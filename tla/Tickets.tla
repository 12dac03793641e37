------------------------------ MODULE Tickets ------------------------------
(***************************************************************************)
(* The ticket store for assistive downloads (client/assist/assist.go) as   *)
(* the buys of a client use it (client/buy.go).  While a buy transmits its *)
(* work, its seller is a node that wants tickets of other sellers whose    *)
(* work resembles its own, and offers the tickets it has handed out.  Every*)
(* operation holds the lock of the store.                                  *)
(***************************************************************************)
EXTENDS Naturals, Sequences, FiniteSets, SequencesExt, FiniteSetsExt

CONSTANTS
  Buys,
  Nodes,     (* sellers: what mustGetSellerId returns                      *)
  NoBuy,
  Files,     (* work files, as the keys of their chunks in order           *)
  MaxKey,    (* the key 0xff...ff                                          *)
  NumTickets (* handed out per receiver: 2                                 *)

ASSUME TicketsAssumption ==
  /\ NoBuy \notin Buys
  /\ MaxKey \in Nat /\ NumTickets \in Nat
  /\ Files \subseteq Seq(0..MaxKey - 1)

VARIABLES
  node,     (* the seller of each buy                                      *)
  file,     (* the work of each buy                                        *)
  pc,       (* where each transmitWorkChunked is                           *)
  handed,   (* how many tickets NewTicket was called with                  *)
  sender,   (* buys whose goroutine will call SetNodeInterested            *)
  nodes,    (* ticketMan.nodes: by node, the buy that registered it        *)
  tickets,  (* ticketMan.tickets                                           *)
  edges,    (* ticketMan.edges                                             *)
  granted   (* tickets that were sent to the seller of each buy            *)

vars == <<node, file, pc, handed, sender, nodes, tickets, edges, granted>>

numFingers == 4

Absent == [buy |-> NoBuy, interested |-> FALSE]
-----------------------------------------------------------------------------
(* Mutant: the finger that lost its place is dropped.                      *)
InsertStepDropping(s, i) ==
  IF s.over \/ s.fingers[i] < s.finger THEN s
  ELSE [s EXCEPT !.over = TRUE, !.fingers[i] = s.finger]

(* Handprint.insert, one step of its loop: the finger takes the place of   *)
(* the first greater one, which goes on; an equal one ends the loop.       *)
InsertStep(s, i) ==
  IF s.over \/ s.fingers[i] < s.finger THEN s
  ELSE IF s.fingers[i] = s.finger THEN [s EXCEPT !.over = TRUE]
  ELSE [s EXCEPT !.finger = s.fingers[i], !.fingers[i] = s.finger]

Insert(fingers, finger) ==
  FoldLeft(InsertStep, [fingers |-> fingers, finger |-> finger, over |-> FALSE],
           [i \in 1..numFingers |-> i]).fingers

Handprint(f) == FoldLeft(Insert, [i \in 1..numFingers |-> MaxKey], f)

(* Handprint.Matches: both are ascending; as long as both have fingers left*)
(* the smaller one is passed over, or both when they are equal.            *)
MatchStep(h, o, s) ==
  IF s.i > numFingers \/ s.j > numFingers THEN s
  ELSE [i |-> IF h[s.i] <= o[s.j] THEN s.i + 1 ELSE s.i,
        j |-> IF h[s.i] >= o[s.j] THEN s.j + 1 ELSE s.j,
        n |-> IF h[s.i] = o[s.j] THEN s.n + 1 ELSE s.n]

Matches(h, o, n) ==
  LET Step(s, k) == MatchStep(h, o, s) IN
  FoldLeft(Step, [i |-> 1, j |-> 1, n |-> 0], [k \in 1..(2 * numFingers) |-> k]).n >= n

Resemble == [p \in Files \X Files |-> Matches(Handprint(p[1]), Handprint(p[2]), numFingers - 1)]
-----------------------------------------------------------------------------
TypeOK ==
  /\ node \in [Buys -> Nodes] /\ file \in [Buys -> Files]
  /\ pc \in [Buys -> {"new", "listing", "sending", "done"}]
  /\ handed \in [Buys -> 0..NumTickets]
  /\ sender \subseteq Buys
  /\ nodes \in [Nodes -> [buy : Buys \cup {NoBuy}, interested : BOOLEAN]]
  /\ tickets \subseteq [ticket : Buys \X (1..NumTickets), source : Nodes, like : Buys]
  /\ edges \subseteq Nodes \X Nodes
  /\ granted \in [Buys -> SUBSET (Buys \X (1..NumTickets))]

Init ==
  /\ node \in [Buys -> Nodes] /\ file \in [Buys -> Files]
  /\ pc = [b \in Buys |-> "new"]
  /\ handed = [b \in Buys |-> 0]
  /\ sender = {}
  /\ nodes = [n \in Nodes |-> Absent]
  /\ tickets = {} /\ edges = {}
  /\ granted = [b \in Buys |-> {}]

Running(b) == pc[b] \in {"listing", "sending"}
Registered(n) == nodes[n] # Absent

(* Mutant: whatever the works are.                                         *)
FitsAnything(n, b, interested, ticket, es) ==
  /\ n # ticket.source
  /\ interested
  /\ <<ticket.source, n>> \notin es

(* match, up to the decision, for a node that the buy b registered.        *)
Fits(n, b, interested, ticket, es) ==
  /\ n # ticket.source
  /\ interested
  /\ <<ticket.source, n>> \notin es
  /\ Resemble[<<file[ticket.like], file[b]>>]

(* Mutant: its unspent tickets stay.                                       *)
WithoutEdges(n) ==
  [tickets |-> tickets, edges |-> {e \in edges : n \notin {e[1], e[2]}}]

Without(n) ==
  [tickets |-> {t \in tickets : t.source # n},
   edges |-> {e \in edges : n \notin {e[1], e[2]}}]

(* The pool is gone through in any order: the node is granted one of the   *)
(* fitting tickets of each source.                                         *)
InitNode(b) ==
  LET n == node[b]
      rest == Without(n)
      fitting == {t \in rest.tickets : Fits(n, b, TRUE, t, rest.edges)}
      sources == {t.source : t \in fitting}
  IN  /\ pc[b] = "new"
      /\ \E choice \in [sources -> fitting] :
           LET taken == {choice[s] : s \in sources} IN
           /\ \A s \in sources : choice[s].source = s
           /\ tickets' = rest.tickets \ taken
           /\ granted' = [granted EXCEPT ![b] = @ \cup {t.ticket : t \in taken}]
      /\ edges' = rest.edges \cup {<<s, n>> : s \in sources}
      /\ nodes' = [nodes EXCEPT ![n] = [buy |-> b, interested |-> TRUE]]
      /\ pc' = [pc EXCEPT ![b] = "listing"]
      /\ UNCHANGED <<node, file, handed, sender>>

(* The next ticket of the receiver of b.  It is taken for a ticket for the *)
(* work of the buy that registered the node.                               *)
NewTicket(b) ==
  LET n == node[b]
      t == [ticket |-> <<b, handed[b] + 1>>, source |-> n, like |-> nodes[n].buy]
      takers == {m \in Nodes : Registered(m) /\ Fits(m, nodes[m].buy, nodes[m].interested, t, edges)}
  IN  /\ pc[b] = "listing" /\ handed[b] < NumTickets
      /\ handed' = [handed EXCEPT ![b] = @ + 1]
      /\ \/ ~Registered(n) /\ UNCHANGED <<tickets, edges, granted>>
         \/ /\ Registered(n) /\ takers = {}
            /\ tickets' = tickets \cup {t}
            /\ UNCHANGED <<edges, granted>>
         \/ /\ Registered(n)
            /\ \E m \in takers :
                 /\ edges' = edges \cup {<<n, m>>}
                 /\ granted' = [granted EXCEPT ![nodes[m].buy] = @ \cup {t.ticket}]
            /\ UNCHANGED tickets
      /\ UNCHANGED <<node, file, pc, sender, nodes>>

(* requestMissingChunks is over, whatever tickets there were; a goroutine  *)
(* sends the chunks.                                                       *)
Send(b) ==
  /\ pc[b] = "listing" /\ pc' = [pc EXCEPT ![b] = "sending"]
  /\ sender' = sender \cup {b}
  /\ UNCHANGED <<node, file, handed, nodes, tickets, edges, granted>>

(* By the goroutine, which may outlive the interaction with the seller;    *)
(* one that fails never calls it.                                          *)
SetNodeInterested(b) ==
  LET n == node[b] IN
  /\ b \in sender /\ sender' = sender \ {b}
  /\ nodes' = IF Registered(n) THEN [nodes EXCEPT ![n].interested = FALSE] ELSE nodes
  /\ UNCHANGED <<node, file, pc, handed, tickets, edges, granted>>

ExitNode(b) ==
  LET rest == Without(node[b]) IN
  /\ Running(b)
  /\ pc' = [pc EXCEPT ![b] = "done"]
  /\ nodes' = [nodes EXCEPT ![node[b]] = Absent]
  /\ tickets' = rest.tickets /\ edges' = rest.edges
  /\ UNCHANGED <<node, file, handed, sender, granted>>

Next ==
  \E b \in Buys :
    \/ InitNode(b) \/ NewTicket(b) \/ Send(b)
    \/ SetNodeInterested(b) \/ ExitNode(b)

Spec == Init /\ [][Next]_vars
-----------------------------------------------------------------------------
(* What must hold.                                                         *)

Chunks(b) == ToSet(file[b])

(* The numFingers smallest keys, and how many two files have in common.    *)
Smallest(keys) == {k \in keys : Cardinality({l \in keys : l < k}) < numFingers}
InCommon(b, c) == Cardinality(Smallest(Chunks(b)) \cap Smallest(Chunks(c)))

(* All but one of the smallest keys of the work that has more of them.     *)
AllButOne(b, c) ==
  Max({Cardinality(Smallest(Chunks(b))), Cardinality(Smallest(Chunks(c)))}) - 1

(* No ticket stays in the pool that an interested node could use: its work *)
(* shares all but one of the smallest keys with the work of the ticket, and*)
(* the two sellers are not connected yet.                                  *)
NoMatchMissed ==
  \A t \in tickets : \A n \in Nodes \ {t.source} :
    Registered(n) /\ nodes[n].interested
    => <<t.source, n>> \in edges \/ InCommon(t.like, nodes[n].buy) < AllButOne(t.like, nodes[n].buy)

(* The store knows nothing of buys that are over: a pooled ticket is for a *)
(* receiver that is still being sent work, a node was registered by a buy  *)
(* that still is, and connections are between registered nodes.            *)
StoreReflectsBuys ==
  /\ \A t \in tickets : Running(t.ticket[1]) /\ Running(t.like)
  /\ \A n \in Nodes : Registered(n) => Running(nodes[n].buy)
  /\ \A e \in edges : Registered(e[1]) /\ Registered(e[2])

(* A seller is sent tickets only for work that resembles its own, unless   *)
(* two buys have one seller: then a ticket counts as one for the work of   *)
(* the buy that came last.  The padding of two small works counts as       *)
(* common: two works of one chunk each, repeated, need not share it.       *)
TicketsFit ==
  \A b \in Buys : \A t \in granted[b] :
    LET c == t[1] IN
    \/ \E d \in Buys \ {c} : node[d] = node[c]
    \/ InCommon(b, c) >= AllButOne(b, c)
=============================================================================
