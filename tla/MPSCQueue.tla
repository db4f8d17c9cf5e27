------------------------------ MODULE MPSCQueue ------------------------------
(***************************************************************************)
(* The lock-free queue with many producers and one consumer that carries   *)
(* the packets of the world and map threads to the network thread          *)
(* (WorldSocket::_bufferQueue), the far spell callbacks of a map, and the  *)
(* messages of the metrics and of the script reloader: a linked list whose *)
(* first node, at _tail, is a dummy.                                       *)
(*                                                                         *)
(* An atomic access of memory another thread uses is one action.  A node   *)
(* that is deleted may be allocated again, at the same address.            *)
(***************************************************************************)
EXTENDS Integers, Sequences, FiniteSets

CONSTANTS Nodes,      \* addresses of nodes
          Items,      \* what the producers enqueue
          Producers,  \* the threads that call Enqueue
          Null,       \* the null pointer
          NoItem      \* nothing dequeued yet

ASSUME NullAssumption == Null \notin Nodes /\ NoItem \notin Items
ASSUME NodesAssumption == Nodes # {}
ASSUME ItemsAssumption == Items # {}

VARIABLES
  allocated,  \* the nodes that exist
  nxt,        \* Node::Next
  data,       \* Node::Data
  head,       \* _head: the node appended last
  tail,       \* _tail: the dummy
  ppc,        \* where each producer is in Enqueue
  node,       \* its local "node"
  prevHead,   \* its local "prevHead"
  cpc,        \* where the consumer is in Dequeue
  old,        \* its local "tail"
  new,        \* its local "next"
  result,     \* what it has dequeued last
  chain       \* history: the nodes from tail to head, in the order appended

producerVars == <<ppc, node, prevHead>>
consumerVars == <<cpc, old, new, result>>
vars == <<allocated, nxt, data, head, tail, ppc, node, prevHead,
          cpc, old, new, result, chain>>

TypeOK ==
  /\ allocated \subseteq Nodes
  /\ nxt \in [Nodes -> Nodes \cup {Null}]
  /\ data \in [Nodes -> Items \cup {NoItem}]
  /\ head \in Nodes /\ tail \in Nodes
  /\ ppc \in [Producers -> {"idle", "exchange", "link"}]
  /\ node \in [Producers -> Nodes \cup {Null}]
  /\ prevHead \in [Producers -> Nodes \cup {Null}]
  /\ \A p \in Producers : /\ ppc[p] # "idle" => node[p] \in Nodes
                          /\ ppc[p] = "link" => prevHead[p] \in Nodes
  /\ cpc \in {"idle", "take", "delete", "draining", "drainTake", "drainDelete", "destroyed"}
  /\ old \in Nodes \cup {Null}
  /\ new \in Nodes \cup {Null}
  /\ cpc \in {"take", "drainTake"} => old \in Nodes /\ new \in Nodes
  /\ result \in Items \cup {NoItem}
  /\ chain \in Seq(Nodes)

\* The constructor: the list is its dummy.
Init ==
  /\ \E n \in Nodes : /\ allocated = {n} /\ head = n /\ tail = n
                      /\ chain = <<n>>
  /\ nxt = [n \in Nodes |-> Null]
  /\ data = [n \in Nodes |-> NoItem]
  /\ ppc = [p \in Producers |-> "idle"]
  /\ node = [p \in Producers |-> Null]
  /\ prevHead = [p \in Producers |-> Null]
  /\ cpc = "idle" /\ old = Null /\ new = Null
  /\ result = NoItem

-----------------------------------------------------------------------------
(* Enqueue.                                                                *)

\* The destructor runs when no thread uses the queue any more.
InService == cpc \in {"idle", "take", "delete"}

NewNode(p, n, x) ==
  /\ InService
  /\ ppc[p] = "idle"
  /\ n \notin allocated
  /\ allocated' = allocated \cup {n}
  /\ data' = [data EXCEPT ![n] = x]
  /\ nxt' = [nxt EXCEPT ![n] = Null]
  /\ node' = [node EXCEPT ![p] = n]
  /\ ppc' = [ppc EXCEPT ![p] = "exchange"]
  /\ UNCHANGED <<head, tail, prevHead, consumerVars, chain>>

\* _head.exchange: from here on the item is in the queue.
Exchange(p) ==
  /\ ppc[p] = "exchange"
  /\ prevHead' = [prevHead EXCEPT ![p] = head]
  /\ head' = node[p]
  /\ chain' = Append(chain, node[p])
  /\ ppc' = [ppc EXCEPT ![p] = "link"]
  /\ UNCHANGED <<allocated, nxt, data, tail, node, consumerVars>>

\* Mutant: the node is linked behind the last one there is now.
Link_AtHead(p) ==
  /\ ppc[p] = "link"
  /\ nxt' = [nxt EXCEPT ![head] = node[p]]
  /\ ppc' = [ppc EXCEPT ![p] = "idle"]
  /\ node' = [node EXCEPT ![p] = Null]
  /\ prevHead' = [prevHead EXCEPT ![p] = Null]
  /\ UNCHANGED <<allocated, data, head, tail, consumerVars, chain>>

\* prevHead->Next.store: from here on the consumer can get at the item, if it
\* can get at those before it.
Link(p) ==
  /\ ppc[p] = "link"
  /\ nxt' = [nxt EXCEPT ![prevHead[p]] = node[p]]
  /\ ppc' = [ppc EXCEPT ![p] = "idle"]
  /\ node' = [node EXCEPT ![p] = Null]
  /\ prevHead' = [prevHead EXCEPT ![p] = Null]
  /\ UNCHANGED <<allocated, data, head, tail, consumerVars, chain>>

-----------------------------------------------------------------------------
(* Dequeue, by the consumer and, in a loop, by the destructor.             *)

\* Mutant: next is not tested for null.
LoadNext_Unchecked ==
  /\ cpc \in {"idle", "draining"}
  /\ old' = tail
  /\ new' = nxt[tail]
  /\ cpc' = IF cpc = "idle" THEN "take" ELSE "drainTake"
  /\ UNCHANGED <<allocated, nxt, data, head, tail, producerVars, result, chain>>

\* tail->Next.load.  (Dequeue returns false when it finds null there.)
LoadNext ==
  /\ cpc \in {"idle", "draining"}
  /\ nxt[tail] # Null
  /\ old' = tail
  /\ new' = nxt[tail]
  /\ cpc' = IF cpc = "idle" THEN "take" ELSE "drainTake"
  /\ UNCHANGED <<allocated, nxt, data, head, tail, producerVars, result, chain>>

\* Mutant: the data are taken from the dummy.
TakeData_OfTail ==
  /\ cpc \in {"take", "drainTake"}
  /\ result' = data[old]
  /\ tail' = new
  /\ chain' = Tail(chain)
  /\ cpc' = IF cpc = "take" THEN "delete" ELSE "drainDelete"
  /\ UNCHANGED <<allocated, nxt, data, head, producerVars, old, new>>

\* result = next->Data; the node next becomes the dummy.
TakeData ==
  /\ cpc \in {"take", "drainTake"}
  /\ result' = data[new]
  /\ tail' = new
  /\ chain' = Tail(chain)
  /\ cpc' = IF cpc = "take" THEN "delete" ELSE "drainDelete"
  /\ UNCHANGED <<allocated, nxt, data, head, producerVars, old, new>>

\* Mutant: the node the data came from is deleted, not the old dummy.
DeleteOld_Next ==
  /\ cpc \in {"delete", "drainDelete"}
  /\ allocated' = allocated \ {new}
  /\ old' = Null /\ new' = Null
  /\ cpc' = IF cpc = "delete" THEN "idle" ELSE "draining"
  /\ UNCHANGED <<nxt, data, head, tail, producerVars, result, chain>>

DeleteOld ==
  /\ cpc \in {"delete", "drainDelete"}
  /\ allocated' = allocated \ {old}
  /\ old' = Null /\ new' = Null
  /\ cpc' = IF cpc = "delete" THEN "idle" ELSE "draining"
  /\ UNCHANGED <<nxt, data, head, tail, producerVars, result, chain>>

\* ~MPSCQueue is called: its users are gone.
StartDestroy ==
  /\ cpc = "idle"
  /\ \A p \in Producers : ppc[p] = "idle"
  /\ cpc' = "draining"
  /\ UNCHANGED <<allocated, nxt, data, head, tail, producerVars, old, new, result, chain>>

\* Dequeue returns false, and the node at _head is deleted.
DeleteFront ==
  /\ cpc = "draining"
  /\ nxt[tail] = Null
  /\ allocated' = allocated \ {head}
  /\ cpc' = "destroyed"
  /\ UNCHANGED <<nxt, data, head, tail, producerVars, old, new, result, chain>>

-----------------------------------------------------------------------------
Consumer == LoadNext \/ TakeData \/ DeleteOld \/ DeleteFront

Producer(p) == Exchange(p) \/ Link(p)

Environment == \/ StartDestroy
               \/ \E p \in Producers, n \in Nodes, x \in Items : NewNode(p, n, x)

Destroyed == cpc = "destroyed" /\ UNCHANGED vars

Next == Consumer \/ (\E p \in Producers : Producer(p)) \/ Environment \/ Destroyed

\* The consumer keeps polling, and a thread inside Enqueue gets to its end.
Fairness == WF_vars(Consumer) /\ \A p \in Producers : WF_vars(Producer(p))

Spec == Init /\ [][Next]_vars /\ Fairness

-----------------------------------------------------------------------------
\* The items in the queue, in the order their producers exchanged _head.
Contents == [i \in 1 .. Len(chain) - 1 |-> data[chain[i + 1]]]

\* No thread uses a node that was deleted: neither the consumer nor a producer
\* that is about to link its node behind one the consumer is getting at.
NoUseAfterFree ==
  cpc # "destroyed" =>
    /\ tail \in allocated /\ head \in allocated
    /\ cpc \in {"take", "drainTake"} => {old, new} \subseteq allocated
    /\ \A p \in Producers :
         /\ ppc[p] = "exchange" => node[p] \in allocated
         /\ ppc[p] = "link" => {node[p], prevHead[p]} \subseteq allocated

\* The destructor leaves no node behind.
NoLeak == cpc = "destroyed" => allocated = {}

\* The queue is one: items are put at the exchange of _head and taken in that
\* order, each once, although the links are set later and in any order.
Fifo == INSTANCE FifoQueue WITH items <- Contents, taken <- result
ImplementsFifo == Fifo!FifoSpec

\* What is in the queue is dequeued in the end: no link is ever missing for
\* good.
Delivered == \A n \in Nodes : (\E i \in 2 .. Len(chain) : chain[i] = n) ~> tail = n
=============================================================================
