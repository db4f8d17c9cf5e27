--------------------------- MODULE MPSCQueue_proofs ---------------------------
(***************************************************************************)
(* For any number of producers, nodes and items: no thread uses a deleted  *)
(* node, the destructor leaves none behind, and MPSCQueue implements       *)
(* FifoQueue.                                                              *)
(*                                                                         *)
(* The invariant describes the list: chain goes from tail to head, without *)
(* repetition, over allocated nodes; a link in it is set, or its producer  *)
(* is about to set it; a node that is allocated is in chain, or still a    *)
(* producer's own, or the consumer's to delete.                            *)
(***************************************************************************)
EXTENDS MPSCQueue, SequenceTheorems, TLAPS

InChain(n) == \E i \in 1 .. Len(chain) : chain[i] = n

Ends == /\ Len(chain) >= 1
        /\ chain[1] = tail /\ chain[Len(chain)] = head
        /\ nxt[head] = Null

Distinct == \A i, j \in 1 .. Len(chain) : chain[i] = chain[j] => i = j

\* A link of the list is set, or some producer is about to set it.
Linked == \A i \in 1 .. Len(chain) - 1 :
            \/ nxt[chain[i]] = chain[i + 1]
            \/ nxt[chain[i]] = Null /\ \E p \in Producers : ppc[p] = "link" /\ prevHead[p] = chain[i]

\* A producer in "link" is about to set a link of the list that is missing.
Linking ==
  /\ \A p \in Producers : ppc[p] = "link" =>
       \E i \in 1 .. Len(chain) - 1 :
         prevHead[p] = chain[i] /\ node[p] = chain[i + 1] /\ nxt[chain[i]] = Null
  /\ \A p, q \in Producers :
       ppc[p] = "link" /\ ppc[q] = "link" /\ prevHead[p] = prevHead[q] => p = q

Deleting == cpc \in {"delete", "drainDelete"}

\* The node of a producer in "exchange" is its own.
Fresh ==
  /\ \A p \in Producers : ppc[p] = "exchange" =>
       /\ node[p] \in allocated /\ ~InChain(node[p])
       /\ nxt[node[p]] = Null /\ data[node[p]] \in Items
       /\ Deleting => node[p] # old
  /\ \A p, q \in Producers :
       ppc[p] = "exchange" /\ ppc[q] = "exchange" /\ node[p] = node[q] => p = q

Taking ==
  /\ cpc \in {"take", "drainTake"} => old = tail /\ new = nxt[tail] /\ new # Null
  /\ Deleting => old \in allocated /\ ~InChain(old)

\* When the destructor runs no producer is inside Enqueue.
Quiet == ~InService => \A p \in Producers : ppc[p] = "idle"

Live == cpc # "destroyed" => \A i \in 1 .. Len(chain) : chain[i] \in allocated

NoneLost ==
  \A n \in allocated :
    \/ InChain(n)
    \/ \E p \in Producers : ppc[p] = "exchange" /\ node[p] = n
    \/ Deleting /\ n = old

Filled == \A i \in 2 .. Len(chain) : data[chain[i]] \in Items

IInv == /\ TypeOK /\ Ends /\ Distinct /\ Linked /\ Linking /\ Fresh /\ Taking
        /\ Quiet /\ Live /\ NoneLost /\ Filled /\ NoLeak

-----------------------------------------------------------------------------
\* What Append does to a sequence of nodes.
LEMMA AppendNode ==
  ASSUME NEW S, NEW s \in Seq(S), NEW n \in S
  PROVE  /\ Append(s, n) \in Seq(S)
         /\ Len(Append(s, n)) = Len(s) + 1
         /\ \A i \in 1 .. Len(s) : Append(s, n)[i] = s[i]
         /\ Append(s, n)[Len(s) + 1] = n
  OBVIOUS

\* What Tail does to a sequence of nodes.
LEMMA TailOfNodes ==
  ASSUME NEW S, NEW s \in Seq(S), Len(s) >= 1
  PROVE  /\ Tail(s) \in Seq(S)
         /\ Len(Tail(s)) = Len(s) - 1
         /\ \A i \in 1 .. Len(s) - 1 : Tail(s)[i] = s[i + 1]
  OBVIOUS

LEMMA TailIs ==
  ASSUME NEW S, NEW s \in Seq(S), Len(s) >= 1
  PROVE  Tail(s) = [i \in 1 .. Len(s) - 1 |-> s[i + 1]]
<1>1. Tail(s) \in Seq(S) /\ Len(Tail(s)) = Len(s) - 1
  BY TailOfNodes
<1>2. Tail(s) = [i \in 1 .. Len(s) - 1 |-> Tail(s)[i]]
  BY <1>1, LenProperties
<1>3. \A i \in 1 .. Len(s) - 1 : Tail(s)[i] = s[i + 1]
  BY TailOfNodes
<1> QED
  BY <1>2, <1>3, Zenon

\* The elements of a sequence.
LEMMA ElementOf ==
  ASSUME NEW S, NEW s \in Seq(S), NEW i \in 1 .. Len(s)
  PROVE  s[i] \in S
  OBVIOUS

LEMMA LenNat ==
  ASSUME NEW S, NEW s \in Seq(S)
  PROVE  Len(s) \in Nat
  OBVIOUS

-----------------------------------------------------------------------------
LEMMA InitIInv == Init => IInv
<1> SUFFICES ASSUME Init PROVE IInv
  OBVIOUS
<1> PICK n \in Nodes : /\ allocated = {n} /\ head = n /\ tail = n
                       /\ chain = <<n>>
  BY DEF Init
<1>1. Len(chain) = 1 /\ chain[1] = n /\ chain \in Seq(Nodes)
  OBVIOUS
<1>2. TypeOK
  BY <1>1 DEF Init, TypeOK
<1>3. Ends /\ Distinct /\ Linked /\ Filled
  BY <1>1 DEF Init, Ends, Distinct, Linked, Filled
<1>4. Linking /\ Fresh /\ Taking /\ Quiet
  BY DEF Init, Linking, Fresh, Taking, Quiet, Deleting
<1>5. Live /\ NoneLost /\ NoLeak
  BY <1>1 DEF Init, Live, NoneLost, NoLeak, InChain
<1> QED
  BY <1>2, <1>3, <1>4, <1>5 DEF IInv

\* A node fresh from new is in nobody's hands.
LEMMA NewNodeIInv ==
  ASSUME IInv, NEW p \in Producers, NEW n \in Nodes, NEW x \in Items, NewNode(p, n, x)
  PROVE  IInv'
<1> USE DEF NewNode, consumerVars
<1>1. TypeOK'
  BY DEF IInv, TypeOK
<1>2. \A i \in 1 .. Len(chain) : chain[i] \in allocated /\ chain[i] # n
  BY DEF IInv, Live, InService
<1>3. Ends' /\ Distinct' /\ Filled'
  <2>1. head # n
    BY <1>2, LenNat DEF IInv, TypeOK, Ends
  <2> QED
    BY <1>2, <2>1, LenNat DEF IInv, TypeOK, Ends, Distinct, Filled
<1>4. Linked'
  BY <1>2, LenNat DEF IInv, TypeOK, Linked
<1>5. Linking'
  BY <1>2, LenNat DEF IInv, TypeOK, Linking
<1>6. Fresh'
  BY <1>2, NullAssumption DEF IInv, TypeOK, Fresh, Taking, InChain, Deleting
<1>7. Taking'
  BY <1>2, LenNat DEF IInv, TypeOK, Taking, InChain, Deleting, Ends
<1>8. Quiet' /\ Live' /\ NoLeak'
  BY DEF IInv, TypeOK, Quiet, Live, NoLeak, InService
<1>9. NoneLost'
  BY DEF IInv, TypeOK, NoneLost, InChain, Deleting
<1> QED
  BY <1>1, <1>3, <1>4, <1>5, <1>6, <1>7, <1>8, <1>9 DEF IInv

\* Facts about the list the other steps need.
LEMMA ChainFacts ==
  ASSUME IInv
  PROVE  /\ Len(chain) \in Nat /\ Len(chain) >= 1
         /\ \A i \in 1 .. Len(chain) : chain[i] \in Nodes
         /\ \A p \in Producers : ppc[p] = "link" => InService
         /\ \A p \in Producers : ppc[p] = "exchange" => InService
  BY LenNat, ElementOf DEF IInv, TypeOK, Ends, Quiet

\* The exchange appends the producer's node; its link is the one missing.
LEMMA ExchangeIInv ==
  ASSUME IInv, NEW p \in Producers, Exchange(p)
  PROVE  IInv'
<1> USE DEF Exchange, consumerVars
<1> DEFINE L == Len(chain)
<1>1. /\ L \in Nat /\ L >= 1 /\ \A i \in 1 .. L : chain[i] \in Nodes
      /\ InService
  BY ChainFacts
<1>2. node[p] \in Nodes /\ node[p] \in allocated /\ nxt[node[p]] = Null
      /\ data[node[p]] \in Items
      /\ \A i \in 1 .. L : chain[i] # node[p]
  BY DEF IInv, TypeOK, Fresh, InChain
<1>3. /\ chain' \in Seq(Nodes) /\ Len(chain') = L + 1
      /\ \A i \in 1 .. L : chain'[i] = chain[i]
      /\ chain'[L + 1] = node[p]
  BY <1>2, AppendNode DEF IInv, TypeOK
<1>4. TypeOK'
  BY <1>2, <1>3 DEF IInv, TypeOK
<1>5. Ends' /\ Distinct' /\ Filled'
  BY <1>1, <1>2, <1>3 DEF IInv, Ends, Distinct, Filled
<1>6. Linked'
  <2> SUFFICES ASSUME NEW i \in 1 .. L
      PROVE  \/ nxt'[chain'[i]] = chain'[i + 1]
             \/ /\ nxt'[chain'[i]] = Null
                /\ \E q \in Producers : ppc'[q] = "link" /\ prevHead'[q] = chain'[i]
    BY <1>1, <1>3 DEF Linked
  <2>1. CASE i = L
    <3>1. chain'[i] = head /\ nxt[head] = Null
      BY <1>1, <1>3, <2>1 DEF IInv, Ends
    <3>2. ppc'[p] = "link" /\ prevHead'[p] = head
      BY DEF IInv, TypeOK
    <3> QED
      BY <3>1, <3>2
  <2>2. CASE i # L
    <3>1. i \in 1 .. L - 1 /\ chain'[i] = chain[i] /\ chain'[i + 1] = chain[i + 1]
      BY <1>1, <1>3, <2>2
    <3>2. \A q \in Producers : ppc[q] = "link" => q # p /\ ppc'[q] = "link" /\ prevHead'[q] = prevHead[q]
      BY DEF IInv, TypeOK
    <3> QED
      BY <3>1, <3>2 DEF IInv, Linked
  <2> QED
    BY <2>1, <2>2
<1>7. Linking'
  <2>1. \A q \in Producers : ppc'[q] = "link" /\ q # p =>
          ppc[q] = "link" /\ prevHead'[q] = prevHead[q] /\ node'[q] = node[q]
    BY DEF IInv, TypeOK
  <2>2. prevHead'[p] = head /\ node'[p] = node[p]
    BY DEF IInv, TypeOK
  <2>3. chain'[L] = head /\ nxt[head] = Null /\ L \in 1 .. Len(chain') - 1
    BY <1>1, <1>3 DEF IInv, Ends
  <2>4. \A q \in Producers : ppc'[q] = "link" /\ q # p =>
          \E i \in 1 .. L - 1 :
            prevHead'[q] = chain'[i] /\ node'[q] = chain'[i + 1] /\ nxt'[chain'[i]] = Null
    <3> SUFFICES ASSUME NEW q \in Producers, ppc'[q] = "link", q # p
                 PROVE  \E i \in 1 .. L - 1 :
                          prevHead'[q] = chain'[i] /\ node'[q] = chain'[i + 1] /\ nxt'[chain'[i]] = Null
      OBVIOUS
    <3> PICK i \in 1 .. L - 1 :
          prevHead[q] = chain[i] /\ node[q] = chain[i + 1] /\ nxt[chain[i]] = Null
      BY <2>1 DEF IInv, Linking
    <3> WITNESS i \in 1 .. L - 1
    <3> QED
      BY <1>1, <1>3, <2>1
  <2>5. \A q \in Producers : ppc'[q] = "link" /\ q # p => prevHead'[q] # head
    <3> SUFFICES ASSUME NEW q \in Producers, ppc'[q] = "link", q # p PROVE prevHead'[q] # head
      OBVIOUS
    <3> PICK i \in 1 .. L - 1 : prevHead'[q] = chain'[i]
      BY <2>4
    <3>1. i # L /\ i \in 1 .. L /\ L \in 1 .. L /\ chain[i] = chain'[i] /\ chain[L] = head
      BY <1>1, <1>3, <2>3
    <3> QED
      BY <3>1 DEF IInv, Distinct
  <2>6. \A q \in Producers : ppc'[q] = "link" =>
          \E i \in 1 .. Len(chain') - 1 :
            prevHead'[q] = chain'[i] /\ node'[q] = chain'[i + 1] /\ nxt'[chain'[i]] = Null
    BY <1>1, <1>3, <2>2, <2>3, <2>4
  <2> QED
    BY <2>1, <2>2, <2>5, <2>6 DEF IInv, Linking
<1>8. Fresh'
  <2>1. \A q \in Producers : ppc'[q] = "exchange" =>
          q # p /\ ppc[q] = "exchange" /\ node[q] # node[p]
    BY DEF IInv, TypeOK, Fresh
  <2> QED
    BY <1>1, <1>3, <2>1 DEF IInv, Fresh, InChain, Deleting
<1>9. Taking'
  <2>1. Deleting => old # node[p]
    BY DEF IInv, Fresh
  <2> QED
    BY <1>1, <1>3, <2>1 DEF IInv, Taking, InChain, Deleting
<1>10. Quiet' /\ Live' /\ NoLeak'
  BY <1>1, <1>2, <1>3 DEF IInv, Quiet, Live, NoLeak, InService
<1>11. NoneLost'
  <2> SUFFICES ASSUME NEW n \in allocated
      PROVE  \/ InChain(n)'
             \/ \E q \in Producers : ppc'[q] = "exchange" /\ node'[q] = n
             \/ Deleting' /\ n = old'
    BY DEF NoneLost
  <2>1. CASE InChain(n)
    BY <1>1, <1>3, <2>1 DEF InChain
  <2>2. ASSUME NEW q \in Producers, ppc[q] = "exchange", node[q] = n
        PROVE  InChain(n)' \/ \E r \in Producers : ppc'[r] = "exchange" /\ node'[r] = n
    <3>1. CASE q = p
      BY <1>1, <1>3, <2>2, <3>1 DEF InChain
    <3>2. CASE q # p
      BY <2>2, <3>2 DEF IInv, TypeOK
    <3> QED
      BY <3>1, <3>2
  <2> QED
    BY <2>1, <2>2 DEF IInv, NoneLost, Deleting
<1> QED
  BY <1>4, <1>5, <1>6, <1>7, <1>8, <1>9, <1>10, <1>11 DEF IInv

\* A producer sets the link of the list it owes.
LEMMA LinkIInv ==
  ASSUME IInv, NEW p \in Producers, Link(p)
  PROVE  IInv'
<1> USE DEF Link, consumerVars
<1> DEFINE L == Len(chain)
<1>1. L \in Nat /\ L >= 1 /\ (\A i \in 1 .. L : chain[i] \in Nodes) /\ InService
  BY ChainFacts
<1> PICK k \in 1 .. L - 1 :
      prevHead[p] = chain[k] /\ node[p] = chain[k + 1] /\ nxt[chain[k]] = Null
  BY DEF IInv, Linking
<1>2. TypeOK'
  BY DEF IInv, TypeOK
<1>3. \A i \in 1 .. L : i # k => nxt'[chain[i]] = nxt[chain[i]]
  BY <1>1 DEF IInv, TypeOK, Distinct
<1>4. nxt'[chain[k]] = chain[k + 1]
  BY <1>1 DEF IInv, TypeOK
<1>5. Ends' /\ Distinct' /\ Filled'
  BY <1>1, <1>3 DEF IInv, Ends, Distinct, Filled
<1>6. \A q \in Producers : ppc'[q] # "idle" =>
        q # p /\ ppc'[q] = ppc[q] /\ node'[q] = node[q] /\ prevHead'[q] = prevHead[q]
  BY DEF IInv, TypeOK
<1>7. \A q \in Producers : q # p => ppc'[q] = ppc[q] /\ node'[q] = node[q] /\ prevHead'[q] = prevHead[q]
  BY DEF IInv, TypeOK
<1>8. Linked'
  <2> SUFFICES ASSUME NEW i \in 1 .. L - 1
      PROVE  \/ nxt'[chain[i]] = chain[i + 1]
             \/ /\ nxt'[chain[i]] = Null
                /\ \E q \in Producers : ppc'[q] = "link" /\ prevHead'[q] = chain[i]
    BY DEF Linked
  <2>1. CASE i = k
    BY <1>4, <2>1
  <2>2. CASE i # k
    <3>1. prevHead[p] # chain[i] /\ nxt'[chain[i]] = nxt[chain[i]]
      BY <1>1, <1>3, <2>2 DEF IInv, Distinct
    <3> QED
      BY <3>1, <1>7 DEF IInv, Linked
  <2> QED
    BY <2>1, <2>2
<1>9. Linking'
  <2>1. \A q \in Producers : ppc'[q] = "link" =>
          \E i \in 1 .. L - 1 :
            prevHead'[q] = chain[i] /\ node'[q] = chain[i + 1] /\ nxt'[chain[i]] = Null
    <3> SUFFICES ASSUME NEW q \in Producers, ppc'[q] = "link"
                 PROVE  \E i \in 1 .. L - 1 :
                          prevHead'[q] = chain[i] /\ node'[q] = chain[i + 1] /\ nxt'[chain[i]] = Null
      OBVIOUS
    <3> PICK i \in 1 .. L - 1 :
          prevHead[q] = chain[i] /\ node[q] = chain[i + 1] /\ nxt[chain[i]] = Null
      BY <1>6 DEF IInv, Linking
    <3>1. i # k
      BY <1>6 DEF IInv, Linking
    <3> WITNESS i \in 1 .. L - 1
    <3> QED
      BY <1>1, <1>3, <1>6, <3>1
  <2> QED
    BY <1>6, <2>1 DEF IInv, Linking
<1>10. Fresh'
  <2>1. \A q \in Producers : ppc'[q] = "exchange" => nxt'[node[q]] = nxt[node[q]]
    BY <1>1, <1>6 DEF IInv, TypeOK, Fresh, InChain
  <2> QED
    BY <1>6, <2>1 DEF IInv, Fresh, InChain, Deleting
<1>11. Taking'
  <2>1. ASSUME cpc \in {"take", "drainTake"} PROVE nxt'[tail] = nxt[tail]
    <3>1. tail = chain[1] /\ nxt[tail] # Null /\ 1 \in 1 .. L
      BY <1>1, <2>1 DEF IInv, Ends, Taking
    <3> QED
      BY <1>3, <3>1
  <2> QED
    BY <2>1 DEF IInv, Taking, InChain, Deleting
<1>12. Quiet' /\ Live' /\ NoLeak'
  BY <1>1 DEF IInv, Quiet, Live, NoLeak, InService
<1>13. NoneLost'
  BY <1>7 DEF IInv, NoneLost, InChain, Deleting
<1> QED
  BY <1>2, <1>5, <1>8, <1>9, <1>10, <1>11, <1>12, <1>13 DEF IInv

\* What the consumer finds behind the dummy is the next node of the list.
LEMMA LoadNextIInv ==
  ASSUME IInv, LoadNext
  PROVE  IInv'
<1> USE DEF LoadNext, producerVars
<1>1. TypeOK'
  BY DEF IInv, TypeOK
<1>2. Ends' /\ Distinct' /\ Linked' /\ Linking' /\ Filled' /\ NoLeak'
  BY DEF IInv, Ends, Distinct, Linked, Linking, Filled, NoLeak
<1>3. Fresh' /\ Taking' /\ Quiet' /\ Live'
  BY DEF IInv, Fresh, Taking, Quiet, Live, Deleting, InChain, InService
<1>4. NoneLost'
  BY DEF IInv, NoneLost, InChain, Deleting
<1> QED
  BY <1>1, <1>2, <1>3, <1>4 DEF IInv

\* In "take" the list has a second node, the one the consumer has found.
LEMMA SecondNode ==
  ASSUME IInv, cpc \in {"take", "drainTake"}
  PROVE  Len(chain) >= 2 /\ new = chain[2]
<1>1. Len(chain) \in Nat /\ Len(chain) >= 1
  BY ChainFacts
<1>2. tail = chain[1] /\ nxt[tail] # Null /\ new = nxt[tail]
  BY DEF IInv, Ends, Taking
<1>3. ASSUME NEW n \in Nat, n = Len(chain), n >= 1 PROVE n >= 2
  <2>1. n # 1
    BY <1>2, <1>3 DEF IInv, Ends
  <2> QED
    BY <1>3, <2>1
<1>4. Len(chain) >= 2
  BY <1>1, <1>3
<1>5. 1 \in 1 .. Len(chain) - 1
  BY <1>1, <1>4
<1> QED
  BY <1>2, <1>4, <1>5 DEF IInv, Linked

\* The old dummy leaves the list and is the consumer's to delete.
LEMMA TakeDataIInv ==
  ASSUME IInv, TakeData
  PROVE  IInv'
<1> USE DEF TakeData, producerVars
<1> DEFINE L == Len(chain)
<1>1. L \in Nat /\ L >= 1 /\ (\A i \in 1 .. L : chain[i] \in Nodes)
  BY ChainFacts
<1>2. L >= 2 /\ new = chain[2] /\ new \in Nodes /\ old = chain[1] /\ old = tail
  BY SecondNode, <1>1 DEF IInv, Taking, Ends
<1>3. /\ chain' \in Seq(Nodes) /\ Len(chain') = L - 1
      /\ \A i \in 1 .. L - 1 : chain'[i] = chain[i + 1]
  BY <1>1, TailOfNodes DEF IInv, TypeOK
<1>4. TypeOK'
  <2>1. data[new] \in Items
    BY <1>2 DEF IInv, Filled
  <2> QED
    BY <1>2, <1>3, <2>1 DEF IInv, TypeOK
<1>5. Ends'
  BY <1>1, <1>2, <1>3 DEF IInv, Ends
<1>6. Distinct' /\ Filled'
  BY <1>1, <1>2, <1>3 DEF IInv, Distinct, Filled
<1>7. Linked'
  <2> SUFFICES ASSUME NEW i \in 1 .. L - 2
      PROVE  \/ nxt[chain'[i]] = chain'[i + 1]
             \/ /\ nxt[chain'[i]] = Null
                /\ \E q \in Producers : ppc[q] = "link" /\ prevHead[q] = chain'[i]
    BY <1>1, <1>3 DEF Linked
  <2>1. i + 1 \in 1 .. L - 1 /\ chain'[i] = chain[i + 1] /\ chain'[i + 1] = chain[(i + 1) + 1]
    BY <1>1, <1>3
  <2> QED
    BY <2>1 DEF IInv, Linked
<1>8. Linking'
  <2> SUFFICES ASSUME NEW q \in Producers, ppc[q] = "link"
               PROVE  \E i \in 1 .. L - 2 :
                        prevHead[q] = chain'[i] /\ node[q] = chain'[i + 1] /\ nxt[chain'[i]] = Null
    BY <1>1, <1>3 DEF IInv, Linking
  <2> PICK j \in 1 .. L - 1 :
        prevHead[q] = chain[j] /\ node[q] = chain[j + 1] /\ nxt[chain[j]] = Null
    BY DEF IInv, Linking
  <2>1. j # 1
    BY <1>2 DEF IInv, Taking
  <2>2. j - 1 \in 1 .. L - 2 /\ chain'[j - 1] = chain[j] /\ chain'[(j - 1) + 1] = chain[j + 1]
    BY <1>1, <1>3, <2>1
  <2> QED
    BY <2>2
<1>9. \A i \in 1 .. L - 1 : chain'[i] # old
  <2> SUFFICES ASSUME NEW i \in 1 .. L - 1 PROVE chain[i + 1] # chain[1]
    BY <1>2, <1>3
  <2>1. 1 \in 1 .. L /\ i + 1 \in 1 .. L /\ i + 1 # 1
    BY <1>1
  <2> QED
    BY <2>1 DEF IInv, Distinct
<1>10. \A n : InChain(n)' => InChain(n)
  BY <1>1, <1>2, <1>3 DEF InChain
<1>11. 1 \in 1 .. L /\ InChain(old) /\ ~InChain(old)'
  <2>1. 1 \in 1 .. L
    BY <1>1
  <2>2. InChain(old)
    BY <1>2, <2>1 DEF InChain
  <2>3. ~InChain(old)'
    BY <1>3, <1>9 DEF InChain
  <2> QED
    BY <2>1, <2>2, <2>3
<1>12. Deleting' /\ ~Deleting
  BY DEF Deleting
<1>13. Fresh'
  BY <1>10, <1>11 DEF IInv, Fresh
<1>14. old \in allocated
  BY <1>2, <1>11 DEF IInv, Live
<1>15. Taking'
  BY <1>11, <1>14 DEF IInv, Taking, Deleting, InChain
<1>16. Quiet' /\ Live' /\ NoLeak'
  BY <1>1, <1>3 DEF IInv, Quiet, Live, NoLeak, InService
<1>17. NoneLost'
  <2> SUFFICES ASSUME NEW n \in allocated, InChain(n), n # old PROVE InChain(n)'
    BY <1>12 DEF IInv, NoneLost
  <2> PICK i \in 1 .. L : chain[i] = n
    BY DEF InChain
  <2>1. i # 1
    BY <1>2
  <2>2. i - 1 \in 1 .. L - 1 /\ (i - 1) + 1 = i
    BY <1>1, <2>1
  <2>3. chain'[i - 1] = n
    BY <1>3, <2>2
  <2> QED
    BY <1>3, <2>2, <2>3 DEF InChain
<1> QED
  BY <1>4, <1>5, <1>6, <1>7, <1>8, <1>13, <1>15, <1>16, <1>17 DEF IInv

\* Nobody has the old dummy.
LEMMA DeleteOldIInv ==
  ASSUME IInv, DeleteOld
  PROVE  IInv'
<1> USE DEF DeleteOld, producerVars
<1>1. Deleting /\ ~Deleting'
  BY DEF Deleting
<1>2. TypeOK'
  BY DEF IInv, TypeOK
<1>3. Ends' /\ Distinct' /\ Linked' /\ Linking' /\ Filled' /\ NoLeak'
  BY DEF IInv, Ends, Distinct, Linked, Linking, Filled, NoLeak
<1>4. Fresh' /\ Taking' /\ Quiet'
  BY <1>1 DEF IInv, Fresh, Taking, Quiet, InChain, InService
<1>5. Live'
  BY <1>1 DEF IInv, Live, Taking, InChain
<1>6. NoneLost'
  BY <1>1 DEF IInv, NoneLost, InChain
<1> QED
  BY <1>2, <1>3, <1>4, <1>5, <1>6 DEF IInv

LEMMA StartDestroyIInv ==
  ASSUME IInv, StartDestroy
  PROVE  IInv'
<1> USE DEF StartDestroy, producerVars
<1>1. TypeOK'
  BY DEF IInv, TypeOK
<1>2. Ends' /\ Distinct' /\ Linked' /\ Linking' /\ Filled' /\ NoLeak'
  BY DEF IInv, Ends, Distinct, Linked, Linking, Filled, NoLeak
<1>3. Fresh' /\ Taking' /\ Quiet' /\ Live' /\ NoneLost'
  BY DEF IInv, Fresh, Taking, Quiet, Live, NoneLost, Deleting, InChain
<1> QED
  BY <1>1, <1>2, <1>3 DEF IInv

\* Without producers a null behind the dummy means that the dummy is all.
LEMMA DeleteFrontIInv ==
  ASSUME IInv, DeleteFront
  PROVE  IInv'
<1> USE DEF DeleteFront, producerVars
<1>1. Len(chain) \in Nat /\ Len(chain) >= 1 /\ (\A i \in 1 .. Len(chain) : chain[i] \in Nodes)
  BY ChainFacts
<1>2. \A p \in Producers : ppc[p] = "idle"
  BY DEF IInv, Quiet, InService
<1>3. Len(chain) = 1
  <2>1. ASSUME Len(chain) # 1 PROVE FALSE
    <3>1. 1 \in 1 .. Len(chain) - 1 /\ 2 \in 1 .. Len(chain)
      BY <1>1, <2>1
    <3>2. nxt[chain[1]] = chain[2]
      BY <1>2, <3>1 DEF IInv, Linked
    <3> QED
      BY <1>1, <3>1, <3>2, NullAssumption DEF IInv, Ends
  <2> QED
    BY <2>1
<1>4. \A n \in allocated : n = head
  BY <1>2, <1>3 DEF IInv, NoneLost, InChain, Ends, Deleting
<1>5. allocated' = {}
  BY <1>4
<1>6. TypeOK'
  BY <1>5 DEF IInv, TypeOK
<1>7. Ends' /\ Distinct' /\ Linked' /\ Linking' /\ Filled' /\ NoLeak'
  BY <1>5 DEF IInv, Ends, Distinct, Linked, Linking, Filled, NoLeak
<1>8. Fresh' /\ Taking' /\ Quiet' /\ Live' /\ NoneLost'
  BY <1>2, <1>5 DEF IInv, Fresh, Taking, Quiet, Live, NoneLost, Deleting, InChain, InService
<1> QED
  BY <1>6, <1>7, <1>8 DEF IInv

LEMMA StutterIInv ==
  ASSUME IInv, UNCHANGED vars
  PROVE  IInv'
<1> USE DEF vars
<1>1. TypeOK' /\ NoLeak'
  BY DEF IInv, TypeOK, NoLeak
<1>2. Ends' /\ Distinct' /\ Linked' /\ Linking' /\ Filled'
  BY DEF IInv, Ends, Distinct, Linked, Linking, Filled
<1>3. Fresh' /\ Taking' /\ Quiet' /\ Live' /\ NoneLost'
  BY DEF IInv, Fresh, Taking, Quiet, Live, NoneLost, Deleting, InChain, InService
<1> QED
  BY <1>1, <1>2, <1>3 DEF IInv

LEMMA NextIInv == IInv /\ [Next]_vars => IInv'
<1> SUFFICES ASSUME IInv, [Next]_vars PROVE IInv'
  OBVIOUS
<1>1. CASE Consumer
  BY <1>1, LoadNextIInv, TakeDataIInv, DeleteOldIInv, DeleteFrontIInv DEF Consumer
<1>2. ASSUME NEW p \in Producers, Producer(p) PROVE IInv'
  BY <1>2, ExchangeIInv, LinkIInv DEF Producer
<1>3. CASE Environment
  BY <1>3, StartDestroyIInv, NewNodeIInv DEF Environment
<1>4. CASE UNCHANGED vars
  BY <1>4, StutterIInv
<1> QED
  BY <1>1, <1>2, <1>3, <1>4 DEF Next, Destroyed

\* The list is what the consumer and the producers take it for, always.
THEOREM IInvInvariant == Spec => []IInv
  BY InitIInv, NextIInv, PTL DEF Spec

THEOREM TypeCorrect == Spec => []TypeOK
<1>1. IInv => TypeOK
  BY DEF IInv
<1> QED
  BY <1>1, IInvInvariant, PTL

\* No thread uses a node that was deleted.
THEOREM NoNodeUsedAfterFree == Spec => []NoUseAfterFree
<1>1. IInv => NoUseAfterFree
  <2> SUFFICES ASSUME IInv, cpc # "destroyed"
      PROVE  /\ tail \in allocated /\ head \in allocated
             /\ cpc \in {"take", "drainTake"} => {old, new} \subseteq allocated
             /\ \A p \in Producers :
                  /\ ppc[p] = "exchange" => node[p] \in allocated
                  /\ ppc[p] = "link" => {node[p], prevHead[p]} \subseteq allocated
    BY DEF NoUseAfterFree
  <2>1. Len(chain) \in Nat /\ Len(chain) >= 1 /\ (\A i \in 1 .. Len(chain) : chain[i] \in allocated)
    BY ChainFacts DEF IInv, Live
  <2>2. tail \in allocated /\ head \in allocated
    BY <2>1 DEF IInv, Ends
  <2>3. cpc \in {"take", "drainTake"} => {old, new} \subseteq allocated
    BY <2>1, <2>2, SecondNode DEF IInv, Taking
  <2>4. ASSUME NEW p \in Producers, ppc[p] = "link"
        PROVE  {node[p], prevHead[p]} \subseteq allocated
    <3> PICK i \in 1 .. Len(chain) - 1 : prevHead[p] = chain[i] /\ node[p] = chain[i + 1]
      BY <2>4 DEF IInv, Linking
    <3>1. i \in 1 .. Len(chain) /\ i + 1 \in 1 .. Len(chain)
      BY <2>1
    <3> QED
      BY <2>1, <3>1
  <2> QED
    BY <2>2, <2>3, <2>4 DEF IInv, Fresh
<1> QED
  BY <1>1, IInvInvariant, PTL

\* The destructor leaves no node behind.
THEOREM NoNodeLeaked == Spec => []NoLeak
<1>1. IInv => NoLeak
  BY DEF IInv
<1> QED
  BY <1>1, IInvInvariant, PTL

-----------------------------------------------------------------------------
\* What the actions do to the items in the queue.
LEMMA ContentsLen ==
  ASSUME IInv
  PROVE  /\ Len(chain) \in Nat /\ Len(chain) >= 1
         /\ Contents \in Seq(Items) /\ Len(Contents) = Len(chain) - 1
         /\ \A i \in 1 .. Len(chain) - 1 : Contents[i] = data[chain[i + 1]]
<1>1. Len(chain) \in Nat /\ Len(chain) >= 1
  BY ChainFacts
<1>2. \A i \in 1 .. Len(chain) - 1 : data[chain[i + 1]] \in Items
  BY <1>1 DEF IInv, Filled
<1>3. Len(chain) - 1 \in Nat
  BY <1>1
<1> QED
  BY <1>1, <1>2, <1>3 DEF Contents

LEMMA ContentsUnchanged ==
  ASSUME IInv, UNCHANGED chain, \A i \in 1 .. Len(chain) : data'[chain[i]] = data[chain[i]]
  PROVE  Contents' = Contents
  BY ChainFacts DEF Contents

LEMMA ExchangePuts ==
  ASSUME IInv, NEW p \in Producers, Exchange(p)
  PROVE  \E x \in Items : Contents' = Append(Contents, x)
<1> DEFINE L == Len(chain)
<1>1. IInv'
  BY ExchangeIInv
<1>2. node[p] \in Nodes /\ data[node[p]] \in Items
  BY DEF IInv, TypeOK, Fresh, Exchange
<1>3. /\ L \in Nat /\ L >= 1
      /\ Contents \in Seq(Items) /\ Len(Contents) = L - 1
      /\ \A i \in 1 .. L - 1 : Contents[i] = data[chain[i + 1]]
  BY ContentsLen
<1>4. /\ Len(chain') = L + 1
      /\ \A i \in 1 .. L : chain'[i] = chain[i]
      /\ chain'[L + 1] = node[p]
  BY <1>2, AppendNode DEF IInv, TypeOK, Exchange
<1>5. data' = data
  BY DEF Exchange
<1>6. Contents' = [i \in 1 .. L |-> data[chain'[i + 1]]]
  BY <1>3, <1>4, <1>5 DEF Contents
<1>7. Append(Contents, data[node[p]]) = [i \in 1 .. L |-> IF i = L THEN data[node[p]] ELSE Contents[i]]
  BY <1>2, <1>3
<1>8. \A i \in 1 .. L : data[chain'[i + 1]] = IF i = L THEN data[node[p]] ELSE Contents[i]
  BY <1>3, <1>4
<1>9. Contents' = Append(Contents, data[node[p]])
  BY <1>6, <1>7, <1>8
<1> QED
  BY <1>2, <1>9

LEMMA TakeDataTakes ==
  ASSUME IInv, TakeData
  PROVE  /\ Contents # <<>>
         /\ result' = Head(Contents)
         /\ Contents' = Tail(Contents)
<1> DEFINE L == Len(chain)
<1>1. L >= 2 /\ new = chain[2]
  BY SecondNode DEF TakeData
<1>2. /\ L \in Nat
      /\ Contents \in Seq(Items) /\ Len(Contents) = L - 1
      /\ \A i \in 1 .. L - 1 : Contents[i] = data[chain[i + 1]]
  BY ContentsLen
<1>3. Contents # <<>> /\ Head(Contents) = Contents[1] /\ Contents[1] = data[chain[2]]
  BY <1>1, <1>2
<1>4. Len(chain') = L - 1 /\ \A i \in 1 .. L - 1 : chain'[i] = chain[i + 1]
  BY <1>1, TailOfNodes DEF IInv, TypeOK, TakeData
<1>5. data' = data /\ result' = data[new]
  BY DEF TakeData
<1>6. Contents' = [i \in 1 .. L - 2 |-> data[chain'[i + 1]]]
  BY <1>1, <1>2, <1>4, <1>5 DEF Contents
<1>7. Tail(Contents) = [i \in 1 .. L - 2 |-> Contents[i + 1]]
  <2>1. Len(Contents) >= 1 /\ Len(Contents) - 1 = L - 2
    BY <1>1, <1>2
  <2> QED
    BY <1>2, <2>1, TailIs
<1>8. \A i \in 1 .. L - 2 : data[chain'[i + 1]] = Contents[i + 1]
  <2> SUFFICES ASSUME NEW i \in 1 .. L - 2 PROVE data[chain'[i + 1]] = Contents[i + 1]
    OBVIOUS
  <2>1. i + 1 \in 1 .. L - 1
    BY <1>1, <1>2
  <2> QED
    BY <1>2, <1>4, <2>1
<1>9. Contents' = Tail(Contents)
  BY <1>6, <1>7, <1>8
<1> QED
  BY <1>1, <1>3, <1>5, <1>9

LEMMA NextImplements == IInv /\ [Next]_vars => [Fifo!FifoNext]_<<Contents, result>>
<1> SUFFICES ASSUME IInv, [Next]_vars
    PROVE  \/ Fifo!FifoNext
           \/ Contents' = Contents /\ result' = result
  OBVIOUS
<1> USE DEF consumerVars, producerVars
<1>1. ASSUME NEW p \in Producers, Exchange(p) PROVE Fifo!FifoNext
  <2>1. result' = result
    BY <1>1 DEF Exchange
  <2> QED
    BY <1>1, <2>1, ExchangePuts DEF Fifo!FifoNext, Fifo!Put
<1>2. CASE TakeData
  BY <1>2, TakeDataTakes DEF Fifo!FifoNext, Fifo!Take
<1>3. ASSUME NEW p \in Producers, NEW n \in Nodes, NEW x \in Items, NewNode(p, n, x)
      PROVE  Contents' = Contents /\ result' = result
  <2>1. \A i \in 1 .. Len(chain) : chain[i] # n /\ chain[i] \in Nodes
    BY <1>3, ChainFacts DEF IInv, Live, NewNode, InService
  <2>2. \A i \in 1 .. Len(chain) : data'[chain[i]] = data[chain[i]]
    BY <1>3, <2>1 DEF IInv, TypeOK, NewNode
  <2> QED
    BY <1>3, <2>2, ContentsUnchanged DEF NewNode
<1>4. CASE UNCHANGED <<chain, data, result>>
  BY <1>4, ContentsUnchanged
<1>5. ASSUME NEW p \in Producers, Link(p) PROVE UNCHANGED <<chain, data, result>>
  BY <1>5 DEF Link
<1>6. LoadNext \/ DeleteOld \/ DeleteFront \/ StartDestroy \/ UNCHANGED vars
        => UNCHANGED <<chain, data, result>>
  BY DEF LoadNext, DeleteOld, DeleteFront, StartDestroy, vars
<1> QED
  BY <1>1, <1>2, <1>3, <1>4, <1>5, <1>6
     DEF Next, Consumer, Producer, Environment, Destroyed

\* MPSCQueue implements FifoQueue: items come out in the order in which their
\* producers exchanged _head, each once, whatever the order of the links.
THEOREM Implementation == Spec => ImplementsFifo
<1>1. Init => Fifo!FifoInit
  <2> SUFFICES ASSUME Init PROVE Contents = <<>> /\ result = NoItem
    BY DEF Fifo!FifoInit
  <2>1. Len(chain) = 1
    BY DEF Init
  <2> QED
    BY <2>1 DEF Init, Contents
<1> QED
  BY <1>1, NextImplements, IInvInvariant, PTL
     DEF Spec, ImplementsFifo, Fifo!FifoSpec, Fifo!fifoVars
===============================================================================
