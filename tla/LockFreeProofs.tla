---------------------------- MODULE LockFreeProofs ----------------------------
(* Proofs about the lock-free structures, first HPLinkedQueue, then the rings *)
(* and all of them together, for any threads, any number of nodes, any        *)
(* capacity, any batch size and any size of the list of retired nodes.        *)
EXTENDS MCLockFree, FiniteSetTheorems, TLAPS

QSpec == QInit /\ [][QNext]_qvars

EnqueueSteps == {"idle", "loadTail", "loadNext", "check", "link", "swing", "help", "count"}
DequeueSteps == {"idle", "loadHead", "loadTail", "loadNext", "check", "help", "take", "retire", "count"}

Types ==
  /\ my \in [QThreads -> [at : EnqueueSteps \cup DequeueSteps, head : Nodes \cup {Nil},
                          tail : Nodes \cup {Nil}, next : Nodes \cup {Nil}]]
  /\ \A e \in Enqueuers : my[e].at \in EnqueueSteps
  /\ \A d \in Dequeuers : my[d].at \in DequeueSteps
  /\ made \in [Enqueuers -> Nat] /\ \A e \in Enqueuers : made[e] <= MaxNodes[e]
  /\ link \in [Nodes -> Nodes \cup {Nil}]
  /\ linked \in Seq(Nodes \ {Dummy}) /\ taken \in Seq(Nodes)
  /\ retired \in Seq(Nodes \cup {Nil}) /\ Len(retired) < MaxRetired
  /\ enqueueCount \in Nat /\ dequeueCount \in Nat

(* The list, from the dummy node on, with s the nodes linked to it; and how   *)
(* far along it a pointer is.                                                *)
Nth(s, i) == IF i = 0 THEN Dummy ELSE s[i]
OnList(s, x) == \E i \in 0..Len(s) : x = Nth(s, i)
Reaches(s, x, y) == \E i, j \in 0..Len(s) : i <= j /\ x = Nth(s, i) /\ y = Nth(s, j)

(* Next pointers make the linked nodes one list, in the order of linking.    *)
Distinct(s) == \A i, j \in DOMAIN s : i # j => s[i] # s[j]
Chained ==
  /\ Distinct(linked)
  /\ \A i \in 0..Len(linked) :
       link[Nth(linked, i)] = IF i < Len(linked) THEN linked[i + 1] ELSE Nil
  /\ \A x \in Nodes : ~OnList(linked, x) => link[x] = Nil
  /\ \A i \in DOMAIN linked : \E e \in Enqueuers : \E k \in 1..made[e] : linked[i] = <<e, k>>

(* What was taken is the first part of the list, head is its last node, and  *)
(* tail is the last node of all or the one before.                           *)
EndsPlaced ==
  /\ Len(taken) <= Len(linked) /\ \A i \in DOMAIN taken : taken[i] = linked[i]
  /\ qhead = Nth(linked, Len(taken))
  /\ \E k \in {Len(linked) - 1, Len(linked)} : k >= Len(taken) /\ qtail = Nth(linked, k)

(* What an enqueuer has seen of the list, and that its node is not on it yet.*)
EnqueuerKnows(e) ==
  /\ my[e].at \in {"loadNext", "check", "link", "help", "swing"}
       => Reaches(linked, my[e].tail, qtail)
  /\ my[e].at = "check" /\ my[e].next # Nil => link[my[e].tail] = my[e].next
  /\ my[e].at = "help" => my[e].next # Nil /\ link[my[e].tail] = my[e].next
  /\ my[e].at = "swing" => link[my[e].tail] = Node(e)
  /\ my[e].at \in {"loadTail", "loadNext", "check", "link", "help"} => ~OnList(linked, Node(e))
  /\ my[e].at \in {"loadTail", "loadNext", "check", "link", "help", "swing"} => made[e] > 0

(* What a dequeuer has seen.  If tail was past head, head had a successor.   *)
DequeuerKnows(d) ==
  /\ my[d].at \in {"loadTail", "loadNext", "check", "help", "take"}
       => Reaches(linked, my[d].head, qhead)
  /\ my[d].at \in {"loadNext", "check", "help", "take"} =>
       Reaches(linked, my[d].head, my[d].tail) /\ Reaches(linked, my[d].tail, qtail)
  /\ my[d].at \in {"check", "help", "take"} =>
       /\ my[d].next # Nil => link[my[d].head] = my[d].next
       /\ my[d].head # my[d].tail => my[d].next # Nil
  /\ my[d].at = "help" => my[d].head = my[d].tail /\ my[d].next # Nil
  /\ my[d].at = "take" => my[d].head # my[d].tail

Known ==
  /\ \A e \in Enqueuers : EnqueuerKnows(e)
  /\ \A d \in Dequeuers : DequeuerKnows(d)

QueueInv == Types /\ Chained /\ EndsPlaced /\ Known /\ CountsFollow

-------------------------------------------------------------------------------
\* What no node is, and the node an enqueuer has made.
LEMMA NodeFacts ==
  /\ Dummy \in Nodes /\ Nil \notin Nodes
  /\ \A e \in Enqueuers, k \in Nat :
       k > 0 /\ k <= MaxNodes[e] => <<e, k>> \in Nodes /\ <<e, k>> # Dummy /\ <<e, k>> # Nil
<1>1. Dummy \in Nodes
  BY DEF Nodes
<1>2. Nil \notin Nodes
  <2> SUFFICES ASSUME Nil \in Nodes PROVE FALSE
    OBVIOUS
  <2>1. Nil # Dummy
    BY DEF Nil, Dummy
  <2>2. PICK e \in Enqueuers : Nil \in {e} \X (1..MaxNodes[e])
    BY <2>1 DEF Nodes
  <2>3. MaxNodes[e] \in Nat
    BY QueueAssumption
  <2> QED
    BY <2>2, <2>3 DEF Nil
<1>3. ASSUME NEW e \in Enqueuers, NEW k \in Nat, k > 0, k <= MaxNodes[e]
      PROVE  <<e, k>> \in Nodes /\ <<e, k>> # Dummy /\ <<e, k>> # Nil
  <2>1. MaxNodes[e] \in Nat
    BY QueueAssumption
  <2>2. <<e, k>> \in {e} \X (1..MaxNodes[e])
    BY <1>3, <2>1
  <2>3. <<e, k>> \in Nodes
    BY <2>2 DEF Nodes
  <2>4. <<e, k>> # Dummy /\ <<e, k>> # Nil
    BY <1>3 DEF Dummy, Nil
  <2> QED
    BY <2>3, <2>4
<1> QED
  BY <1>1, <1>2, <1>3

\* A node is at one place of the list.
LEMMA OnePlace ==
  ASSUME NEW s \in Seq(Nodes \ {Dummy}), Distinct(s),
         NEW i \in 0..Len(s), NEW j \in 0..Len(s), Nth(s, i) = Nth(s, j)
  PROVE  i = j
<1>1. \A k \in DOMAIN s : s[k] # Dummy
  OBVIOUS
<1> QED
  BY <1>1 DEF Nth, Distinct

\* The order along the list is transitive, and survives the list's growth.
LEMMA ReachesOn ==
  ASSUME NEW s \in Seq(Nodes \ {Dummy}), Distinct(s), NEW x, NEW y, NEW z,
         Reaches(s, x, y), Reaches(s, y, z)
  PROVE  Reaches(s, x, z)
<1>1. PICK i \in 0..Len(s), j \in 0..Len(s) : i <= j /\ x = Nth(s, i) /\ y = Nth(s, j)
  BY DEF Reaches
<1>2. PICK k \in 0..Len(s), l \in 0..Len(s) : k <= l /\ y = Nth(s, k) /\ z = Nth(s, l)
  BY DEF Reaches
<1>3. j = k
  BY <1>1, <1>2, OnePlace
<1>4. i <= l
  BY <1>1, <1>2, <1>3
<1> QED
  BY <1>1, <1>2, <1>4 DEF Reaches

LEMMA ReachesLonger ==
  ASSUME NEW s \in Seq(Nodes \ {Dummy}), NEW n \in Nodes \ {Dummy}, NEW x, NEW y, Reaches(s, x, y)
  PROVE  Reaches(Append(s, n), x, y)
<1>1. PICK i \in 0..Len(s), j \in 0..Len(s) : i <= j /\ x = Nth(s, i) /\ y = Nth(s, j)
  BY DEF Reaches
<1>2. /\ i \in 0..Len(Append(s, n)) /\ j \in 0..Len(Append(s, n))
      /\ Nth(Append(s, n), i) = Nth(s, i) /\ Nth(Append(s, n), j) = Nth(s, j)
  BY DEF Nth
<1> QED
  BY <1>1, <1>2 DEF Reaches

\* What is reached is on the list, and every node on the list reaches itself.
LEMMA ReachedOnList ==
  /\ \A s, x, y : Reaches(s, x, y) => OnList(s, x) /\ OnList(s, y)
  /\ \A s, x : Len(s) \in Nat /\ OnList(s, x) => Reaches(s, x, x)
BY DEF Reaches, OnList

\* Where head and tail are.
LEMMA EndsOnList ==
  ASSUME Types, EndsPlaced
  PROVE  /\ OnList(linked, qhead) /\ OnList(linked, qtail) /\ Reaches(linked, qhead, qtail)
         /\ qhead \in Nodes /\ qtail \in Nodes
<1>1. Len(taken) \in Nat /\ Len(linked) \in Nat /\ Len(taken) <= Len(linked)
  BY DEF Types, EndsPlaced
<1>2. PICK k \in {Len(linked) - 1, Len(linked)} : k >= Len(taken) /\ qtail = Nth(linked, k)
  BY DEF EndsPlaced
<1>3. Reaches(linked, qhead, qtail)
  BY <1>1, <1>2 DEF EndsPlaced, Reaches
<1>4. \A i \in 0..Len(linked) : Nth(linked, i) \in Nodes
  BY NodeFacts DEF Types, Nth
<1>5. OnList(linked, qhead) /\ OnList(linked, qtail)
  BY <1>3, ReachedOnList
<1> QED
  BY <1>3, <1>4, <1>5 DEF OnList

\* How many threads of a set are at a step, when one of them moves.
One(at, step) == IF at = step THEN 1 ELSE 0
LEMMA CountMoves ==
  ASSUME NEW set, IsFiniteSet(set), NEW t, NEW step,
         \A u \in set : u # t => my'[u].at = my[u].at
  PROVE  /\ QAt(set, step) \in Nat /\ QAt(set, step)' \in Nat
         /\ t \notin set => QAt(set, step)' = QAt(set, step)
         /\ t \in set =>
              QAt(set, step)' = (QAt(set, step) - One(my[t].at, step)) + One(my'[t].at, step)
<1> DEFINE Now   == {u \in set : my[u].at = step}
           After == {u \in set : my'[u].at = step}
           Rest  == {u \in set : u # t /\ my[u].at = step}
<1>1. QAt(set, step) = Cardinality(Now) /\ QAt(set, step)' = Cardinality(After)
  BY DEF QAt, Does
<1>2. IsFiniteSet(Rest)
  BY FS_Subset
<1>3. Rest = {u \in set : u # t /\ my'[u].at = step} /\ t \notin Rest
  OBVIOUS
<1>4. Now = (IF t \in set /\ my[t].at = step THEN Rest \cup {t} ELSE Rest)
  OBVIOUS
<1>5. After = (IF t \in set /\ my'[t].at = step THEN Rest \cup {t} ELSE Rest)
  BY <1>3
<1>6. Cardinality(Rest) \in Nat /\ Cardinality(Rest \cup {t}) = Cardinality(Rest) + 1
  BY <1>2, <1>3, FS_CardinalityType, FS_AddElement
<1> HIDE DEF Now, After, Rest
<1> QED
  BY <1>1, <1>4, <1>5, <1>6 DEF One

-------------------------------------------------------------------------------
\* What a thread knows stays true while another one moves pointers forward.
LEMMA OthersKnow ==
  ASSUME QueueInv, NEW t,
         \A u \in QThreads : u # t => my'[u] = my[u],
         \A u \in Enqueuers : u # t => made'[u] = made[u],
         \/ linked' = linked
         \/ \E n \in Nodes \ {Dummy} :
              linked' = Append(linked, n) /\ \A u \in Enqueuers : u # t => n # Node(u),
         \A x \in Nodes : link[x] # Nil => link'[x] = link[x],
         Types', Distinct(linked'),
         Reaches(linked', qhead, qhead'), Reaches(linked', qtail, qtail')
  PROVE  /\ \A e \in Enqueuers : e # t => EnqueuerKnows(e)'
         /\ \A d \in Dequeuers : d # t => DequeuerKnows(d)'
<1>1. linked \in Seq(Nodes \ {Dummy}) /\ linked' \in Seq(Nodes \ {Dummy}) /\ Len(linked) \in Nat
  BY DEF QueueInv, Types
<1>2. \A x, y : Reaches(linked, x, y) => Reaches(linked', x, y)
  BY <1>1, ReachesLonger
<1>3. \A x : Reaches(linked, x, qhead) => Reaches(linked', x, qhead')
  BY <1>1, <1>2, ReachesOn
<1>4. \A x : Reaches(linked, x, qtail) => Reaches(linked', x, qtail')
  BY <1>1, <1>2, ReachesOn
<1>5. \A x, y : Reaches(linked, x, y) => x \in Nodes
  <2>1. \A i \in 0..Len(linked) : Nth(linked, i) \in Nodes
    BY <1>1, NodeFacts DEF Nth
  <2> QED
    BY <2>1 DEF Reaches
<1>6. ASSUME NEW e \in Enqueuers, e # t PROVE EnqueuerKnows(e)'
  <2>1. my'[e] = my[e] /\ made'[e] = made[e] /\ EnqueuerKnows(e)
    BY <1>6 DEF QueueInv, Known, QThreads
  <2>2. ~OnList(linked, Node(e)) => ~OnList(linked', <<e, made'[e]>>)
    <3>1. CASE linked' = linked
      BY <2>1, <3>1 DEF Node
    <3>2. CASE linked' # linked
      <4>1. PICK n \in Nodes \ {Dummy} : linked' = Append(linked, n) /\ n # Node(e)
        BY <1>6, <3>2
      <4>2. \A i \in 0..Len(linked') : Nth(linked', i) = n \/ OnList(linked, Nth(linked', i))
        BY <1>1, <4>1 DEF Nth, OnList
      <4> QED
        BY <2>1, <4>1, <4>2 DEF OnList, Node
    <3> QED
      BY <3>1, <3>2
  <2>3. made[e] > 0 => Node(e) # Nil
    <3>1. made[e] \in Nat /\ made[e] <= MaxNodes[e]
      BY DEF QueueInv, Types
    <3> QED
      BY <3>1, NodeFacts DEF Node
  <2>4. \A x : Reaches(linked, x, qtail) /\ link[x] # Nil => link'[x] = link[x]
    BY <1>5
  <2>5. Node(e)' = Node(e)
    BY <2>1 DEF Node
  <2> QED
    BY <1>4, <2>1, <2>2, <2>3, <2>4, <2>5 DEF EnqueuerKnows, Node
<1>7. ASSUME NEW d \in Dequeuers, d # t PROVE DequeuerKnows(d)'
  <2>1. my'[d] = my[d] /\ DequeuerKnows(d)
    BY <1>7 DEF QueueInv, Known, QThreads
  <2>2. \A x : Reaches(linked, x, qhead) /\ link[x] # Nil => link'[x] = link[x]
    BY <1>5
  <2> QED
    BY <1>2, <1>3, <1>4, <2>1, <2>2 DEF DequeuerKnows
<1> QED
  BY <1>6, <1>7

\* The list and its ends do not mind what a thread does for itself.
LEMMA PrivateKeeps ==
  ASSUME QueueInv, NEW t, UNCHANGED <<list, linked, taken>>, Types',
         \A u \in QThreads : u # t => my'[u] = my[u],
         \A u \in Enqueuers : u # t => made'[u] = made[u],
         \A u \in Enqueuers : made'[u] >= made[u]
  PROVE  /\ Chained' /\ EndsPlaced'
         /\ \A e \in Enqueuers : e # t => EnqueuerKnows(e)'
         /\ \A d \in Dequeuers : d # t => DequeuerKnows(d)'
<1>1. UNCHANGED <<qhead, qtail, link, linked, taken>>
  BY DEF list
<1>2. /\ made \in [Enqueuers -> Nat] /\ made' \in [Enqueuers -> Nat]
      /\ linked \in Seq(Nodes \ {Dummy}) /\ Len(linked) \in Nat
  BY DEF QueueInv, Types
<1>3. \A i \in DOMAIN linked : \E e \in Enqueuers : \E k \in 1..made'[e] : linked[i] = <<e, k>>
  <2> SUFFICES ASSUME NEW i \in DOMAIN linked
               PROVE  \E e \in Enqueuers : \E k \in 1..made'[e] : linked[i] = <<e, k>>
    OBVIOUS
  <2>1. PICK e \in Enqueuers : \E k \in 1..made[e] : linked[i] = <<e, k>>
    BY DEF QueueInv, Chained
  <2>2. 1..made[e] \subseteq 1..made'[e]
    BY <1>2
  <2> QED
    BY <2>1, <2>2
<1>4. Chained'
  BY <1>1, <1>3 DEF QueueInv, Chained
<1>5. EndsPlaced'
  BY <1>1 DEF QueueInv, EndsPlaced
<1>6. Reaches(linked', qhead, qhead') /\ Reaches(linked', qtail, qtail')
  BY <1>1, <1>2, EndsOnList, ReachedOnList DEF QueueInv
<1> QED
  BY <1>1, <1>4, <1>5, <1>6, OthersKnow DEF Chained

\* A call is counted when its last step but the list's has been made.
Counting(at) == IF at \in {"swing", "retire", "count"} THEN 1 ELSE 0

LEMMA EnqueueCounted ==
  ASSUME QueueInv, Types', NEW e \in Enqueuers,
         \A u \in QThreads : u # e => my'[u] = my[u],
         UNCHANGED <<taken, dequeueCount>>,
         Len(linked') - enqueueCount'
           = ((Len(linked) - enqueueCount) + Counting(my'[e].at)) - Counting(my[e].at)
  PROVE  CountsFollow'
<1>1. /\ \A u \in Enqueuers : u # e => my'[u].at = my[u].at
      /\ \A u \in Dequeuers : u # e => my'[u].at = my[u].at
      /\ e \notin Dequeuers
  BY QueueAssumption DEF QThreads
<1>2. /\ Len(linked) \in Nat /\ Len(linked') \in Nat /\ enqueueCount \in Nat
      /\ enqueueCount' \in Nat /\ my[e].at \in EnqueueSteps /\ my'[e].at \in EnqueueSteps
  BY DEF QueueInv, Types
<1>3. /\ QAt(Dequeuers, "retire")' = QAt(Dequeuers, "retire")
      /\ QAt(Dequeuers, "count")' = QAt(Dequeuers, "count")
  BY <1>1, CountMoves, QueueAssumption
<1>4. /\ QAt(Enqueuers, "swing") \in Nat /\ QAt(Enqueuers, "swing")' \in Nat
      /\ QAt(Enqueuers, "swing")'
           = (QAt(Enqueuers, "swing") - One(my[e].at, "swing")) + One(my'[e].at, "swing")
  BY <1>1, CountMoves, QueueAssumption
<1>5. /\ QAt(Enqueuers, "count") \in Nat /\ QAt(Enqueuers, "count")' \in Nat
      /\ QAt(Enqueuers, "count")'
           = (QAt(Enqueuers, "count") - One(my[e].at, "count")) + One(my'[e].at, "count")
  BY <1>1, CountMoves, QueueAssumption
<1>6. CountsFollow
  BY DEF QueueInv
<1>7. /\ Counting(my[e].at) = One(my[e].at, "swing") + One(my[e].at, "count")
      /\ Counting(my'[e].at) = One(my'[e].at, "swing") + One(my'[e].at, "count")
  BY <1>2 DEF Counting, One, EnqueueSteps
<1>8. One(my[e].at, "swing") \in Nat /\ One(my[e].at, "count") \in Nat
      /\ One(my'[e].at, "swing") \in Nat /\ One(my'[e].at, "count") \in Nat
  BY DEF One
<1>9. Len(linked) = (enqueueCount + QAt(Enqueuers, "swing")) + QAt(Enqueuers, "count")
  BY <1>6 DEF CountsFollow
<1>10. Len(linked') = (enqueueCount' + QAt(Enqueuers, "swing")') + QAt(Enqueuers, "count")'
  <2> DEFINE len == Len(linked)   len1 == Len(linked')
             n == enqueueCount  n1 == enqueueCount'
             a == QAt(Enqueuers, "swing")   a1 == QAt(Enqueuers, "swing")'
             b == QAt(Enqueuers, "count")   b1 == QAt(Enqueuers, "count")'
             x == One(my[e].at, "swing")   x1 == One(my'[e].at, "swing")
             y == One(my[e].at, "count")   y1 == One(my'[e].at, "count")
  <2>1. /\ len \in Nat /\ len1 \in Nat /\ n \in Nat /\ n1 \in Nat /\ a \in Nat /\ a1 \in Nat
        /\ b \in Nat /\ b1 \in Nat /\ x \in Nat /\ x1 \in Nat /\ y \in Nat /\ y1 \in Nat
    BY <1>2, <1>4, <1>5, <1>8
  <2>2. len = (n + a) + b /\ a1 = (a - x) + x1 /\ b1 = (b - y) + y1
    BY <1>4, <1>5, <1>9
  <2>3. len1 - n1 = ((len - n) + (x1 + y1)) - (x + y)
    BY <1>7
  <2> HIDE DEF len, len1, n, n1, a, a1, b, b1, x, x1, y, y1
  <2>4. len1 = (n1 + a1) + b1
    BY ONLY <2>1, <2>2, <2>3
  <2> QED
    BY <2>4 DEF len1, n1, a1, b1
<1>11. Len(taken') = (dequeueCount' + QAt(Dequeuers, "retire")') + QAt(Dequeuers, "count")'
  BY <1>3, <1>6 DEF CountsFollow
<1> QED
  BY <1>10, <1>11 DEF CountsFollow

LEMMA DequeueCounted ==
  ASSUME QueueInv, Types', NEW d \in Dequeuers,
         \A u \in QThreads : u # d => my'[u] = my[u],
         UNCHANGED <<linked, enqueueCount>>,
         Len(taken') - dequeueCount'
           = ((Len(taken) - dequeueCount) + Counting(my'[d].at)) - Counting(my[d].at)
  PROVE  CountsFollow'
<1>1. /\ \A u \in Enqueuers : u # d => my'[u].at = my[u].at
      /\ \A u \in Dequeuers : u # d => my'[u].at = my[u].at
      /\ d \notin Enqueuers
  BY QueueAssumption DEF QThreads
<1>2. /\ Len(taken) \in Nat /\ Len(taken') \in Nat /\ dequeueCount \in Nat
      /\ dequeueCount' \in Nat /\ my[d].at \in DequeueSteps /\ my'[d].at \in DequeueSteps
  BY DEF QueueInv, Types
<1>3. /\ QAt(Enqueuers, "swing")' = QAt(Enqueuers, "swing")
      /\ QAt(Enqueuers, "count")' = QAt(Enqueuers, "count")
  BY <1>1, CountMoves, QueueAssumption
<1>4. /\ QAt(Dequeuers, "retire") \in Nat /\ QAt(Dequeuers, "retire")' \in Nat
      /\ QAt(Dequeuers, "retire")'
           = (QAt(Dequeuers, "retire") - One(my[d].at, "retire")) + One(my'[d].at, "retire")
  BY <1>1, CountMoves, QueueAssumption
<1>5. /\ QAt(Dequeuers, "count") \in Nat /\ QAt(Dequeuers, "count")' \in Nat
      /\ QAt(Dequeuers, "count")'
           = (QAt(Dequeuers, "count") - One(my[d].at, "count")) + One(my'[d].at, "count")
  BY <1>1, CountMoves, QueueAssumption
<1>6. CountsFollow
  BY DEF QueueInv
<1>7. /\ Counting(my[d].at) = One(my[d].at, "retire") + One(my[d].at, "count")
      /\ Counting(my'[d].at) = One(my'[d].at, "retire") + One(my'[d].at, "count")
  BY <1>2 DEF Counting, One, DequeueSteps
<1>8. One(my[d].at, "retire") \in Nat /\ One(my[d].at, "count") \in Nat
      /\ One(my'[d].at, "retire") \in Nat /\ One(my'[d].at, "count") \in Nat
  BY DEF One
<1>9. Len(taken) = (dequeueCount + QAt(Dequeuers, "retire")) + QAt(Dequeuers, "count")
  BY <1>6 DEF CountsFollow
<1>10. Len(taken') = (dequeueCount' + QAt(Dequeuers, "retire")') + QAt(Dequeuers, "count")'
  <2> DEFINE len == Len(taken)   len1 == Len(taken')
             n == dequeueCount  n1 == dequeueCount'
             a == QAt(Dequeuers, "retire")   a1 == QAt(Dequeuers, "retire")'
             b == QAt(Dequeuers, "count")   b1 == QAt(Dequeuers, "count")'
             x == One(my[d].at, "retire")   x1 == One(my'[d].at, "retire")
             y == One(my[d].at, "count")   y1 == One(my'[d].at, "count")
  <2>1. /\ len \in Nat /\ len1 \in Nat /\ n \in Nat /\ n1 \in Nat /\ a \in Nat /\ a1 \in Nat
        /\ b \in Nat /\ b1 \in Nat /\ x \in Nat /\ x1 \in Nat /\ y \in Nat /\ y1 \in Nat
    BY <1>2, <1>4, <1>5, <1>8
  <2>2. len = (n + a) + b /\ a1 = (a - x) + x1 /\ b1 = (b - y) + y1
    BY <1>4, <1>5, <1>9
  <2>3. len1 - n1 = ((len - n) + (x1 + y1)) - (x + y)
    BY <1>7
  <2> HIDE DEF len, len1, n, n1, a, a1, b, b1, x, x1, y, y1
  <2>4. len1 = (n1 + a1) + b1
    BY ONLY <2>1, <2>2, <2>3
  <2> QED
    BY <2>4 DEF len1, n1, a1, b1
<1>11. Len(linked') = (enqueueCount' + QAt(Enqueuers, "swing")') + QAt(Enqueuers, "count")'
  BY <1>3, <1>6 DEF CountsFollow
<1> QED
  BY <1>10, <1>11 DEF CountsFollow

-------------------------------------------------------------------------------
\* A step in which an enqueuer changes nothing of the list.
LEMMA EnqueuerAlone ==
  ASSUME QueueInv, NEW e \in Enqueuers, UNCHANGED <<list, linked, taken, dequeueCount>>, Types',
         \A u \in QThreads : u # e => my'[u] = my[u],
         \A u \in Enqueuers : u # e => made'[u] = made[u],
         made'[e] >= made[e], EnqueuerKnows(e)',
         enqueueCount' = (enqueueCount + Counting(my[e].at)) - Counting(my'[e].at)
  PROVE  QueueInv'
<1>1. made \in [Enqueuers -> Nat] /\ enqueueCount \in Nat /\ Len(linked) \in Nat /\ linked' = linked
  BY DEF QueueInv, Types
<1>2. \A u \in Enqueuers : made'[u] >= made[u]
  BY <1>1
<1>3. Counting(my[e].at) \in Nat /\ Counting(my'[e].at) \in Nat
  BY DEF Counting
<1>4. CountsFollow'
  <2>1. Len(linked') - enqueueCount'
          = ((Len(linked) - enqueueCount) + Counting(my'[e].at)) - Counting(my[e].at)
    BY <1>1, <1>3
  <2> QED
    BY <2>1, EnqueueCounted
<1>5. /\ Chained' /\ EndsPlaced'
      /\ \A u \in Enqueuers : u # e => EnqueuerKnows(u)'
      /\ \A d \in Dequeuers : d # e => DequeuerKnows(d)'
  BY <1>2, PrivateKeeps
<1>6. Known'
  BY <1>5, QueueAssumption DEF Known
<1> QED
  BY <1>4, <1>5, <1>6 DEF QueueInv

LEMMA DequeuerAlone ==
  ASSUME QueueInv, NEW d \in Dequeuers, UNCHANGED <<list, linked, taken, enqueueCount, made>>, Types',
         \A u \in QThreads : u # d => my'[u] = my[u], DequeuerKnows(d)',
         dequeueCount' = (dequeueCount + Counting(my[d].at)) - Counting(my'[d].at)
  PROVE  QueueInv'
<1>1. made \in [Enqueuers -> Nat] /\ dequeueCount \in Nat /\ Len(taken) \in Nat /\ taken' = taken
  BY DEF QueueInv, Types
<1>2. \A u \in Enqueuers : made'[u] >= made[u]
  BY <1>1
<1>3. Counting(my[d].at) \in Nat /\ Counting(my'[d].at) \in Nat
  BY DEF Counting
<1>4. CountsFollow'
  <2>1. Len(taken') - dequeueCount'
          = ((Len(taken) - dequeueCount) + Counting(my'[d].at)) - Counting(my[d].at)
    BY <1>1, <1>3
  <2> QED
    BY <2>1, DequeueCounted
<1>5. /\ Chained' /\ EndsPlaced'
      /\ \A u \in Enqueuers : u # d => EnqueuerKnows(u)'
      /\ \A u \in Dequeuers : u # d => DequeuerKnows(u)'
  BY <1>2, PrivateKeeps
<1>6. Known'
  BY <1>5, QueueAssumption DEF Known
<1> QED
  BY <1>4, <1>5, <1>6 DEF QueueInv

\* A thread's record is replaced by another.
LEMMA MyMoves ==
  ASSUME Types, NEW t \in QThreads,
         NEW at \in IF t \in Enqueuers THEN EnqueueSteps ELSE DequeueSteps,
         NEW h \in Nodes \cup {Nil}, NEW q \in Nodes \cup {Nil}, NEW n \in Nodes \cup {Nil},
         my' = [my EXCEPT ![t] = [at |-> at, head |-> h, tail |-> q, next |-> n]]
  PROVE  /\ my' \in [QThreads -> [at : EnqueueSteps \cup DequeueSteps, head : Nodes \cup {Nil},
                                  tail : Nodes \cup {Nil}, next : Nodes \cup {Nil}]]
         /\ \A e \in Enqueuers : my'[e].at \in EnqueueSteps
         /\ \A d \in Dequeuers : my'[d].at \in DequeueSteps
         /\ my'[t] = [at |-> at, head |-> h, tail |-> q, next |-> n]
         /\ \A u \in QThreads : u # t => my'[u] = my[u]
<1>1. [at |-> at, head |-> h, tail |-> q, next |-> n] \in
        [at : EnqueueSteps \cup DequeueSteps, head : Nodes \cup {Nil},
         tail : Nodes \cup {Nil}, next : Nodes \cup {Nil}]
  OBVIOUS
<1>2. my'[t] = [at |-> at, head |-> h, tail |-> q, next |-> n]
      /\ \A u \in QThreads : u # t => my'[u] = my[u]
  BY DEF Types
<1>3. \A e \in Enqueuers : my'[e].at \in EnqueueSteps
  BY <1>2 DEF Types, QThreads
<1>4. \A d \in Dequeuers : my'[d].at \in DequeueSteps
  BY <1>2, QueueAssumption DEF Types, QThreads
<1> QED
  BY <1>1, <1>2, <1>3, <1>4 DEF Types

\* The record itself, for a step that changes some of its fields.
LEMMA MyRecord ==
  ASSUME Types, NEW t \in QThreads
  PROVE  /\ my[t] = [at |-> my[t].at, head |-> my[t].head, tail |-> my[t].tail, next |-> my[t].next]
         /\ my[t].head \in Nodes \cup {Nil} /\ my[t].tail \in Nodes \cup {Nil}
         /\ my[t].next \in Nodes \cup {Nil} /\ DOMAIN my = QThreads
         /\ t \in Enqueuers => my[t].at \in EnqueueSteps
         /\ t \in Dequeuers => my[t].at \in DequeueSteps
BY DEF Types

\* How the steps write records: one field and the step, the step alone, or all.
LEMMA TailSet ==
  ASSUME Types, NEW t \in QThreads, NEW at, NEW x, my' = [my EXCEPT ![t].tail = x, ![t].at = at]
  PROVE  my' = [my EXCEPT ![t] = [at |-> at, head |-> my[t].head, tail |-> x, next |-> my[t].next]]
<1> DEFINE f == [my EXCEPT ![t].tail = x, ![t].at = at]
           g == [my EXCEPT ![t] = [at |-> at, head |-> my[t].head, tail |-> x, next |-> my[t].next]]
<1>1. my[t] = [at |-> my[t].at, head |-> my[t].head, tail |-> my[t].tail, next |-> my[t].next]
      /\ t \in DOMAIN my /\ my' = f
  BY MyRecord
<1>2. f[t] = g[t]
  <2> DEFINE m == [my EXCEPT ![t].tail = x]
  <2>1. m[t] = [at |-> my[t].at, head |-> my[t].head, tail |-> x, next |-> my[t].next] /\ t \in DOMAIN m
    BY ONLY <1>1
  <2>2. f = [m EXCEPT ![t].at = at]
    OBVIOUS
  <2> HIDE DEF m, f
  <2>3. f[t] = [at |-> at, head |-> my[t].head, tail |-> x, next |-> my[t].next]
    BY ONLY <2>1, <2>2
  <2> QED
    BY <1>1, <2>3
<1>3. \A u \in DOMAIN my : u # t => f[u] = g[u]
  BY ONLY <1>1
<1>4. DOMAIN f = DOMAIN my /\ DOMAIN g = DOMAIN my
  BY ONLY <1>1
<1>5. f = [u \in DOMAIN f |-> f[u]] /\ g = [u \in DOMAIN g |-> g[u]]
  BY ONLY <1>1
<1> HIDE DEF f, g
<1>6. f = g
  BY ONLY <1>2, <1>3, <1>4, <1>5
<1>7. my' = g
  BY <1>1, <1>6
<1> QED
  BY <1>7 DEF g

LEMMA HeadSet ==
  ASSUME Types, NEW t \in QThreads, my' = [my EXCEPT ![t].head = qhead, ![t].at = "loadTail"]
  PROVE  my' = [my EXCEPT ![t] = [at |-> "loadTail", head |-> qhead, tail |-> my[t].tail, next |-> my[t].next]]
<1> DEFINE f == [my EXCEPT ![t].head = qhead, ![t].at = "loadTail"]
           g == [my EXCEPT ![t] = [at |-> "loadTail", head |-> qhead, tail |-> my[t].tail, next |-> my[t].next]]
<1>1. my[t] = [at |-> my[t].at, head |-> my[t].head, tail |-> my[t].tail, next |-> my[t].next]
      /\ t \in DOMAIN my /\ my' = f
  BY MyRecord
<1>2. f[t] = g[t]
  <2> DEFINE m == [my EXCEPT ![t].head = qhead]
  <2>1. m[t] = [at |-> my[t].at, head |-> qhead, tail |-> my[t].tail, next |-> my[t].next] /\ t \in DOMAIN m
    BY ONLY <1>1
  <2>2. f = [m EXCEPT ![t].at = "loadTail"]
    OBVIOUS
  <2> HIDE DEF m, f
  <2>3. f[t] = [at |-> "loadTail", head |-> qhead, tail |-> my[t].tail, next |-> my[t].next]
    BY ONLY <2>1, <2>2
  <2> QED
    BY <1>1, <2>3
<1>3. \A u \in DOMAIN my : u # t => f[u] = g[u]
  BY ONLY <1>1
<1>4. DOMAIN f = DOMAIN my /\ DOMAIN g = DOMAIN my
  BY ONLY <1>1
<1>5. f = [u \in DOMAIN f |-> f[u]] /\ g = [u \in DOMAIN g |-> g[u]]
  BY ONLY <1>1
<1> HIDE DEF f, g
<1>6. f = g
  BY ONLY <1>2, <1>3, <1>4, <1>5
<1>7. my' = g
  BY <1>1, <1>6
<1> QED
  BY <1>7 DEF g

LEMMA NextSet ==
  ASSUME Types, NEW t \in QThreads, NEW at, NEW x, my' = [my EXCEPT ![t].next = x, ![t].at = at]
  PROVE  my' = [my EXCEPT ![t] = [at |-> at, head |-> my[t].head, tail |-> my[t].tail, next |-> x]]
<1> DEFINE f == [my EXCEPT ![t].next = x, ![t].at = at]
           g == [my EXCEPT ![t] = [at |-> at, head |-> my[t].head, tail |-> my[t].tail, next |-> x]]
<1>1. my[t] = [at |-> my[t].at, head |-> my[t].head, tail |-> my[t].tail, next |-> my[t].next]
      /\ t \in DOMAIN my /\ my' = f
  BY MyRecord
<1>2. f[t] = g[t]
  <2> DEFINE m == [my EXCEPT ![t].next = x]
  <2>1. m[t] = [at |-> my[t].at, head |-> my[t].head, tail |-> my[t].tail, next |-> x] /\ t \in DOMAIN m
    BY ONLY <1>1
  <2>2. f = [m EXCEPT ![t].at = at]
    OBVIOUS
  <2> HIDE DEF m, f
  <2>3. f[t] = [at |-> at, head |-> my[t].head, tail |-> my[t].tail, next |-> x]
    BY ONLY <2>1, <2>2
  <2> QED
    BY <1>1, <2>3
<1>3. \A u \in DOMAIN my : u # t => f[u] = g[u]
  BY ONLY <1>1
<1>4. DOMAIN f = DOMAIN my /\ DOMAIN g = DOMAIN my
  BY ONLY <1>1
<1>5. f = [u \in DOMAIN f |-> f[u]] /\ g = [u \in DOMAIN g |-> g[u]]
  BY ONLY <1>1
<1> HIDE DEF f, g
<1>6. f = g
  BY ONLY <1>2, <1>3, <1>4, <1>5
<1>7. my' = g
  BY <1>1, <1>6
<1> QED
  BY <1>7 DEF g

LEMMA StepSet ==
  ASSUME Types, NEW t \in QThreads, NEW at, my' = [my EXCEPT ![t].at = at]
  PROVE  my' = [my EXCEPT ![t] = [at |-> at, head |-> my[t].head, tail |-> my[t].tail, next |-> my[t].next]]
<1> DEFINE f == [my EXCEPT ![t].at = at]
           g == [my EXCEPT ![t] = [at |-> at, head |-> my[t].head, tail |-> my[t].tail, next |-> my[t].next]]
<1>1. my[t] = [at |-> my[t].at, head |-> my[t].head, tail |-> my[t].tail, next |-> my[t].next]
      /\ t \in DOMAIN my /\ my' = f
  BY MyRecord
<1>2. f[t] = g[t]
  BY ONLY <1>1
<1>3. \A u \in DOMAIN my : u # t => f[u] = g[u]
  BY ONLY <1>1
<1>4. DOMAIN f = DOMAIN my /\ DOMAIN g = DOMAIN my
  BY ONLY <1>1
<1>5. f = [u \in DOMAIN f |-> f[u]] /\ g = [u \in DOMAIN g |-> g[u]]
  BY ONLY <1>1
<1> HIDE DEF f, g
<1>6. f = g
  BY ONLY <1>2, <1>3, <1>4, <1>5
<1>7. my' = g
  BY <1>1, <1>6
<1> QED
  BY <1>7 DEF g

LEMMA AllSet ==
  ASSUME NEW at
  PROVE  [Resting EXCEPT !.at = at] = [at |-> at, head |-> Nil, tail |-> Nil, next |-> Nil]
BY DEF Resting

-------------------------------------------------------------------------------
\* An Enqueue begins: the node is new, since earlier ones have lower numbers.
LEMMA EnqueueKeeps ==
  ASSUME QueueInv, NEW e \in Enqueuers, Enqueue(e)
  PROVE  QueueInv'
<1>1. /\ my[e].at = "idle" /\ made[e] < MaxNodes[e] /\ made' = [made EXCEPT ![e] = @ + 1]
      /\ my' = [my EXCEPT ![e] = [at |-> "loadTail", head |-> Nil, tail |-> Nil, next |-> Nil]]
      /\ UNCHANGED <<list, counts, linked, taken>>
  BY AllSet DEF Enqueue, Does, Afresh, QueueInv, QThreads
<1>2. UNCHANGED <<link, linked, taken, retired, enqueueCount, dequeueCount>>
  BY <1>1 DEF list, counts
<1>3. made \in [Enqueuers -> Nat] /\ MaxNodes[e] \in Nat
  BY QueueAssumption DEF QueueInv, Types
<1>4. made' \in [Enqueuers -> Nat] /\ made'[e] = made[e] + 1
      /\ \A u \in Enqueuers : u # e => made'[u] = made[u]
  BY <1>1, <1>3
<1>5. my'[e] = [at |-> "loadTail", head |-> Nil, tail |-> Nil, next |-> Nil]
      /\ \A u \in QThreads : u # e => my'[u] = my[u]
  BY <1>1, MyMoves DEF QueueInv, QThreads, EnqueueSteps
<1>6. Types'
  <2>1. \A u \in Enqueuers : made'[u] <= MaxNodes[u]
    BY <1>1, <1>3, <1>4 DEF QueueInv, Types
  <2> QED
    BY <1>1, <1>2, <1>4, <2>1, MyMoves DEF QueueInv, Types, QThreads, EnqueueSteps
<1>7. ~OnList(linked', <<e, made'[e]>>)
  <2>1. <<e, made'[e]>> # Dummy
    BY <1>3, <1>4 DEF Dummy
  <2>2. ASSUME NEW i \in DOMAIN linked PROVE linked[i] # <<e, made'[e]>>
    <3>1. PICK f \in Enqueuers : \E k \in 1..made[f] : linked[i] = <<f, k>>
      BY DEF QueueInv, Chained
    <3> QED
      BY <1>3, <1>4, <3>1
  <2>3. Len(linked) \in Nat /\ DOMAIN linked = 1..Len(linked)
    BY DEF QueueInv, Types
  <2>4. ASSUME NEW i \in 0..Len(linked) PROVE Nth(linked, i) # <<e, made'[e]>>
    <3>1. CASE i = 0
      BY <2>1, <3>1 DEF Nth
    <3>2. CASE i # 0
      <4>1. i \in DOMAIN linked
        BY <2>3, <3>2
      <4> QED
        BY <2>2, <3>2, <4>1 DEF Nth
    <3> QED
      BY <3>1, <3>2
  <2> QED
    BY <1>2, <2>4 DEF OnList
<1>8. EnqueuerKnows(e)'
  BY <1>3, <1>4, <1>5, <1>7 DEF EnqueuerKnows, Node
<1>9. enqueueCount' = (enqueueCount + Counting(my[e].at)) - Counting(my'[e].at)
  BY <1>1, <1>2, <1>5 DEF Counting, QueueInv, Types
<1> QED
  BY <1>1, <1>2, <1>3, <1>4, <1>5, <1>6, <1>8, <1>9, EnqueuerAlone

\* A thread changes its own record and, at the end of a call, the counter.
LEMMA EnqueuerRecord ==
  ASSUME QueueInv, NEW e \in Enqueuers, NEW at \in EnqueueSteps,
         NEW q \in Nodes \cup {Nil}, NEW n \in Nodes \cup {Nil},
         my' = [my EXCEPT ![e] = [at |-> at, head |-> my[e].head, tail |-> q, next |-> n]]
           \/ my' = [my EXCEPT ![e] = [at |-> at, head |-> Nil, tail |-> q, next |-> n]],
         UNCHANGED <<list, linked, taken, made, retired, dequeueCount>>,
         enqueueCount' = (enqueueCount + Counting(my[e].at)) - Counting(at), enqueueCount' \in Nat,
         at \in {"loadNext", "check", "link", "help", "swing"} => Reaches(linked, q, qtail),
         at = "check" /\ n # Nil => link[q] = n,
         at = "help" => n # Nil /\ link[q] = n,
         at # "swing",
         at \in {"loadTail", "loadNext", "check", "link", "help"} =>
           my[e].at \in {"loadTail", "loadNext", "check", "link", "help"}
  PROVE  QueueInv'
<1>1. PICK h \in Nodes \cup {Nil} :
        my' = [my EXCEPT ![e] = [at |-> at, head |-> h, tail |-> q, next |-> n]]
  BY MyRecord DEF QueueInv, QThreads
<1>2. /\ my' \in [QThreads -> [at : EnqueueSteps \cup DequeueSteps, head : Nodes \cup {Nil},
                               tail : Nodes \cup {Nil}, next : Nodes \cup {Nil}]]
      /\ \A u \in Enqueuers : my'[u].at \in EnqueueSteps
      /\ \A d \in Dequeuers : my'[d].at \in DequeueSteps
      /\ my'[e] = [at |-> at, head |-> h, tail |-> q, next |-> n]
      /\ \A u \in QThreads : u # e => my'[u] = my[u]
  BY <1>1, MyMoves DEF QueueInv, QThreads
<1>3. UNCHANGED <<qtail, link, linked, taken, made, retired, dequeueCount>>
  BY DEF list
<1>4. Types'
  BY <1>2, <1>3 DEF QueueInv, Types
<1>5. my'[e].at = at /\ my'[e].tail = q /\ my'[e].next = n
  BY <1>2
<1>6. EnqueuerKnows(e)'
  BY <1>3, <1>5 DEF EnqueuerKnows, Node, QueueInv, Known, EnqueueSteps
<1>7. made'[e] >= made[e] /\ \A u \in Enqueuers : u # e => made'[u] = made[u]
  BY <1>3 DEF QueueInv, Types
<1> QED
  BY <1>2, <1>3, <1>4, <1>5, <1>6, <1>7, EnqueuerAlone

LEMMA EnqueuerLooks ==
  ASSUME QueueInv, NEW e \in Enqueuers,
         LoadQTail(e) \/ LoadNext(e) \/ CheckTail(e) \/ CountEnqueue(e)
  PROVE  QueueInv'
<1>1. /\ my[e] = [at |-> my[e].at, head |-> my[e].head, tail |-> my[e].tail, next |-> my[e].next]
      /\ my[e].head \in Nodes \cup {Nil} /\ my[e].tail \in Nodes \cup {Nil}
      /\ my[e].next \in Nodes \cup {Nil} /\ DOMAIN my = QThreads /\ my[e].at \in EnqueueSteps
      /\ e \in QThreads
  BY MyRecord DEF QueueInv, QThreads
<1>2. /\ OnList(linked, qtail) /\ qtail \in Nodes /\ Reaches(linked, qtail, qtail)
      /\ enqueueCount \in Nat /\ link \in [Nodes -> Nodes \cup {Nil}] /\ EnqueuerKnows(e)
  BY EndsOnList, ReachedOnList DEF QueueInv, Types, Known
<1>3. CASE LoadQTail(e)
  <2>1. my[e].at = "loadTail" /\ UNCHANGED <<list, linked, taken, made, retired, enqueueCount, dequeueCount>>
    BY <1>3 DEF LoadQTail, Does, counts
  <2>2. my' = [my EXCEPT ![e] = [at |-> "loadNext", head |-> my[e].head, tail |-> qtail, next |-> my[e].next]]
    <3>1. my' = [my EXCEPT ![e].tail = qtail, ![e].at = "loadNext"] /\ Types /\ e \in QThreads
      BY <1>1, <1>3 DEF LoadQTail, QueueInv
    <3> QED
      BY ONLY <3>1, TailSet
  <2>3. enqueueCount' = (enqueueCount + Counting(my[e].at)) - Counting("loadNext") /\ enqueueCount' \in Nat
    BY <1>2, <2>1 DEF Counting
  <2> QED
    BY <1>1, <1>2, <2>1, <2>2, <2>3, EnqueuerRecord DEF EnqueueSteps
<1>4. CASE LoadNext(e)
  <2>1. my[e].at = "loadNext" /\ UNCHANGED <<list, linked, taken, made, retired, enqueueCount, dequeueCount>>
    BY <1>4 DEF LoadNext, Does, counts
  <2>2. Reaches(linked, my[e].tail, qtail)
    BY <1>2, <2>1 DEF EnqueuerKnows
  <2>3. my[e].tail \in Nodes
    <3>1. \A i \in 0..Len(linked) : Nth(linked, i) \in Nodes
      BY NodeFacts DEF Nth, QueueInv, Types
    <3> QED
      BY <2>2, <3>1 DEF Reaches
  <2> DEFINE n == link[my[e].tail]
  <2>4. my' = [my EXCEPT ![e] = [at |-> "check", head |-> my[e].head, tail |-> my[e].tail, next |-> n]]
    <3>1. my' = [my EXCEPT ![e].next = n, ![e].at = "check"] /\ Types /\ e \in QThreads
      BY <1>1, <1>4 DEF LoadNext, QueueInv
    <3> HIDE DEF n
    <3> QED
      BY ONLY <3>1, NextSet
  <2>5. n \in Nodes \cup {Nil}
    BY <1>2, <2>3
  <2>6. enqueueCount' = (enqueueCount + Counting(my[e].at)) - Counting("check") /\ enqueueCount' \in Nat
    BY <1>2, <2>1 DEF Counting
  <2>7. "check" \in EnqueueSteps /\ my[e].tail \in Nodes \cup {Nil}
    BY <2>3 DEF EnqueueSteps
  <2> HIDE DEF n
  <2> DEFINE q == my[e].tail
  <2>8. link[q] = n /\ q \in Nodes \cup {Nil} /\ Reaches(linked, q, qtail)
        /\ my' = [my EXCEPT ![e] = [at |-> "check", head |-> my[e].head, tail |-> q, next |-> n]]
    BY <2>2, <2>4, <2>7 DEF n
  <2> HIDE DEF q
  <2>9. my[e].at \in {"loadTail", "loadNext", "check", "link", "help"}
    BY <2>1
  <2> QED
    BY <2>1, <2>5, <2>6, <2>7, <2>8, <2>9, EnqueuerRecord
<1>5. CASE CheckTail(e)
  <2>1. my[e].at = "check" /\ UNCHANGED <<list, linked, taken, made, retired, enqueueCount, dequeueCount>>
    BY <1>5 DEF CheckTail, Does, counts
  <2>2. \A at \in {"loadTail", "link", "help"} :
          enqueueCount' = (enqueueCount + Counting(my[e].at)) - Counting(at) /\ enqueueCount' \in Nat
    BY <1>2, <2>1 DEF Counting
  <2>3. CASE qtail # my[e].tail
    <3>1. my' = [my EXCEPT ![e] = [at |-> "loadTail", head |-> Nil, tail |-> Nil, next |-> Nil]]
      BY <1>1, <1>5, <2>3, AllSet DEF CheckTail, Afresh, QueueInv
    <3> QED
      BY <2>1, <2>2, <3>1, EnqueuerRecord DEF EnqueueSteps
  <2>4. CASE qtail = my[e].tail
    <3> DEFINE at == IF my[e].next = Nil THEN "link" ELSE "help"
    <3>1. my' = [my EXCEPT ![e] = [at |-> at, head |-> my[e].head, tail |-> my[e].tail, next |-> my[e].next]]
      BY <1>1, <1>5, <2>4, StepSet DEF CheckTail, Then, QueueInv
    <3>2. at \in {"link", "help"} /\ (at = "help" => my[e].next # Nil)
      OBVIOUS
    <3>3. my[e].next # Nil => link[my[e].tail] = my[e].next
      BY <1>2, <2>1 DEF EnqueuerKnows
    <3>4. Reaches(linked, my[e].tail, qtail)
      BY <1>2, <2>1 DEF EnqueuerKnows
    <3> HIDE DEF at
    <3> QED
      BY <1>1, <2>1, <2>2, <3>1, <3>2, <3>3, <3>4, EnqueuerRecord DEF EnqueueSteps
  <2> QED
    BY <2>3, <2>4
<1>6. CASE CountEnqueue(e)
  <2>1. my[e].at = "count" /\ UNCHANGED <<list, linked, taken, made, retired, dequeueCount>>
        /\ enqueueCount' = enqueueCount + 1
        /\ my' = [my EXCEPT ![e] = [at |-> "idle", head |-> Nil, tail |-> Nil, next |-> Nil]]
    BY <1>1, <1>6, AllSet DEF CountEnqueue, Does, Afresh, QueueInv, list
  <2>2. enqueueCount' = (enqueueCount + Counting(my[e].at)) - Counting("idle") /\ enqueueCount' \in Nat
    BY <1>2, <2>1 DEF Counting
  <2> QED
    BY <2>1, <2>2, EnqueuerRecord DEF EnqueueSteps
<1> QED
  BY <1>3, <1>4, <1>5, <1>6

\* A node that has a successor is not the last one, and the successor follows.
LEMMA Successor ==
  ASSUME QueueInv, NEW i \in 0..Len(linked)
  PROVE  /\ link[Nth(linked, i)] # Nil <=> i < Len(linked)
         /\ i < Len(linked) => link[Nth(linked, i)] = Nth(linked, i + 1)
         /\ Nth(linked, i) \in Nodes
<1>0. Types /\ Chained
  BY DEF QueueInv
<1>1. /\ linked \in Seq(Nodes \ {Dummy}) /\ Len(linked) \in Nat
      /\ link[Nth(linked, i)] = IF i < Len(linked) THEN linked[i + 1] ELSE Nil
  <2>1. linked \in Seq(Nodes \ {Dummy}) /\ Len(linked) \in Nat
    BY <1>0 DEF Types
  <2> QED
    BY ONLY <1>0, <2>1, i \in 0..Len(linked) DEF Chained
<1>2. i < Len(linked) => linked[i + 1] \in Nodes /\ linked[i + 1] # Nil
  BY <1>1, NodeFacts
<1>3. Nth(linked, i) \in Nodes
  BY <1>1, NodeFacts DEF Nth
<1>4. Nth(linked, i + 1) = linked[i + 1]
  BY DEF Nth
<1> QED
  BY <1>1, <1>2, <1>3, <1>4

\* A node is linked behind the last one, which tail was and still is.
LEMMA LinkKeeps ==
  ASSUME QueueInv, NEW e \in Enqueuers, Link(e)
  PROVE  QueueInv'
<1> DEFINE last == my[e].tail   node == Node(e)
<1>1. my[e].at = "link" /\ EnqueuerKnows(e) /\ Types /\ e \in QThreads
  BY DEF Link, Does, QueueInv, Known, QThreads
<1>2. Reaches(linked, last, qtail) /\ ~OnList(linked, node) /\ made[e] > 0
  BY <1>1 DEF EnqueuerKnows
<1>3. /\ linked \in Seq(Nodes \ {Dummy}) /\ Len(linked) \in Nat /\ enqueueCount \in Nat
      /\ link \in [Nodes -> Nodes \cup {Nil}] /\ made \in [Enqueuers -> Nat] /\ made[e] <= MaxNodes[e]
      /\ Distinct(linked) /\ my[e].head \in Nodes \cup {Nil} /\ my[e].tail \in Nodes \cup {Nil}
      /\ my[e].next \in Nodes \cup {Nil}
  BY <1>1, MyRecord DEF QueueInv, Types, Chained
<1>4. node \in Nodes /\ node # Dummy /\ node # Nil
  BY <1>2, <1>3, NodeFacts DEF Node
<1>5. CASE link[last] # Nil
  <2>1. my' = [my EXCEPT ![e] = [at |-> "loadTail", head |-> Nil, tail |-> Nil, next |-> Nil]]
    BY <1>5, AllSet DEF Link, Afresh
  <2>2. UNCHANGED <<list, linked, taken, made, retired, enqueueCount, dequeueCount>>
    BY <1>5 DEF Link, list, counts
  <2>3. enqueueCount' = (enqueueCount + Counting(my[e].at)) - Counting("loadTail") /\ enqueueCount' \in Nat
    BY <1>1, <1>3, <2>2 DEF Counting
  <2> QED
    BY <1>1, <2>1, <2>2, <2>3, EnqueuerRecord DEF EnqueueSteps
<1>6. CASE link[last] = Nil
  <2>1. /\ link' = [link EXCEPT ![last] = node] /\ linked' = Append(linked, node)
        /\ my' = [my EXCEPT ![e].at = "swing"]
        /\ UNCHANGED <<qhead, qtail, taken, made, retired, enqueueCount, dequeueCount>>
    BY <1>6 DEF Link, Then, counts
  <2>2. my' = [my EXCEPT ![e] = [at |-> "swing", head |-> my[e].head, tail |-> last, next |-> my[e].next]]
    BY <1>1, <2>1, StepSet
  <2> HIDE DEF last, node
  <2>3. last \in Nodes \cup {Nil}
    BY <1>3 DEF last
  <2>4. /\ my' \in [QThreads -> [at : EnqueueSteps \cup DequeueSteps, head : Nodes \cup {Nil},
                                 tail : Nodes \cup {Nil}, next : Nodes \cup {Nil}]]
        /\ \A u \in Enqueuers : my'[u].at \in EnqueueSteps
        /\ \A d \in Dequeuers : my'[d].at \in DequeueSteps
        /\ my'[e] = [at |-> "swing", head |-> my[e].head, tail |-> last, next |-> my[e].next]
        /\ \A u \in QThreads : u # e => my'[u] = my[u]
    <3>1. "swing" \in IF e \in Enqueuers THEN EnqueueSteps ELSE DequeueSteps
      BY DEF EnqueueSteps
    <3>2. Types /\ e \in QThreads /\ my[e].head \in Nodes \cup {Nil} /\ my[e].next \in Nodes \cup {Nil}
      BY <1>1, <1>3
    <3> QED
      BY ONLY <2>2, <2>3, <3>1, <3>2, MyMoves
  <2>5. last = Nth(linked, Len(linked)) /\ qtail = last /\ last \in Nodes
    <3>1. PICK i \in 0..Len(linked), j \in 0..Len(linked) :
            i <= j /\ last = Nth(linked, i) /\ qtail = Nth(linked, j)
      BY <1>2 DEF Reaches
    <3>2. i = Len(linked)
      BY <1>3, <1>6, <3>1, Successor
    <3>3. j = Len(linked)
      BY <1>3, <3>1, <3>2
    <3> QED
      BY <3>1, <3>2, <3>3, Successor
  <2>6. linked' \in Seq(Nodes \ {Dummy}) /\ Len(linked') = Len(linked) + 1
        /\ linked'[Len(linked) + 1] = node /\ \A i \in 1..Len(linked) : linked'[i] = linked[i]
    BY <1>3, <1>4, <2>1
  <2>7. Types'
    <3>1. link' \in [Nodes -> Nodes \cup {Nil}]
      BY <1>3, <1>4, <2>1
    <3> QED
      BY <2>1, <2>4, <2>6, <3>1 DEF QueueInv, Types
  <2>8. \A i \in 0..Len(linked) : Nth(linked', i) = Nth(linked, i)
    BY <2>6 DEF Nth
  <2>9. Nth(linked', Len(linked) + 1) = node
    BY <1>3, <2>6 DEF Nth
  <2>10. \A i \in 0..Len(linked) : Nth(linked, i) # node
    BY <1>2 DEF OnList, node
  <2>11. Chained'
    <3>1. Distinct(linked')
      <4> SUFFICES ASSUME NEW i \in 1..Len(linked'), NEW j \in 1..Len(linked'), i < j
                   PROVE  linked'[i] # linked'[j]
        BY <2>6 DEF Distinct
      <4>1. i \in 1..Len(linked) /\ linked'[i] = linked[i] /\ linked[i] # node
        BY <1>3, <2>6, <2>10 DEF Nth
      <4>2. CASE j = Len(linked) + 1
        BY <2>6, <4>1, <4>2
      <4>3. CASE j # Len(linked) + 1
        <5>1. j \in 1..Len(linked)
          BY ONLY <1>3, <2>6, <4>3, j \in 1..Len(linked')
        <5>2. linked'[j] = linked[j]
          BY ONLY <2>6, <5>1
        <5> QED
          BY <1>3, <4>1, <5>1, <5>2 DEF Distinct
      <4> QED
        BY <4>2, <4>3
    <3>2. ASSUME NEW i \in 0..Len(linked')
          PROVE  link'[Nth(linked', i)] = IF i < Len(linked') THEN linked'[i + 1] ELSE Nil
      <4>1. CASE i < Len(linked)
        <5>1. i \in 0..Len(linked) /\ Nth(linked, i) # last
          <6>1. i \in 0..Len(linked) /\ Len(linked) \in 0..Len(linked)
            BY <1>3, <4>1
          <6> QED
            BY <1>3, <2>5, <4>1, <6>1, OnePlace
        <5>2. link'[Nth(linked, i)] = linked[i + 1]
          BY <1>3, <2>1, <4>1, <5>1, Successor DEF Nth
        <5>3. i + 1 \in 1..Len(linked) /\ i < Len(linked')
          BY <1>3, <2>6, <4>1
        <5> QED
          BY <2>6, <2>8, <5>1, <5>2, <5>3
      <4>2. CASE i = Len(linked)
        <5>1. link'[last] = node
          BY <1>3, <2>1, <2>5
        <5> QED
          BY <1>3, <2>5, <2>6, <2>8, <4>2, <5>1
      <4>3. CASE i = Len(linked) + 1
        <5>1. node # last /\ link[node] = Nil
          BY <1>2, <1>3, <1>4, <2>5, <2>10 DEF QueueInv, Chained, node
        <5>2. link'[node] = Nil
          BY <1>3, <1>4, <2>1, <5>1
        <5> QED
          BY <1>3, <2>6, <2>9, <4>3, <5>2
      <4> QED
        BY <1>3, <2>6, <4>1, <4>2, <4>3
    <3>3. ASSUME NEW x \in Nodes, ~OnList(linked', x) PROVE link'[x] = Nil
      <4>1. Len(linked) \in 0..Len(linked') /\ Len(linked) + 1 \in 0..Len(linked')
            /\ 0..Len(linked) \subseteq 0..Len(linked')
        BY <1>3, <2>6
      <4>2. x # last /\ ~OnList(linked, x)
        BY <1>3, <2>5, <2>8, <3>3, <4>1 DEF OnList
      <4> QED
        BY <1>3, <2>1, <4>2 DEF QueueInv, Chained
    <3>4. ASSUME NEW i \in DOMAIN linked'
          PROVE  \E f \in Enqueuers : \E k \in 1..made'[f] : linked'[i] = <<f, k>>
      <4>1. CASE i = Len(linked) + 1
        <5>1. made[e] \in 1..made'[e] /\ linked'[i] = <<e, made[e]>>
          BY <1>2, <1>3, <2>1, <2>6, <4>1 DEF Node, node
        <5> QED
          BY <5>1
      <4>2. CASE i # Len(linked) + 1
        <5>1. i \in DOMAIN linked /\ linked'[i] = linked[i]
          BY <1>3, <2>6, <4>2
        <5> QED
          BY <2>1, <5>1 DEF QueueInv, Chained
      <4> QED
        BY <4>1, <4>2
    <3> QED
      BY <3>1, <3>2, <3>3, <3>4 DEF Chained
  <2>12. EndsPlaced'
    <3>1. Len(taken) <= Len(linked) /\ Len(taken) \in Nat
          /\ (\A i \in DOMAIN taken : taken[i] = linked[i]) /\ qhead = Nth(linked, Len(taken))
      BY DEF QueueInv, Types, EndsPlaced
    <3>2. \A i \in DOMAIN taken : taken[i] = linked'[i]
      <4>1. DOMAIN taken \subseteq 1..Len(linked)
        BY <1>3, <3>1 DEF QueueInv, Types
      <4> QED
        BY <2>6, <3>1, <4>1
    <3>3. qhead' = Nth(linked', Len(taken))
      BY <1>3, <2>1, <2>8, <3>1
    <3>4. qtail' = Nth(linked', Len(linked)) /\ Len(linked) = Len(linked') - 1
      BY <1>3, <2>1, <2>5, <2>6, <2>8
    <3> QED
      BY <1>3, <2>1, <2>6, <3>1, <3>2, <3>3, <3>4 DEF EndsPlaced
  <2>13. /\ \A u \in Enqueuers : u # e => EnqueuerKnows(u)'
         /\ \A d \in Dequeuers : d # e => DequeuerKnows(d)'
    <3>1. \A u \in Enqueuers : u # e => node # Node(u) /\ made'[u] = made[u]
      BY <2>1 DEF Node, node
    <3>2. \A x \in Nodes : link[x] # Nil => link'[x] = link[x]
      BY <1>3, <1>6, <2>1
    <3>3. Reaches(linked', qhead, qhead') /\ Reaches(linked', qtail, qtail')
      BY <1>3, <1>4, <2>1, EndsOnList, ReachedOnList, ReachesLonger DEF QueueInv
    <3>4. Distinct(linked')
      BY <2>11 DEF Chained
    <3> QED
      BY <1>4, <2>1, <2>4, <2>7, <3>1, <3>2, <3>3, <3>4, OthersKnow
  <2>14. EnqueuerKnows(e)'
    <3>1. my'[e].at = "swing" /\ my'[e].tail = last /\ qtail' = last
      BY <2>1, <2>4, <2>5
    <3>2. Reaches(linked', last, qtail')
      BY <1>3, <1>4, <2>1, <2>5, EndsOnList, ReachedOnList, ReachesLonger DEF QueueInv
    <3>3. link'[last] = <<e, made'[e]>> /\ made'[e] > 0
      BY <1>2, <1>3, <2>1, <2>5 DEF Node, node
    <3> QED
      BY <3>1, <3>2, <3>3 DEF EnqueuerKnows, Node
  <2>15. CountsFollow'
    <3>1. Counting(my[e].at) = 0 /\ Counting(my'[e].at) = 1
      BY <1>1, <2>4 DEF Counting
    <3>2. Len(linked') - enqueueCount'
            = ((Len(linked) - enqueueCount) + Counting(my'[e].at)) - Counting(my[e].at)
      BY <1>3, <2>1, <2>6, <3>1
    <3> QED
      BY <2>1, <2>4, <2>7, <3>2, EnqueueCounted
  <2>16. Known'
    BY <2>13, <2>14, QueueAssumption DEF Known
  <2> QED
    BY <2>7, <2>11, <2>12, <2>15, <2>16 DEF QueueInv
<1> QED
  BY <1>5, <1>6

-------------------------------------------------------------------------------
\* Tail is moved on to the successor of the node it was at.
LEMMA TailMoves ==
  ASSUME QueueInv, NEW t, link[qtail] # Nil, qtail' = link[qtail],
         UNCHANGED <<qhead, link, linked, taken, made>>, Types',
         \A u \in QThreads : u # t => my'[u] = my[u]
  PROVE  /\ Chained' /\ EndsPlaced'
         /\ \A e \in Enqueuers : e # t => EnqueuerKnows(e)'
         /\ \A d \in Dequeuers : d # t => DequeuerKnows(d)'
<1>1. Len(linked) \in Nat /\ Len(taken) \in Nat /\ Len(taken) <= Len(linked) /\ Distinct(linked)
  BY DEF QueueInv, Types, EndsPlaced, Chained
<1>2. PICK k \in {Len(linked) - 1, Len(linked)} : k >= Len(taken) /\ qtail = Nth(linked, k)
  BY DEF QueueInv, EndsPlaced
<1>3. k \in 0..Len(linked) /\ k < Len(linked) /\ qtail' = Nth(linked, k + 1)
  BY <1>1, <1>2, Successor
<1>4. k + 1 = Len(linked) /\ qtail' = Nth(linked, Len(linked))
  BY <1>1, <1>2, <1>3
<1>5. Chained'
  BY DEF QueueInv, Chained
<1>6. EndsPlaced'
  BY <1>1, <1>4 DEF QueueInv, EndsPlaced
<1>7. Reaches(linked', qtail, qtail') /\ Reaches(linked', qhead, qhead')
  <2>1. Reaches(linked, qhead, qhead)
    BY <1>1, EndsOnList, ReachedOnList DEF QueueInv
  <2>2. Reaches(linked, qtail, qtail')
    BY <1>1, <1>2, <1>3, <1>4 DEF Reaches
  <2> QED
    BY <2>1, <2>2
<1> QED
  BY <1>1, <1>5, <1>6, <1>7, OthersKnow

\* An enqueuer that has linked its node, or found tail behind, moves tail on.
LEMMA EnqueuerHelps ==
  ASSUME QueueInv, NEW e \in Enqueuers, Swing(e) \/ Help(e)
  PROVE  QueueInv'
<1> DEFINE node == link[my[e].tail]
           at == IF my[e].at = "swing" THEN "count" ELSE "loadTail"
<1>1. /\ my[e].at \in {"swing", "help"} /\ EnqueuerKnows(e) /\ Types /\ e \in QThreads
      /\ at \in EnqueueSteps
  BY DEF Swing, Help, Does, QueueInv, Known, QThreads, EnqueueSteps
<1>2. node # Nil /\ Reaches(linked, my[e].tail, qtail)
  <2>1. MaxNodes[e] \in Nat /\ made[e] \in Nat /\ made[e] <= MaxNodes[e]
    BY QueueAssumption DEF QueueInv, Types
  <2>2. made[e] > 0 => Node(e) # Nil
    BY <2>1, NodeFacts DEF Node
  <2> QED
    BY <1>1, <2>2 DEF EnqueuerKnows
<1>3. /\ qtail' = (IF qtail = my[e].tail THEN node ELSE qtail)
      /\ UNCHANGED <<qhead, link, linked, taken, made, retired, enqueueCount, dequeueCount>>
  BY <1>1 DEF Swing, Help, Does, counts, EnqueuerKnows
<1>4. my' = [my EXCEPT ![e] = [at |-> at, head |-> Nil, tail |-> Nil, next |-> Nil]]
  BY AllSet DEF Swing, Help, Does, Afresh
<1>5. enqueueCount' = (enqueueCount + Counting(my[e].at)) - Counting(at) /\ enqueueCount' \in Nat
  BY <1>1, <1>3 DEF Counting, Types
<1> HIDE DEF node, at
<1>6. CASE qtail # my[e].tail
  <2>1. UNCHANGED list
    BY <1>3, <1>6 DEF list
  <2>2. at \in {"count", "loadTail"} /\ (at = "loadTail" => my[e].at = "help")
    BY <1>1 DEF at
  <2> QED
    BY <1>1, <1>3, <1>4, <1>5, <2>1, <2>2, EnqueuerRecord
<1>7. CASE qtail = my[e].tail
  <2>1. /\ my' \in [QThreads -> [at : EnqueueSteps \cup DequeueSteps, head : Nodes \cup {Nil},
                                 tail : Nodes \cup {Nil}, next : Nodes \cup {Nil}]]
        /\ \A u \in Enqueuers : my'[u].at \in EnqueueSteps
        /\ \A d \in Dequeuers : my'[d].at \in DequeueSteps
        /\ my'[e] = [at |-> at, head |-> Nil, tail |-> Nil, next |-> Nil]
        /\ \A u \in QThreads : u # e => my'[u] = my[u]
    <3>1. at \in IF e \in Enqueuers THEN EnqueueSteps ELSE DequeueSteps
      BY <1>1
    <3> QED
      BY <1>1, <1>4, <3>1, MyMoves
  <2>2. Types'
    BY <1>3, <2>1 DEF QueueInv, Types
  <2>3. /\ Chained' /\ EndsPlaced'
        /\ \A u \in Enqueuers : u # e => EnqueuerKnows(u)'
        /\ \A d \in Dequeuers : d # e => DequeuerKnows(d)'
    BY <1>2, <1>3, <1>7, <2>1, <2>2, TailMoves DEF node
  <2>4. EnqueuerKnows(e)'
    <3>1. my'[e].at \in {"count", "loadTail"} /\ (my'[e].at = "loadTail" => my[e].at = "help")
      BY <1>1, <2>1 DEF at
    <3>2. Node(e)' = Node(e) /\ linked' = linked /\ made'[e] = made[e]
      BY <1>3 DEF Node
    <3> QED
      BY <1>1, <3>1, <3>2 DEF EnqueuerKnows
  <2>5. CountsFollow'
    <3>1. Counting(my[e].at) = Counting(my'[e].at) /\ Counting(my[e].at) \in Nat
      BY <1>1, <2>1 DEF Counting, at
    <3>2. Len(linked') - enqueueCount'
            = ((Len(linked) - enqueueCount) + Counting(my'[e].at)) - Counting(my[e].at)
      BY <1>1, <1>3, <3>1 DEF Types
    <3> QED
      BY <1>3, <2>1, <2>2, <3>2, EnqueueCounted
  <2>6. Known'
    BY <2>3, <2>4, QueueAssumption DEF Known
  <2> QED
    BY <2>2, <2>3, <2>5, <2>6 DEF QueueInv
<1> QED
  BY <1>6, <1>7

-------------------------------------------------------------------------------
\* A dequeuer changes its own record and, at the end of a call, what it counts.
DequeuerRecords ==
  [at : DequeueSteps, head : Nodes \cup {Nil}, tail : Nodes \cup {Nil}, next : Nodes \cup {Nil}]
DequeuerSees(r) ==
  /\ r.at \in {"loadTail", "loadNext", "check", "help", "take"} => Reaches(linked, r.head, qhead)
  /\ r.at \in {"loadNext", "check", "help", "take"} =>
       Reaches(linked, r.head, r.tail) /\ Reaches(linked, r.tail, qtail)
  /\ r.at \in {"check", "help", "take"} =>
       (r.next # Nil => link[r.head] = r.next) /\ (r.head # r.tail => r.next # Nil)
  /\ r.at = "help" => r.head = r.tail /\ r.next # Nil
  /\ r.at = "take" => r.head # r.tail

LEMMA DequeuerRecord ==
  ASSUME QueueInv, NEW d \in Dequeuers, NEW r \in DequeuerRecords,
         my' = [my EXCEPT ![d] = r], DequeuerSees(r),
         UNCHANGED <<list, linked, taken, made, enqueueCount>>,
         retired' \in Seq(Nodes \cup {Nil}), Len(retired') < MaxRetired,
         dequeueCount' = (dequeueCount + Counting(my[d].at)) - Counting(r.at), dequeueCount' \in Nat
  PROVE  QueueInv'
<1>1. /\ my' \in [QThreads -> [at : EnqueueSteps \cup DequeueSteps, head : Nodes \cup {Nil},
                               tail : Nodes \cup {Nil}, next : Nodes \cup {Nil}]]
      /\ \A u \in Enqueuers : my'[u].at \in EnqueueSteps
      /\ \A u \in Dequeuers : my'[u].at \in DequeueSteps
      /\ my'[d] = r
      /\ \A u \in QThreads : u # d => my'[u] = my[u]
  <2>1. Types /\ d \in QThreads /\ d \notin Enqueuers
    BY QueueAssumption DEF QueueInv, QThreads
  <2>2. r \in [at : EnqueueSteps \cup DequeueSteps, head : Nodes \cup {Nil},
               tail : Nodes \cup {Nil}, next : Nodes \cup {Nil}] /\ r.at \in DequeueSteps
    BY DEF DequeuerRecords
  <2> QED
    BY <2>1, <2>2 DEF Types, QThreads
<1>2. UNCHANGED <<qhead, qtail, link, linked, taken, made, enqueueCount>>
  BY DEF list
<1>3. Types'
  BY <1>1, <1>2 DEF QueueInv, Types
<1>4. DequeuerKnows(d)'
  BY <1>1, <1>2 DEF DequeuerKnows, DequeuerSees
<1> QED
  BY <1>1, <1>2, <1>3, <1>4, DequeuerAlone

\* At the end of a call, or about to look afresh, it has no copies.
LEMMA DequeuerRests ==
  ASSUME QueueInv, NEW d \in Dequeuers, NEW at \in {"idle", "loadHead", "count"}, Afresh(d, at),
         UNCHANGED <<list, linked, taken, made, enqueueCount>>,
         retired' \in Seq(Nodes \cup {Nil}), Len(retired') < MaxRetired,
         dequeueCount' = (dequeueCount + Counting(my[d].at)) - Counting(at), dequeueCount' \in Nat
  PROVE  QueueInv'
<1> DEFINE r == [at |-> at, head |-> Nil, tail |-> Nil, next |-> Nil]
<1>1. my' = [my EXCEPT ![d] = r]
  BY AllSet DEF Afresh
<1>2. r \in DequeuerRecords /\ r.at = at /\ DequeuerSees(r)
  BY DEF DequeuerRecords, DequeueSteps, DequeuerSees
<1> HIDE DEF r
<1> QED
  BY <1>1, <1>2, DequeuerRecord

\* What a dequeuer knows of its copies; and a node before another has a successor.
LEMMA Before ==
  ASSUME QueueInv, NEW x, NEW y, Reaches(linked, x, y)
  PROVE  x \in Nodes /\ y \in Nodes /\ (x # y => link[x] # Nil)
<1>1. PICK i \in 0..Len(linked), j \in 0..Len(linked) :
        i <= j /\ x = Nth(linked, i) /\ y = Nth(linked, j)
  BY DEF Reaches
<1>2. x \in Nodes /\ y \in Nodes
  BY <1>1, Successor
<1>3. x # y => i < Len(linked)
  BY <1>1 DEF QueueInv, Types
<1> QED
  BY <1>1, <1>2, <1>3, Successor

LEMMA DequeuerLooks ==
  ASSUME QueueInv, NEW d \in Dequeuers,
         Dequeue(d) \/ LoadHead(d) \/ LoadQTail(d) \/ LoadNext(d) \/ CheckQHead(d)
           \/ Retire(d) \/ CountDequeue(d)
  PROVE  QueueInv'
<1>1. /\ my[d].head \in Nodes \cup {Nil} /\ my[d].tail \in Nodes \cup {Nil}
      /\ my[d].next \in Nodes \cup {Nil} /\ my[d].at \in DequeueSteps
      /\ d \in QThreads /\ Types /\ DequeuerKnows(d) /\ d \notin Enqueuers
  BY MyRecord, QueueAssumption DEF QueueInv, QThreads, Known
<1>2. /\ OnList(linked, qtail) /\ qtail \in Nodes /\ Reaches(linked, qtail, qtail)
      /\ OnList(linked, qhead) /\ qhead \in Nodes /\ Reaches(linked, qhead, qhead)
      /\ Reaches(linked, qhead, qtail) /\ linked \in Seq(Nodes \ {Dummy}) /\ Distinct(linked)
      /\ dequeueCount \in Nat /\ link \in [Nodes -> Nodes \cup {Nil}]
      /\ retired \in Seq(Nodes \cup {Nil}) /\ Len(retired) < MaxRetired
  BY EndsOnList, ReachedOnList DEF QueueInv, Types, Chained
<1>3. CASE Dequeue(d)
  <2>1. my[d].at = "idle" /\ UNCHANGED <<list, linked, taken, made, retired, enqueueCount, dequeueCount>>
        /\ Afresh(d, "loadHead")
    BY <1>3 DEF Dequeue, Does, counts
  <2>2. dequeueCount' = (dequeueCount + Counting(my[d].at)) - Counting("loadHead") /\ dequeueCount' \in Nat
    BY <1>2, <2>1 DEF Counting
  <2> QED
    BY <1>2, <2>1, <2>2, DequeuerRests
<1>4. CASE LoadHead(d)
  <2> DEFINE r == [at |-> "loadTail", head |-> qhead, tail |-> my[d].tail, next |-> my[d].next]
  <2>1. my[d].at = "loadHead" /\ UNCHANGED <<list, linked, taken, made, retired, enqueueCount, dequeueCount>>
        /\ my' = [my EXCEPT ![d].head = qhead, ![d].at = "loadTail"]
    BY <1>4 DEF LoadHead, Does, counts
  <2>2. my' = [my EXCEPT ![d] = r]
    <3>1. Types /\ d \in QThreads /\ my' = [my EXCEPT ![d].head = qhead, ![d].at = "loadTail"]
      BY ONLY <1>1, <2>1
    <3> QED
      BY ONLY <3>1, HeadSet DEF r
  <2>3. dequeueCount' = (dequeueCount + Counting(my[d].at)) - Counting("loadTail") /\ dequeueCount' \in Nat
    BY <1>2, <2>1 DEF Counting
  <2>4. r \in DequeuerRecords /\ r.at = "loadTail" /\ DequeuerSees(r)
    BY <1>1, <1>2 DEF DequeuerRecords, DequeueSteps, DequeuerSees
  <2> HIDE DEF r
  <2> QED
    BY <1>2, <2>1, <2>2, <2>3, <2>4, DequeuerRecord
<1>5. CASE LoadQTail(d)
  <2> DEFINE r == [at |-> "loadNext", head |-> my[d].head, tail |-> qtail, next |-> my[d].next]
  <2>1. my[d].at = "loadTail" /\ UNCHANGED <<list, linked, taken, made, retired, enqueueCount, dequeueCount>>
        /\ my' = [my EXCEPT ![d].tail = qtail, ![d].at = "loadNext"]
    BY <1>5 DEF LoadQTail, Does, counts
  <2>2. my' = [my EXCEPT ![d] = r]
    BY <1>1, <2>1, TailSet
  <2>3. dequeueCount' = (dequeueCount + Counting(my[d].at)) - Counting("loadNext") /\ dequeueCount' \in Nat
    BY <1>2, <2>1 DEF Counting
  <2>4. Reaches(linked, my[d].head, qhead)
    BY <1>1, <2>1 DEF DequeuerKnows
  <2>5. Reaches(linked, my[d].head, qtail)
    BY <1>2, <2>4, ReachesOn
  <2>6. r \in DequeuerRecords /\ r.at = "loadNext" /\ DequeuerSees(r)
    BY <1>1, <1>2, <2>4, <2>5 DEF DequeuerRecords, DequeueSteps, DequeuerSees
  <2> HIDE DEF r
  <2> QED
    BY <1>2, <2>1, <2>2, <2>3, <2>6, DequeuerRecord
<1>6. CASE LoadNext(d)
  <2> DEFINE h == my[d].head   q == my[d].tail   n == link[my[d].head]
             r == [at |-> "check", head |-> h, tail |-> q, next |-> n]
  <2>1. my[d].at = "loadNext" /\ UNCHANGED <<list, linked, taken, made, retired, enqueueCount, dequeueCount>>
        /\ my' = [my EXCEPT ![d].next = n, ![d].at = "check"]
    BY <1>1, <1>6 DEF LoadNext, Does, counts
  <2>2. Reaches(linked, h, qhead) /\ Reaches(linked, h, q) /\ Reaches(linked, q, qtail)
    BY <1>1, <2>1 DEF DequeuerKnows
  <2>3. h \in Nodes /\ n \in Nodes \cup {Nil} /\ (h # q => n # Nil)
    BY <1>2, <2>2, Before
  <2>4. my' = [my EXCEPT ![d] = r]
    <3> HIDE DEF n
    <3> QED
      BY <1>1, <2>1, NextSet
  <2>5. dequeueCount' = (dequeueCount + Counting(my[d].at)) - Counting("check") /\ dequeueCount' \in Nat
    BY <1>2, <2>1 DEF Counting
  <2>6. r \in DequeuerRecords /\ r.at = "check" /\ DequeuerSees(r)
    BY <1>1, <2>2, <2>3 DEF DequeuerRecords, DequeueSteps, DequeuerSees
  <2> HIDE DEF r
  <2> QED
    BY <1>2, <2>1, <2>4, <2>5, <2>6, DequeuerRecord
<1>7. CASE CheckQHead(d)
  <2>1. my[d].at = "check" /\ UNCHANGED <<list, linked, taken, made, retired, enqueueCount, dequeueCount>>
    BY <1>7 DEF CheckQHead, Does, counts
  <2>2. \A at \in {"loadHead", "take", "help", "idle"} :
          dequeueCount' = (dequeueCount + Counting(my[d].at)) - Counting(at) /\ dequeueCount' \in Nat
    BY <1>2, <2>1 DEF Counting
  <2>3. CASE qhead # my[d].head \/ (my[d].head = my[d].tail /\ my[d].next = Nil)
    <3>1. PICK at \in {"loadHead", "idle"} : Afresh(d, at)
      BY <1>7, <2>3 DEF CheckQHead
    <3> QED
      BY <1>2, <2>1, <2>2, <3>1, DequeuerRests
  <2>4. CASE qhead = my[d].head /\ (my[d].head # my[d].tail \/ my[d].next # Nil)
    <3> DEFINE at == IF my[d].head # my[d].tail THEN "take" ELSE "help"
               r  == [at |-> at, head |-> my[d].head, tail |-> my[d].tail, next |-> my[d].next]
    <3>1. my' = [my EXCEPT ![d].at = at]
      BY <1>7, <2>4 DEF CheckQHead, Then
    <3>2. at \in {"take", "help"} /\ (at = "take" => my[d].head # my[d].tail)
          /\ (at = "help" => my[d].head = my[d].tail /\ my[d].next # Nil)
      BY <2>4
    <3>3. my' = [my EXCEPT ![d] = r]
      <4> HIDE DEF at
      <4> QED
        BY <1>1, <3>1, StepSet
    <3>4. /\ Reaches(linked, my[d].head, qhead) /\ Reaches(linked, my[d].head, my[d].tail)
          /\ Reaches(linked, my[d].tail, qtail) /\ (my[d].next # Nil => link[my[d].head] = my[d].next)
          /\ (my[d].head # my[d].tail => my[d].next # Nil)
      BY <1>1, <2>1 DEF DequeuerKnows
    <3> HIDE DEF at
    <3>5. r \in DequeuerRecords /\ r.at = at /\ DequeuerSees(r)
      BY <1>1, <3>2, <3>4 DEF DequeuerRecords, DequeueSteps, DequeuerSees
    <3>6. dequeueCount' = (dequeueCount + Counting(my[d].at)) - Counting(at) /\ dequeueCount' \in Nat
      BY <2>2, <3>2
    <3> HIDE DEF r
    <3> QED
      BY <1>2, <2>1, <3>3, <3>5, <3>6, DequeuerRecord
  <2> QED
    BY <2>3, <2>4
<1>8. CASE Retire(d)
  <2>1. my[d].at = "retire" /\ UNCHANGED <<list, linked, taken, made, enqueueCount, dequeueCount>>
        /\ retired' = (IF Len(retired) + 1 >= MaxRetired THEN <<>> ELSE Append(retired, my[d].head))
        /\ Afresh(d, "count")
    BY <1>8 DEF Retire, Does
  <2>2. retired' \in Seq(Nodes \cup {Nil}) /\ Len(retired') < MaxRetired
    BY <1>1, <1>2, <2>1, QueueAssumption
  <2>3. dequeueCount' = (dequeueCount + Counting(my[d].at)) - Counting("count") /\ dequeueCount' \in Nat
    BY <1>2, <2>1 DEF Counting
  <2>4. UNCHANGED <<list, linked, taken, made, enqueueCount>> /\ Afresh(d, "count")
    BY <2>1
  <2> QED
    BY <2>2, <2>3, <2>4, DequeuerRests
<1>9. CASE CountDequeue(d)
  <2>1. my[d].at = "count" /\ UNCHANGED <<list, linked, taken, made, retired, enqueueCount>>
        /\ dequeueCount' = dequeueCount + 1 /\ Afresh(d, "idle")
    BY <1>9 DEF CountDequeue, Does
  <2>2. dequeueCount' = (dequeueCount + Counting(my[d].at)) - Counting("idle") /\ dequeueCount' \in Nat
    BY <1>2, <2>1 DEF Counting
  <2> QED
    BY <1>2, <2>1, <2>2, DequeuerRests
<1> QED
  BY <1>3, <1>4, <1>5, <1>6, <1>7, <1>8, <1>9

LEMMA DequeuerHelps ==
  ASSUME QueueInv, NEW d \in Dequeuers, Help(d)
  PROVE  QueueInv'
<1>1. /\ my[d].at = "help" /\ DequeuerKnows(d) /\ Types /\ d \in QThreads /\ d \notin Enqueuers
      /\ my' = [my EXCEPT ![d] = [at |-> "loadHead", head |-> Nil, tail |-> Nil, next |-> Nil]]
      /\ qtail' = (IF qtail = my[d].tail THEN my[d].next ELSE qtail)
      /\ UNCHANGED <<qhead, link, linked, taken, made, retired, enqueueCount, dequeueCount>>
  BY AllSet, QueueAssumption DEF Help, Does, Afresh, QueueInv, Known, QThreads, counts
<1>2. my[d].next # Nil /\ link[my[d].tail] = my[d].next
  BY <1>1 DEF DequeuerKnows
<1>3. dequeueCount' = (dequeueCount + Counting(my[d].at)) - Counting("loadHead") /\ dequeueCount' \in Nat
  BY <1>1 DEF Counting, Types
<1>4. CASE qtail # my[d].tail
  <2>1. /\ UNCHANGED <<list, linked, taken, made, enqueueCount>> /\ Afresh(d, "loadHead")
        /\ retired' \in Seq(Nodes \cup {Nil}) /\ Len(retired') < MaxRetired
    BY <1>1, <1>4 DEF list, Types, Help
  <2> QED
    BY <1>3, <2>1, DequeuerRests
<1>5. CASE qtail = my[d].tail
  <2>1. /\ my' \in [QThreads -> [at : EnqueueSteps \cup DequeueSteps, head : Nodes \cup {Nil},
                                 tail : Nodes \cup {Nil}, next : Nodes \cup {Nil}]]
        /\ \A u \in Enqueuers : my'[u].at \in EnqueueSteps
        /\ \A u \in Dequeuers : my'[u].at \in DequeueSteps
        /\ my'[d] = [at |-> "loadHead", head |-> Nil, tail |-> Nil, next |-> Nil]
        /\ \A u \in QThreads : u # d => my'[u] = my[u]
    <3>1. "loadHead" \in IF d \in Enqueuers THEN EnqueueSteps ELSE DequeueSteps
      BY <1>1 DEF DequeueSteps
    <3> QED
      BY <1>1, <3>1, MyMoves
  <2>2. Types'
    BY <1>1, <2>1 DEF Types
  <2>3. /\ Chained' /\ EndsPlaced'
        /\ \A e \in Enqueuers : e # d => EnqueuerKnows(e)'
        /\ \A u \in Dequeuers : u # d => DequeuerKnows(u)'
    BY <1>1, <1>2, <1>5, <2>1, <2>2, TailMoves
  <2>4. DequeuerKnows(d)'
    BY <2>1 DEF DequeuerKnows
  <2>5. CountsFollow'
    <3>1. Counting(my[d].at) = 0 /\ Counting(my'[d].at) = 0
      BY <1>1, <2>1 DEF Counting
    <3>2. Len(taken') - dequeueCount'
            = ((Len(taken) - dequeueCount) + Counting(my'[d].at)) - Counting(my[d].at)
      BY <1>1, <3>1 DEF Types
    <3> QED
      BY <1>1, <2>1, <2>2, <3>2, DequeueCounted
  <2>6. Known'
    BY <1>1, <2>3, <2>4 DEF Known
  <2> QED
    BY <2>2, <2>3, <2>5, <2>6 DEF QueueInv
<1> QED
  BY <1>4, <1>5

\* Head moves to the node behind it, which is the next one to be dequeued.
LEMMA TakeKeeps ==
  ASSUME QueueInv, NEW d \in Dequeuers, Take(d)
  PROVE  QueueInv'
<1>1. /\ my[d].at = "take" /\ DequeuerKnows(d) /\ Types /\ d \in QThreads /\ d \notin Enqueuers
      /\ UNCHANGED <<qtail, link, linked, made, retired, enqueueCount, dequeueCount>>
      /\ my[d].head \in Nodes \cup {Nil} /\ my[d].tail \in Nodes \cup {Nil}
      /\ my[d].next \in Nodes \cup {Nil}
  BY MyRecord, QueueAssumption DEF Take, Does, QueueInv, Known, QThreads, counts
<1>2. /\ linked \in Seq(Nodes \ {Dummy}) /\ Len(linked) \in Nat /\ Distinct(linked)
      /\ taken \in Seq(Nodes) /\ Len(taken) \in Nat /\ Len(taken) <= Len(linked)
      /\ dequeueCount \in Nat
  BY DEF QueueInv, Types, Chained, EndsPlaced
<1>3. /\ Reaches(linked, my[d].head, my[d].tail) /\ Reaches(linked, my[d].tail, qtail)
      /\ my[d].head # my[d].tail /\ my[d].next # Nil /\ link[my[d].head] = my[d].next
  BY <1>1 DEF DequeuerKnows
<1>4. CASE qhead # my[d].head
  <2>1. UNCHANGED <<list, linked, taken, made, enqueueCount>> /\ Afresh(d, "loadHead")
        /\ retired' \in Seq(Nodes \cup {Nil}) /\ Len(retired') < MaxRetired
    BY <1>1, <1>4 DEF Take, list, Types
  <2>2. dequeueCount' = (dequeueCount + Counting(my[d].at)) - Counting("loadHead") /\ dequeueCount' \in Nat
    BY <1>1, <1>2 DEF Counting
  <2> QED
    BY <2>1, <2>2, DequeuerRests
<1>5. CASE qhead = my[d].head
  <2> DEFINE n == Len(taken)
  <2>1. /\ qhead' = my[d].next /\ taken' = Append(taken, my[d].next)
        /\ my' = [my EXCEPT ![d].at = "retire"]
    BY <1>5 DEF Take, Then
  <2>2. PICK k \in {Len(linked) - 1, Len(linked)} : k >= n /\ qtail = Nth(linked, k)
    BY DEF QueueInv, EndsPlaced
  <2>3. qhead = Nth(linked, n)
    BY DEF QueueInv, EndsPlaced
  <2>4. n + 1 <= k /\ k \in 0..Len(linked)
    <3>1. PICK i \in 0..Len(linked), j \in 0..Len(linked) :
            i <= j /\ my[d].head = Nth(linked, i) /\ my[d].tail = Nth(linked, j)
      BY <1>3 DEF Reaches
    <3>2. PICK l \in 0..Len(linked), m \in 0..Len(linked) :
            l <= m /\ my[d].tail = Nth(linked, l) /\ qtail = Nth(linked, m)
      BY <1>3 DEF Reaches
    <3>3. k \in 0..Len(linked) /\ n \in 0..Len(linked)
      BY <1>2, <2>2
    <3>4. i = n
      BY ONLY <1>2, <1>5, <2>3, <3>1, <3>3, OnePlace
    <3>5. j = l
      BY ONLY <1>2, <3>1, <3>2, OnePlace
    <3>6. m = k
      BY ONLY <1>2, <2>2, <3>2, <3>3, OnePlace
    <3>7. i # j
      BY <1>3, <3>1
    <3> QED
      BY ONLY <1>2, <3>1, <3>2, <3>3, <3>4, <3>5, <3>6, <3>7
  <2>5. n \in 0..Len(linked) /\ n < Len(linked) /\ n + 1 \in 1..Len(linked)
    BY ONLY <1>2, <2>4
  <2>6. my[d].next = Nth(linked, n + 1) /\ my[d].next = linked[n + 1] /\ my[d].next \in Nodes
    <3>1. link[Nth(linked, n)] = Nth(linked, n + 1)
      BY <2>5, Successor
    <3>2. Nth(linked, n + 1) = linked[n + 1] /\ linked[n + 1] \in Nodes
      BY <1>2, <2>5 DEF Nth
    <3> QED
      BY <1>3, <1>5, <2>3, <3>1, <3>2
  <2>7. /\ taken' \in Seq(Nodes) /\ Len(taken') = n + 1 /\ taken'[n + 1] = my[d].next
        /\ \A i \in 1..n : taken'[i] = taken[i]
    BY <1>2, <2>1, <2>6
  <2>8. EndsPlaced'
    <3>1. \A i \in DOMAIN taken' : taken'[i] = linked[i]
      <4> SUFFICES ASSUME NEW i \in 1..(n + 1) PROVE taken'[i] = linked[i]
        BY <2>7
      <4>1. CASE i = n + 1
        BY <2>6, <2>7, <4>1
      <4>2. CASE i # n + 1
        <5>1. i \in 1..n /\ i \in DOMAIN taken
          BY <1>2, <4>2
        <5> QED
          BY <2>7, <5>1 DEF QueueInv, EndsPlaced
      <4> QED
        BY <4>1, <4>2
    <3>2. k >= Len(taken') /\ qtail' = Nth(linked', k) /\ k \in {Len(linked') - 1, Len(linked')}
      BY <1>1, <2>2, <2>4, <2>7
    <3>3. qhead' = Nth(linked', Len(taken')) /\ Len(taken') <= Len(linked')
      BY <1>1, <2>1, <2>5, <2>6, <2>7
    <3> QED
      BY <1>1, <3>1, <3>2, <3>3 DEF EndsPlaced
  <2>9. /\ my' \in [QThreads -> [at : EnqueueSteps \cup DequeueSteps, head : Nodes \cup {Nil},
                                 tail : Nodes \cup {Nil}, next : Nodes \cup {Nil}]]
        /\ \A u \in Enqueuers : my'[u].at \in EnqueueSteps
        /\ \A u \in Dequeuers : my'[u].at \in DequeueSteps
        /\ my'[d].at = "retire"
        /\ \A u \in QThreads : u # d => my'[u] = my[u]
    <3> DEFINE r == [at |-> "retire", head |-> my[d].head, tail |-> my[d].tail, next |-> my[d].next]
    <3>1. my' = [my EXCEPT ![d] = r]
      BY <1>1, <2>1, StepSet
    <3>2. r \in [at : EnqueueSteps \cup DequeueSteps, head : Nodes \cup {Nil},
                 tail : Nodes \cup {Nil}, next : Nodes \cup {Nil}] /\ r.at \in DequeueSteps /\ r.at = "retire"
      BY <1>1 DEF DequeueSteps
    <3> HIDE DEF r
    <3> QED
      BY <1>1, <3>1, <3>2 DEF Types, QThreads
  <2>10. Types'
    BY <1>1, <2>7, <2>9 DEF Types
  <2>11. Chained'
    BY <1>1 DEF QueueInv, Chained
  <2>12. Reaches(linked', qhead, qhead') /\ Reaches(linked', qtail, qtail')
    <3>1. Reaches(linked, qhead, qhead')
      <4>1. qhead' = Nth(linked, n + 1) /\ n + 1 \in 0..Len(linked) /\ n <= n + 1
        BY <1>2, <2>1, <2>5, <2>6
      <4> HIDE DEF n
      <4> QED
        BY ONLY <2>3, <2>5, <4>1 DEF Reaches
    <3>2. Reaches(linked, qtail, qtail)
      BY <1>2, <2>2, <2>4 DEF Reaches
    <3> QED
      BY <1>1, <3>1, <3>2
  <2>13. /\ \A e \in Enqueuers : EnqueuerKnows(e)'
         /\ \A u \in Dequeuers : u # d => DequeuerKnows(u)'
    BY <1>1, <1>2, <2>9, <2>10, <2>12, OthersKnow
  <2>14. DequeuerKnows(d)'
    BY <2>9 DEF DequeuerKnows
  <2>15. CountsFollow'
    <3>1. Counting(my[d].at) = 0 /\ Counting(my'[d].at) = 1
      BY <1>1, <2>9 DEF Counting
    <3>2. Len(taken') - dequeueCount'
            = ((Len(taken) - dequeueCount) + Counting(my'[d].at)) - Counting(my[d].at)
      BY <1>1, <1>2, <2>7, <3>1
    <3> QED
      BY <1>1, <2>9, <2>10, <3>2, DequeueCounted
  <2>16. Known'
    BY <2>13, <2>14 DEF Known
  <2> QED
    BY <2>8, <2>10, <2>11, <2>15, <2>16 DEF QueueInv
<1> QED
  BY <1>4, <1>5

\* At first the list is the dummy node and nobody has begun.
LEMMA InitQueueInv == QInit => QueueInv
<1> SUFFICES ASSUME QInit PROVE QueueInv
  OBVIOUS
<1>1. /\ qhead = Dummy /\ qtail = Dummy /\ link = [x \in Nodes |-> Nil]
      /\ retired = <<>> /\ enqueueCount = 0 /\ dequeueCount = 0 /\ linked = <<>> /\ taken = <<>>
      /\ made = [e \in Enqueuers |-> 0] /\ my = [t \in QThreads |-> Resting]
  BY DEF QInit
<1>2. \A t \in QThreads : my[t] = [at |-> "idle", head |-> Nil, tail |-> Nil, next |-> Nil]
  BY <1>1 DEF Resting
<1>3. Types
  <2>1. my \in [QThreads -> [at : EnqueueSteps \cup DequeueSteps, head : Nodes \cup {Nil},
                             tail : Nodes \cup {Nil}, next : Nodes \cup {Nil}]]
    BY <1>1, <1>2 DEF EnqueueSteps
  <2>2. /\ \A e \in Enqueuers : my[e].at \in EnqueueSteps
        /\ \A d \in Dequeuers : my[d].at \in DequeueSteps
    BY <1>2 DEF EnqueueSteps, DequeueSteps, QThreads
  <2>3. made \in [Enqueuers -> Nat] /\ \A e \in Enqueuers : made[e] <= MaxNodes[e]
    BY <1>1, QueueAssumption
  <2>4. /\ link \in [Nodes -> Nodes \cup {Nil}] /\ linked \in Seq(Nodes \ {Dummy}) /\ taken \in Seq(Nodes)
        /\ retired \in Seq(Nodes \cup {Nil}) /\ Len(retired) < MaxRetired
        /\ enqueueCount \in Nat /\ dequeueCount \in Nat
    BY <1>1, QueueAssumption
  <2> QED
    BY <2>1, <2>2, <2>3, <2>4 DEF Types
<1>4. Chained
  BY <1>1, NodeFacts DEF Chained, Nth, Distinct
<1>5. EndsPlaced
  BY <1>1 DEF EndsPlaced, Nth
<1>6. Known
  <2>1. \A e \in Enqueuers : EnqueuerKnows(e)
    BY <1>2 DEF EnqueuerKnows, QThreads
  <2>2. \A d \in Dequeuers : DequeuerKnows(d)
    BY <1>2 DEF DequeuerKnows, QThreads
  <2> QED
    BY <2>1, <2>2 DEF Known
<1>7. CountsFollow
  <2>1. \A set \in {Enqueuers, Dequeuers}, step \in {"swing", "retire", "count"} : QAt(set, step) = 0
    <3> SUFFICES ASSUME NEW set \in {Enqueuers, Dequeuers}, NEW step \in {"swing", "retire", "count"}
                 PROVE  QAt(set, step) = 0
      OBVIOUS
    <3>1. {t \in set : Does(t, step)} = {}
      BY <1>2 DEF Does, QThreads
    <3> QED
      BY <3>1, FS_EmptySet DEF QAt
  <2> QED
    BY <1>1, <2>1 DEF CountsFollow
<1> QED
  BY <1>3, <1>4, <1>5, <1>6, <1>7 DEF QueueInv

\* The list is kept by every step of every thread.
LEMMA QueueStep == QueueInv /\ [QNext]_qvars => QueueInv'
<1> SUFFICES ASSUME QueueInv, [QNext]_qvars PROVE QueueInv'
  OBVIOUS
<1>1. CASE \E e \in Enqueuers : Enqueue(e) \/ EnqueueStep(e)
  <2>1. PICK e \in Enqueuers : Enqueue(e) \/ EnqueueStep(e)
    BY <1>1
  <2> QED
    BY <2>1, EnqueueKeeps, EnqueuerLooks, LinkKeeps, EnqueuerHelps DEF EnqueueStep
<1>2. CASE \E d \in Dequeuers : Dequeue(d) \/ DequeueStep(d)
  <2>1. PICK d \in Dequeuers : Dequeue(d) \/ DequeueStep(d)
    BY <1>2
  <2> QED
    BY <2>1, DequeuerLooks, TakeKeeps, DequeuerHelps DEF DequeueStep
<1>3. CASE UNCHANGED qvars
  <2>1. UNCHANGED <<qhead, qtail, link, retired, enqueueCount, dequeueCount, my, made, linked, taken>>
    BY <1>3 DEF qvars, list, counts
  <2>2. Types' /\ Chained' /\ EndsPlaced'
    BY <2>1 DEF QueueInv, Types, Chained, EndsPlaced
  <2>3. /\ \A e \in Enqueuers : EnqueuerKnows(e)'
        /\ \A d \in Dequeuers : DequeuerKnows(d)'
    BY <2>1 DEF QueueInv, Known, EnqueuerKnows, DequeuerKnows, Node
  <2>4. CountsFollow'
    BY <2>1 DEF QueueInv, CountsFollow, QAt, Does
  <2> QED
    BY <2>2, <2>3, <2>4 DEF QueueInv, Known
<1> QED
  BY <1>1, <1>2, <1>3 DEF QNext

\* The list, its two ends and every thread's copies are right in every state.
THEOREM QueueInvariant == QSpec => []QueueInv
BY InitQueueInv, QueueStep, PTL DEF QSpec

\* The place of a node is where it is on the list.
LEMMA PlaceOf ==
  ASSUME QueueInv, NEW i \in 0..Len(linked)
  PROVE  Place(Nth(linked, i)) = i
<1>1. linked \in Seq(Nodes \ {Dummy}) /\ Distinct(linked) /\ Len(linked) \in Nat
  BY DEF QueueInv, Types, Chained
<1>2. CASE i = 0
  BY <1>2 DEF Place, Nth
<1>3. CASE i # 0
  <2>1. i \in DOMAIN linked /\ Nth(linked, i) = linked[i] /\ linked[i] # Dummy
    BY <1>1, <1>3 DEF Nth
  <2>2. \A j \in DOMAIN linked : linked[j] = linked[i] => j = i
    BY <1>1, <2>1 DEF Distinct
  <2>3. (CHOOSE j \in DOMAIN linked : linked[j] = linked[i]) = i
    BY <2>1, <2>2
  <2> QED
    BY <2>1, <2>3 DEF Place
<1> QED
  BY <1>2, <1>3

\* What the invariant says of order.
LEMMA QueueShows ==
  ASSUME QueueInv
  PROVE  QueueInOrder
<1>1. /\ linked \in Seq(Nodes \ {Dummy}) /\ Len(linked) \in Nat /\ Distinct(linked)
      /\ Len(taken) \in Nat /\ Len(taken) <= Len(linked)
      /\ qhead = Nth(linked, Len(taken)) /\ Types
  BY DEF QueueInv, Types, Chained, EndsPlaced
<1>2. PICK k \in {Len(linked) - 1, Len(linked)} : k >= Len(taken) /\ qtail = Nth(linked, k)
  BY DEF QueueInv, EndsPlaced
<1>3. QTypeOK
  <2>1. {qhead, qtail} \subseteq Nodes
    BY EndsOnList DEF QueueInv
  <2> QED
    BY <1>1, <2>1 DEF QTypeOK, Types
<1>4. QInOrder
  BY <1>1 DEF QueueInv, EndsPlaced, QInOrder, Distinct
<1>5. TailKeepsUp
  <2>1. Len(taken) \in 0..Len(linked) /\ k \in 0..Len(linked)
    BY <1>1, <1>2
  <2>2. Place(qhead) = Len(taken) /\ Place(qtail) = k
    BY <1>1, <1>2, <2>1, PlaceOf
  <2> QED
    BY <1>1, <1>2, <2>2 DEF TailKeepsUp
<1>6. EmptyIsEmpty
  <2> SUFFICES ASSUME NEW d \in Dequeuers, my[d].at = "loadNext", link[my[d].head] = Nil
               PROVE  Len(taken) = Len(linked)
    BY DEF EmptyIsEmpty, Does
  <2>1. Reaches(linked, my[d].head, qhead)
    BY DEF QueueInv, Known, DequeuerKnows
  <2>2. PICK i \in 0..Len(linked), j \in 0..Len(linked) :
          i <= j /\ my[d].head = Nth(linked, i) /\ qhead = Nth(linked, j)
    BY <2>1 DEF Reaches
  <2>3. j = Len(taken)
    <3>1. Len(taken) \in 0..Len(linked) /\ Nth(linked, j) = Nth(linked, Len(taken))
      BY <1>1, <2>2
    <3> QED
      BY ONLY <1>1, <3>1, <2>2, OnePlace
  <2>4. ~ (i < Len(linked))
    BY <2>2, Successor
  <2> QED
    BY <1>1, <2>2, <2>3, <2>4
<1>7. CountsFollow
  BY DEF QueueInv
<1> QED
  BY <1>3, <1>4, <1>5, <1>6, <1>7 DEF QueueInOrder

\* Values leave in the order in which they were linked, tail is no more than
\* one node behind, an empty queue is reported only when it is empty, and the
\* counters lag by the calls under way.
THEOREM QueueStaysInOrder == QSpec => []QueueInOrder
BY QueueShows, QueueInvariant, PTL

-------------------------------------------------------------------------------
(* What a step of RingNext may be, and the rings with samples from tail to head.*)
Plain == ~Slotted
SlotIndex == 0..(Capacity - 1)
Samples == (Producers \X Nat) \cup {NoValue, Torn}

WriteSteps ==
  IF kind = "HPRing" THEN {"idle", "loadSeq", "claim", "writeAgain", "fill", "filling", "publish"}
  ELSE IF kind = "SlotRing" THEN {"idle", "loadSeq", "fill", "filling", "publish", "advance"}
  ELSE {"idle", "loadTail", "fill", "filling", "publish"}
ReadSteps ==
  IF kind = "HPRing" THEN {"idle", "loadFullSeq", "claimRead", "readAgain", "copy", "release"}
  ELSE IF kind = "SlotRing" THEN {"idle", "loadFullSeq", "copy", "release", "advanceRead"}
  ELSE IF kind = "SeqLockRing" THEN {"idle", "loadOwnTail", "readAgain", "copy", "checkHead", "release"}
  ELSE {"idle", "loadOwnTail", "copy", "release"}
PeekSteps ==
  IF kind = "SeqLockRing" THEN {"idle", "loadOwnTail", "copy", "checkHead", "checkTail", "peekAgain", "peeked"}
  ELSE IF kind = "AtomicRing" THEN {"idle", "loadOwnTail", "copy", "peeked"} ELSE {"idle"}
Steps == {"idle", "loadSeq", "claim", "writeAgain", "loadTail", "fill", "filling", "publish", "advance",
          "loadFullSeq", "claimRead", "readAgain", "loadOwnTail", "copy", "checkHead", "release",
          "advanceRead", "checkTail", "peekAgain", "peeked"}

Locals == [at : Steps, op : {"none", "Peek", "PeekLatest"}, want : Nat, pos : Int, far : Nat,
           n : Nat \ {0}, out : Seq(Samples)]

(* A thread's step, one of those of its role; and how many samples it has    *)
(* moved there.                                                              *)
Fits(at, n, out) ==
  IF at \in {"fill", "filling", "copy"} THEN Len(out) < n
  ELSE IF at \in {"publish", "advance", "release", "advanceRead", "checkHead", "checkTail", "peeked"}
    THEN Len(out) = n
  ELSE out = <<>>
OutFits(t) == Fits(me[t].at, me[t].n, me[t].out)

RingTypes ==
  /\ kind \in AllKinds /\ head \in Nat /\ tail \in Nat
  /\ slot \in [SlotIndex -> Samples] /\ seq \in [SlotIndex -> Nat]
  /\ writeLock \in Producers \cup {NoThread} /\ readLock \in Consumers \cup {NoThread}
  /\ me \in [Threads -> Locals] /\ offered \in [Producers -> Nat]
  /\ written \in Seq(Producers \X Nat) /\ got \in Seq(Samples \cup {Twice})
  /\ \A p \in Producers : me[p].at \in WriteSteps /\ (me[p].at # "idle" => p \in Writers)
  /\ \A c \in Consumers : me[c].at \in ReadSteps /\ (me[c].at # "idle" => c \in Readers)
  /\ \A x \in Observers : me[x].at \in PeekSteps
  /\ \A t \in Threads : OutFits(t)

(* The samples of a producer are numbered as it offers them.  HPRing counts  *)
(* one as written when its position is claimed, before it is offered.        *)
Storing == {"fill", "filling", "publish"}
Claimed(i) ==
  LET p == written[i][1] IN
  /\ kind = "HPRing" /\ me[p].at \in Storing
  /\ i = me[p].pos + 1 /\ written[i][2] = offered[p] + 1
Numbered ==
  /\ InProducersOrder
  /\ \A i \in DOMAIN written :
       written[i][2] >= 1 /\ (written[i][2] <= offered[written[i][1]] \/ Claimed(i))

(* Nothing at this position, or at one that shares its slot later, was read. *)
Unread(k) == \A j \in Nat : j >= k /\ Slot(j) = Slot(k) => ReadAt(j + 1) = NoValue

(* A slot is free for a position, or holds the sample of one.                *)
FreeFor(s, k) == seq[s] = k /\ Slot(k) = s /\ k < Len(written) + Capacity /\ Unread(k)
Holds(s, k) ==
  /\ seq[s] = k + 1 /\ Slot(k) = s /\ k < Len(written) /\ Unread(k)
  /\ slot[s] = written[k + 1]

EverySlot == \A s \in SlotIndex : FreeFor(s, seq[s]) \/ (seq[s] > 0 /\ Holds(s, seq[s] - 1))

(* What a writer and a reader know of the slot of their position.            *)
SlotWriter(p) ==
  LET k == me[p].pos IN
  /\ me[p].n = 1
  /\ me[p].at # "idle" => k \in Nat /\ k <= head /\ (kind = "SlotRing" => k = head)
  /\ me[p].at = "claim" /\ head = k => seq[Slot(k)] = k
  /\ me[p].at \in Storing =>
       /\ seq[Slot(k)] = k
       /\ kind = "HPRing" => k < Len(written) /\ written[k + 1] = Value(p, 1)
       /\ kind = "SlotRing" => k = Len(written)
  /\ me[p].at = "publish" => slot[Slot(k)] = Value(p, 1)
  /\ me[p].at = "advance" => Len(written) = k + 1
Taking == {"copy", "release"}
SlotReader(c) ==
  LET k == me[c].pos IN
  /\ me[c].n = 1
  /\ me[c].at # "idle" => k \in Nat /\ k <= tail /\ (kind = "SlotRing" => k = tail)
  /\ me[c].at = "claimRead" /\ tail = k => seq[Slot(k)] = k + 1
  /\ me[c].at \in Taking => seq[Slot(k)] = k + 1 /\ (kind = "HPRing" => k < tail)
  /\ me[c].at = "release" => k < Len(written) /\ me[c].out = <<written[k + 1]>>

(* SlotRing stores head after it has published; and no two threads are at one*)
(* position.                                                                 *)
HeadWritten == (kind = "HPRing" \/ \A p \in Producers : me[p].at # "advance") => Len(written) = head
WritersApart ==
  \A p, q \in Producers : p # q /\ me[p].at \in Storing /\ me[q].at \in Storing => me[p].pos # me[q].pos
ReadersApart ==
  \A c, d \in Consumers : c # d /\ me[c].at \in Taking /\ me[d].at \in Taking => me[c].pos # me[d].pos

SlotsInv ==
  /\ EverySlot /\ ReadOnce /\ HeadWritten /\ WritersApart /\ ReadersApart
  /\ \A p \in Producers : SlotWriter(p)
  /\ \A c \in Consumers : SlotReader(c)

(* The samples between tail and head, where the writer does not store; what  *)
(* a reader has copied is what is written there, and what a thread that peeks*)
(* has copied is, as long as no reader has released it.                      *)
Whole(t) == \A i \in 1..Len(me[t].out) : me[t].out[i] = written[me[t].pos + i]
StillWhole(t) ==
  \A i \in 1..Len(me[t].out) : tail < me[t].pos + i => me[t].out[i] = written[me[t].pos + i]

PlainWriter(p) ==
  /\ me[p].at # "idle" =>
       /\ me[p].pos = head
       /\ IF kind \in {"SeqLockRing", "MPSeqRing"} THEN writeLock = p ELSE p = LeadWriter
  /\ me[p].at \in Storing =>
       /\ head + me[p].n <= tail + Capacity
       /\ \A i \in 1..Len(me[p].out) :
            me[p].out[i] = Value(p, i) /\ slot[Slot(head + i - 1)] = me[p].out[i]
PlainReader(c) ==
  /\ me[c].at # "idle" => IF kind = "MPSeqRing" THEN readLock = c ELSE c = LeadReader
  /\ me[c].at # "idle" => me[c].want > 0
  /\ me[c].at \in {"loadOwnTail", "copy", "checkHead", "release"} => tail <= me[c].far /\ me[c].far <= head
  /\ me[c].at \in {"copy", "checkHead", "release"} =>
       me[c].pos = tail /\ tail + me[c].n <= me[c].far /\ Whole(c)
PlainPeeker(x) ==
  LET beyond == me[x].pos + me[x].n IN
  /\ me[x].at # "idle" =>
       /\ me[x].far <= head /\ me[x].want > 0 /\ me[x].op # "none"
       /\ kind # "SeqLockRing" => me[x].op = "PeekLatest"
  /\ me[x].at \in {"copy", "checkHead", "checkTail", "peeked"} =>
       /\ me[x].op = "PeekLatest" => beyond = me[x].far
       /\ beyond <= me[x].far \/ head > me[x].far
       /\ beyond <= me[x].far => StillWhole(x)
  /\ me[x].at = "checkTail" => me[x].op = "Peek" /\ beyond <= me[x].far
  /\ me[x].at = "peeked" /\ me[x].op = "Peek" => me[x].pos >= 0 /\ beyond <= me[x].far /\ Whole(x)

PlainInv ==
  /\ head = Len(written) /\ tail = Len(got) /\ tail <= head /\ head <= tail + Capacity
  /\ \A k \in DOMAIN got : got[k] = written[k]
  /\ \A k \in Nat : tail <= k /\ k < head => slot[Slot(k)] = written[k + 1]
  /\ \A p \in Producers : PlainWriter(p)
  /\ \A c \in Consumers : PlainReader(c)
  /\ \A x \in Observers : PlainPeeker(x)

RingInv == RingTypes /\ Numbered /\ (Slotted => SlotsInv) /\ (Plain => PlainInv)

-------------------------------------------------------------------------------
\* Positions fall on slots; those less than a lap apart on different ones, and
\* those one lap apart on the same one.
LEMMA SlotType == ASSUME NEW k \in Int PROVE Slot(k) \in SlotIndex
BY RingsAssumption, SMT DEF Slot, SlotIndex

LEMMA SlotApart ==
  ASSUME NEW j \in Int, NEW k \in Int, j < k, k < j + Capacity
  PROVE  Slot(j) # Slot(k)
<1> DEFINE a == j \div Capacity
           b == k \div Capacity
<1>1. a \in Int /\ b \in Int
  BY RingsAssumption, SMT
<1>2. j = Capacity * a + (j % Capacity) /\ k = Capacity * b + (k % Capacity)
  BY RingsAssumption, SMT
<1> HIDE DEF a, b
<1> SUFFICES ASSUME j % Capacity = k % Capacity PROVE FALSE
  BY DEF Slot
<1>3. b <= a => Capacity * b <= Capacity * a
  BY <1>1, RingsAssumption, SMT
<1>4. a < b => Capacity * a + Capacity <= Capacity * b
  BY <1>1, RingsAssumption, SMT
<1>5. Capacity * a \in Int /\ Capacity * b \in Int
  BY <1>1, RingsAssumption, SMT
<1> QED
  BY <1>1, <1>2, <1>3, <1>4, <1>5, RingsAssumption

LEMMA SlotLap == ASSUME NEW k \in Int PROVE Slot(k + Capacity) = Slot(k)
<1> DEFINE a == (k + Capacity) \div Capacity
           b == k \div Capacity
           r == (k + Capacity) % Capacity
           s == k % Capacity
<1>1. a \in Int /\ b \in Int /\ r \in 0..(Capacity - 1) /\ s \in 0..(Capacity - 1)
  BY RingsAssumption, SMT
<1>2. k + Capacity = Capacity * a + r /\ k = Capacity * b + s
  BY RingsAssumption, SMT
<1> HIDE DEF a, b, r, s
<1>3. b + 1 < a => Capacity * b + Capacity + Capacity <= Capacity * a
  BY <1>1, RingsAssumption, SMT
<1>4. a < b + 1 => Capacity * a <= Capacity * b
  BY <1>1, RingsAssumption, SMT
<1>5. Capacity * a \in Int /\ Capacity * b \in Int
  BY <1>1, RingsAssumption, SMT
<1>6. a = b + 1
  BY <1>1, <1>2, <1>3, <1>4, <1>5, RingsAssumption
<1>7. Capacity * a = Capacity * b + Capacity
  BY <1>1, <1>6, RingsAssumption, SMT
<1>8. r = s
  BY <1>1, <1>2, <1>5, <1>7, RingsAssumption
<1> QED
  BY <1>8 DEF Slot, r, s

\* Two positions of one slot are the same or a lap apart or more.
LEMMA SlotSame ==
  ASSUME NEW j \in Int, NEW k \in Int, Slot(j) = Slot(k), j < k
  PROVE  j + Capacity <= k
BY SlotApart, RingsAssumption

\* What Append does.
LEMMA Appended ==
  ASSUME NEW S, NEW s \in Seq(S), NEW v \in S
  PROVE  /\ Append(s, v) \in Seq(S) /\ Len(s) \in Nat /\ Len(Append(s, v)) = Len(s) + 1
         /\ Append(s, v)[Len(s) + 1] = v /\ \A i \in 1..Len(s) : Append(s, v)[i] = s[i]
OBVIOUS

\* The next position falls on another slot.
LEMMA SlotNext == ASSUME NEW k \in Int PROVE Slot(k) # Slot(k + 1)
BY SlotApart, RingsAssumption

-------------------------------------------------------------------------------
(* What a step does to the threads: one of them moves.                       *)
Moved(t, at, op, want, pos, far, n, out) ==
  /\ me' \in [Threads -> Locals]
  /\ me'[t].at = at /\ me'[t].op = op /\ me'[t].want = want /\ me'[t].pos = pos
  /\ me'[t].far = far /\ me'[t].n = n /\ me'[t].out = out
  /\ \A u \in Threads : u # t => me'[u] = me[u]

LEMMA LocalType ==
  ASSUME me \in [Threads -> Locals], NEW t \in Threads
  PROVE  /\ me[t].at \in Steps /\ me[t].op \in {"none", "Peek", "PeekLatest"}
         /\ me[t].want \in Nat /\ me[t].pos \in Int /\ me[t].far \in Nat
         /\ me[t].n \in Nat \ {0} /\ me[t].out \in Seq(Samples)
BY DEF Locals

LEMMA Moving ==
  ASSUME me \in [Threads -> Locals], NEW t \in Threads, NEW r \in Locals,
         me' = [me EXCEPT ![t] = r]
  PROVE  Moved(t, r.at, r.op, r.want, r.pos, r.far, r.n, r.out)
BY DEF Moved, Locals

LEMMA Going ==
  ASSUME me \in [Threads -> Locals], NEW t \in Threads, NEW step \in Steps, Goto(t, step)
  PROVE  Moved(t, step, me[t].op, me[t].want, me[t].pos, me[t].far, me[t].n, me[t].out)
<1>1. me' = [me EXCEPT ![t] = [me[t] EXCEPT !.at = step]]
  BY DEF Goto
<1>2. [me[t] EXCEPT !.at = step] \in Locals
  BY DEF Locals
<1>3. me' \in [Threads -> Locals]
  BY <1>1, <1>2
<1> QED
  BY <1>1, <1>3 DEF Moved, Locals

LEMMA Returning ==
  ASSUME me \in [Threads -> Locals], NEW t \in Threads, Return(t)
  PROVE  Moved(t, "idle", "none", 0, 0, 0, 1, <<>>)
<1>1. Idle \in Locals
  BY DEF Idle, Locals, Steps
<1>2. /\ Idle.at = "idle" /\ Idle.op = "none" /\ Idle.want = 0 /\ Idle.pos = 0
      /\ Idle.far = 0 /\ Idle.n = 1 /\ Idle.out = <<>>
  BY DEF Idle
<1> QED
  BY <1>1, <1>2, Moving DEF Return
\* The threads have one role each.
LEMMA Roles ==
  /\ Producers \subseteq Threads /\ Consumers \subseteq Threads /\ Observers \subseteq Threads
  /\ \A p \in Producers : p \notin Consumers /\ p \notin Observers /\ p # NoThread
  /\ \A c \in Consumers : c \notin Producers /\ c \notin Observers /\ c # NoThread
  /\ \A x \in Observers : x \notin Producers /\ x \notin Consumers
BY RingsAssumption DEF Threads

(* A thread may be where it is, for its role and the ring.                   *)
Placed(t) ==
  /\ t \in Producers => me[t].at \in WriteSteps /\ (me[t].at # "idle" => t \in Writers)
  /\ t \in Consumers => me[t].at \in ReadSteps /\ (me[t].at # "idle" => t \in Readers)
  /\ t \in Observers => me[t].at \in PeekSteps
  /\ OutFits(t)

LEMMA PlacedIs ==
  ASSUME RingTypes, NEW t \in Threads
  PROVE  Placed(t)
BY DEF RingTypes, Placed, Threads

LEMMA TypesKept ==
  ASSUME RingTypes, NEW t \in Threads, kind' = kind, me' \in [Threads -> Locals],
         \A u \in Threads : u # t => me'[u] = me[u], Placed(t)',
         head' \in Nat, tail' \in Nat, slot' \in [SlotIndex -> Samples], seq' \in [SlotIndex -> Nat],
         writeLock' \in Producers \cup {NoThread}, readLock' \in Consumers \cup {NoThread},
         offered' \in [Producers -> Nat], written' \in Seq(Producers \X Nat),
         got' \in Seq(Samples \cup {Twice})
  PROVE  RingTypes'
<1>1. WriteSteps' = WriteSteps /\ ReadSteps' = ReadSteps /\ PeekSteps' = PeekSteps
      /\ Writers' = Writers /\ Readers' = Readers /\ SlotIndex' = SlotIndex
  BY DEF WriteSteps, ReadSteps, PeekSteps, Writers, Readers, SlotIndex
<1>2. \A u \in Threads : u # t => OutFits(u)'
  BY DEF RingTypes, OutFits, Fits
<1>3. \A u \in Threads : u # t => Placed(u)'
  BY <1>1, <1>2, PlacedIs DEF Placed
<1>4. \A u \in Threads : Placed(u)'
  BY <1>3
<1>5. \A p \in Producers : me'[p].at \in WriteSteps' /\ (me'[p].at # "idle" => p \in Writers')
  BY <1>4, Roles DEF Placed
<1>6. \A c \in Consumers : me'[c].at \in ReadSteps' /\ (me'[c].at # "idle" => c \in Readers')
  BY <1>4, Roles DEF Placed
<1>7. \A x \in Observers : me'[x].at \in PeekSteps'
  BY <1>4, Roles DEF Placed
<1>8. \A u \in Threads : OutFits(u)'
  BY <1>4 DEF Placed
<1>9. kind' \in AllKinds
  BY DEF RingTypes
<1> QED
  BY <1>1, <1>5, <1>6, <1>7, <1>8, <1>9 DEF RingTypes

(* A step that touches no shared memory but, perhaps, a lock it holds.       *)
Local == UNCHANGED <<kind, head, tail, slot, seq, offered, written, got>>

LEMMA LocalTypes ==
  ASSUME RingTypes, NEW t \in Threads, Local, me' \in [Threads -> Locals],
         \A u \in Threads : u # t => me'[u] = me[u], Placed(t)',
         writeLock' \in Producers \cup {NoThread}, readLock' \in Consumers \cup {NoThread}
  PROVE  RingTypes'
<1>1. /\ kind' = kind /\ head' \in Nat /\ tail' \in Nat
      /\ slot' \in [SlotIndex -> Samples] /\ seq' \in [SlotIndex -> Nat]
      /\ offered' \in [Producers -> Nat] /\ written' \in Seq(Producers \X Nat)
      /\ got' \in Seq(Samples \cup {Twice})
  BY DEF RingTypes, Local
<1> QED
  BY <1>1, TypesKept

\* The same, for a thread of each role, from what the step says of it.
LEMMA ProducerLocal ==
  ASSUME RingTypes, NEW p \in Producers, Local,
         NEW at, NEW op, NEW want, NEW pos, NEW far, NEW n, NEW out,
         Moved(p, at, op, want, pos, far, n, out),
         at \in WriteSteps, at # "idle" => p \in Writers, Fits(at, n, out),
         writeLock' \in Producers \cup {NoThread}, readLock' = readLock
  PROVE  RingTypes'
<1>1. kind' = kind
  BY DEF Local
<1>2. WriteSteps' = WriteSteps /\ Writers' = Writers
  BY <1>1 DEF WriteSteps, Writers
<1>3. OutFits(p)'
  BY DEF OutFits, Moved
<1>4. Placed(p)'
  BY <1>2, <1>3, Roles DEF Placed, Moved
<1>5. readLock' \in Consumers \cup {NoThread}
  BY DEF RingTypes
<1> QED
  BY <1>4, <1>5, Roles, LocalTypes DEF Moved

LEMMA ConsumerLocal ==
  ASSUME RingTypes, NEW c \in Consumers, Local,
         NEW at, NEW op, NEW want, NEW pos, NEW far, NEW n, NEW out,
         Moved(c, at, op, want, pos, far, n, out),
         at \in ReadSteps, at # "idle" => c \in Readers, Fits(at, n, out),
         writeLock' = writeLock, readLock' \in Consumers \cup {NoThread}
  PROVE  RingTypes'
<1>1. kind' = kind
  BY DEF Local
<1>2. ReadSteps' = ReadSteps /\ Readers' = Readers
  BY <1>1 DEF ReadSteps, Readers
<1>3. OutFits(c)'
  BY DEF OutFits, Moved
<1>4. Placed(c)'
  BY <1>2, <1>3, Roles DEF Placed, Moved
<1>5. writeLock' \in Producers \cup {NoThread}
  BY DEF RingTypes
<1> QED
  BY <1>4, <1>5, Roles, LocalTypes DEF Moved

LEMMA ObserverLocal ==
  ASSUME RingTypes, NEW x \in Observers, Local,
         NEW at, NEW op, NEW want, NEW pos, NEW far, NEW n, NEW out,
         Moved(x, at, op, want, pos, far, n, out),
         at \in PeekSteps, Fits(at, n, out), UNCHANGED <<writeLock, readLock>>
  PROVE  RingTypes'
<1>1. kind' = kind
  BY DEF Local
<1>2. PeekSteps' = PeekSteps
  BY <1>1 DEF PeekSteps
<1>3. OutFits(x)'
  BY DEF OutFits, Moved
<1>4. Placed(x)'
  BY <1>2, <1>3, Roles DEF Placed, Moved
<1>5. writeLock' \in Producers \cup {NoThread} /\ readLock' \in Consumers \cup {NoThread}
  BY DEF RingTypes
<1> QED
  BY <1>4, <1>5, Roles, LocalTypes DEF Moved

-------------------------------------------------------------------------------
\* How the steps that set several fields do so.
LEMMA CallSets ==
  ASSUME me \in [Threads -> Locals], NEW t \in Threads,
         NEW size \in Nat \ {0}, NEW at \in Int, NEW step \in Steps,
         me' = [me EXCEPT ![t].n = size, ![t].pos = at, ![t].at = step]
  PROVE  Moved(t, step, me[t].op, me[t].want, at, me[t].far, size, me[t].out)
<1>1. me' = [me EXCEPT ![t] = [me[t] EXCEPT !.n = size, !.pos = at, !.at = step]]
  OBVIOUS
<1>2. [me[t] EXCEPT !.n = size, !.pos = at, !.at = step] \in Locals
  BY DEF Locals
<1>3. me' \in [Threads -> Locals]
  BY <1>1, <1>2
<1> QED
  BY <1>3 DEF Moved, Locals

LEMMA OwnTailSets ==
  ASSUME me \in [Threads -> Locals], NEW t \in Threads,
         NEW size \in Nat \ {0}, NEW at \in Int, NEW step \in Steps,
         me' = [me EXCEPT ![t].pos = at, ![t].n = size, ![t].at = step]
  PROVE  Moved(t, step, me[t].op, me[t].want, at, me[t].far, size, me[t].out)
<1>1. me' = [me EXCEPT ![t] = [me[t] EXCEPT !.pos = at, !.n = size, !.at = step]]
  OBVIOUS
<1>2. [me[t] EXCEPT !.pos = at, !.n = size, !.at = step] \in Locals
  BY DEF Locals
<1>3. me' \in [Threads -> Locals]
  BY <1>1, <1>2
<1> QED
  BY <1>3 DEF Moved, Locals

LEMMA PeekTailSets ==
  ASSUME me \in [Threads -> Locals], NEW t \in Threads,
         NEW size \in Nat \ {0}, NEW at \in Int, NEW step \in Steps, NEW want \in Nat,
         me' = [me EXCEPT ![t].n = size, ![t].at = step, ![t].pos = at, ![t].want = want]
  PROVE  Moved(t, step, me[t].op, want, at, me[t].far, size, me[t].out)
<1>1. me' = [me EXCEPT ![t] = [me[t] EXCEPT !.n = size, !.at = step, !.pos = at, !.want = want]]
  OBVIOUS
<1>2. [me[t] EXCEPT !.n = size, !.at = step, !.pos = at, !.want = want] \in Locals
  BY DEF Locals
<1>3. me' \in [Threads -> Locals]
  BY <1>1, <1>2
<1> QED
  BY <1>3 DEF Moved, Locals

LEMMA AgainSets ==
  ASSUME me \in [Threads -> Locals], NEW t \in Threads, NEW at \in Int, NEW step \in Steps,
         me' = [me EXCEPT ![t].pos = at, ![t].at = step]
  PROVE  Moved(t, step, me[t].op, me[t].want, at, me[t].far, me[t].n, me[t].out)
<1>1. me' = [me EXCEPT ![t] = [me[t] EXCEPT !.pos = at, !.at = step]]
  OBVIOUS
<1>2. [me[t] EXCEPT !.pos = at, !.at = step] \in Locals
  BY DEF Locals
<1>3. me' \in [Threads -> Locals]
  BY <1>1, <1>2
<1> QED
  BY <1>3 DEF Moved, Locals

LEMMA TailSets ==
  ASSUME me \in [Threads -> Locals], NEW t \in Threads, NEW size \in Nat \ {0}, NEW step \in Steps,
         me' = [me EXCEPT ![t].n = size, ![t].at = step]
  PROVE  Moved(t, step, me[t].op, me[t].want, me[t].pos, me[t].far, size, me[t].out)
<1>1. me' = [me EXCEPT ![t] = [me[t] EXCEPT !.n = size, !.at = step]]
  OBVIOUS
<1>2. [me[t] EXCEPT !.n = size, !.at = step] \in Locals
  BY DEF Locals
<1>3. me' \in [Threads -> Locals]
  BY <1>1, <1>2
<1> QED
  BY <1>3 DEF Moved, Locals

LEMMA OutRecord ==
  ASSUME NEW r \in Locals, NEW values \in Seq(Samples), NEW step \in Steps
  PROVE  /\ [r EXCEPT !.out = values, !.at = step] \in Locals
         /\ [r EXCEPT !.at = step, !.out = values] \in Locals
<1>1. [r EXCEPT !.out = values, !.at = step] \in Locals
  BY DEF Locals
<1>2. [r EXCEPT !.at = step, !.out = values] \in Locals
  BY DEF Locals
<1> QED
  BY <1>1, <1>2

LEMMA OutSets ==
  ASSUME me \in [Threads -> Locals], NEW t \in Threads, NEW values \in Seq(Samples), NEW step \in Steps,
         \/ me' = [me EXCEPT ![t].out = values, ![t].at = step]
         \/ me' = [me EXCEPT ![t].at = step, ![t].out = values]
  PROVE  Moved(t, step, me[t].op, me[t].want, me[t].pos, me[t].far, me[t].n, values)
<1>1. CASE me' = [me EXCEPT ![t].out = values, ![t].at = step]
  <2>1. me' = [me EXCEPT ![t] = [me[t] EXCEPT !.out = values, !.at = step]]
    BY <1>1
  <2>2. [me[t] EXCEPT !.out = values, !.at = step] \in Locals
    BY OutRecord
  <2>3. me' \in [Threads -> Locals]
    BY <2>1, <2>2
  <2> QED
    BY <1>1, <2>3 DEF Moved, Locals
<1>2. CASE me' = [me EXCEPT ![t].at = step, ![t].out = values]
  <2>1. me' = [me EXCEPT ![t] = [me[t] EXCEPT !.at = step, !.out = values]]
    BY <1>2
  <2>2. [me[t] EXCEPT !.at = step, !.out = values] \in Locals
    BY OutRecord
  <2>3. me' \in [Threads -> Locals]
    BY <2>1, <2>2
  <2> QED
    BY <1>2, <2>3 DEF Moved, Locals
<1> QED
  BY <1>1, <1>2

\* What Load makes of a thread's record.
LEMMA Loading ==
  ASSUME RingTypes, NEW t \in Threads
  PROVE  /\ Load(t) \in Locals
         /\ Load(t).op = me[t].op /\ Load(t).want = me[t].want
         /\ Load(t).n = me[t].n /\ Load(t).out = me[t].out
         /\ Slotted => Load(t).at = "loadFullSeq" /\ Load(t).pos = tail /\ Load(t).far = me[t].far
         /\ ~Slotted => Load(t).at = "loadOwnTail" /\ Load(t).pos = me[t].pos /\ Load(t).far = head
<1>1. me[t] \in Locals /\ head \in Nat /\ tail \in Nat
  BY DEF RingTypes
<1>2. CASE Slotted
  <2>1. Load(t) = [me[t] EXCEPT !.pos = tail, !.at = "loadFullSeq"]
    BY <1>2 DEF Load
  <2>2. tail \in Int /\ "loadFullSeq" \in Steps
    BY <1>1 DEF Steps
  <2> DEFINE r == [me[t] EXCEPT !.pos = tail, !.at = "loadFullSeq"]
  <2>3. r \in Locals
    BY <1>1, <2>2 DEF Locals
  <2>4. /\ r.op = me[t].op /\ r.want = me[t].want /\ r.n = me[t].n /\ r.out = me[t].out
        /\ r.at = "loadFullSeq" /\ r.pos = tail /\ r.far = me[t].far
    BY <1>1 DEF Locals
  <2> QED
    BY <1>2, <2>1, <2>3, <2>4
<1>3. CASE ~Slotted
  BY <1>1, <1>3 DEF Load, Locals, Steps
<1> QED
  BY <1>2, <1>3

LEMMA LoadSets ==
  ASSUME RingTypes, NEW t \in Threads, me' = [me EXCEPT ![t] = Load(t)]
  PROVE  Moved(t, Load(t).at, me[t].op, me[t].want, Load(t).pos, Load(t).far, me[t].n, me[t].out)
<1>1. me \in [Threads -> Locals]
  BY DEF RingTypes
<1>2. Moved(t, Load(t).at, Load(t).op, Load(t).want, Load(t).pos, Load(t).far, Load(t).n, Load(t).out)
  BY <1>1, Loading, Moving
<1> QED
  BY <1>2, Loading

LEMMA LoadCallSets ==
  ASSUME RingTypes, NEW t \in Threads, NEW size \in Nat, NEW r,
         \/ r = [Load(t) EXCEPT !.want = size] /\ r.op = me[t].op
         \/ \E which \in {"Peek", "PeekLatest"} : r = [Load(t) EXCEPT !.op = which, !.want = size],
         me' = [me EXCEPT ![t] = r]
  PROVE  /\ Moved(t, Load(t).at, r.op, size, Load(t).pos, Load(t).far, me[t].n, me[t].out)
         /\ r.op # me[t].op => r.op \in {"Peek", "PeekLatest"}
<1>1. me \in [Threads -> Locals]
  BY DEF RingTypes
<1>2. Load(t) \in Locals /\ Load(t).op = me[t].op /\ Load(t).n = me[t].n /\ Load(t).out = me[t].out
  BY Loading
<1> DEFINE l == Load(t)
<1> HIDE DEF l
<1>3. /\ r \in Locals /\ r.at = l.at /\ r.want = size /\ r.pos = l.pos /\ r.far = l.far
      /\ r.n = l.n /\ r.out = l.out
      /\ r.op = me[t].op \/ r.op \in {"Peek", "PeekLatest"}
  <2>1. l \in Locals
    BY <1>2 DEF l
  <2>2. CASE r = [l EXCEPT !.want = size] /\ r.op = me[t].op
    BY <2>1, <2>2 DEF Locals
  <2>3. CASE \E which \in {"Peek", "PeekLatest"} : r = [l EXCEPT !.op = which, !.want = size]
    BY <2>1, <2>3 DEF Locals
  <2> QED
    BY <2>2, <2>3 DEF l
<1>4. Moved(t, r.at, r.op, r.want, r.pos, r.far, r.n, r.out)
  BY <1>1, <1>3, Moving
<1> QED
  BY <1>2, <1>3, <1>4 DEF l

-------------------------------------------------------------------------------
\* What each step of a writer does to its thread, and that types are kept.
LEMMA WriterFacts ==
  ASSUME RingTypes, NEW p \in Producers
  PROVE  /\ p \in Threads /\ me \in [Threads -> Locals] /\ me[p].at \in WriteSteps
         /\ me[p].at # "idle" => p \in Writers
         /\ Fits(me[p].at, me[p].n, me[p].out)
         /\ me[p].n \in Nat \ {0} /\ me[p].pos \in Int /\ me[p].out \in Seq(Samples)
         /\ Len(me[p].out) \in Nat
<1>1. p \in Threads /\ me \in [Threads -> Locals]
  BY Roles DEF RingTypes
<1> QED
  BY <1>1, LocalType DEF RingTypes, OutFits

LEMMA WriteCallDoes ==
  ASSUME RingTypes, NEW p \in Producers, WriteCall(p)
  PROVE  /\ \E size \in Nat \ {0} :
              /\ Slotted => size = 1
              /\ Moved(p, IF Slotted THEN "loadSeq" ELSE "loadTail",
                       me[p].op, me[p].want, head, me[p].far, size, <<>>)
         /\ Local /\ RingTypes' /\ p \in Writers /\ me[p].at = "idle" /\ readLock' = readLock
         /\ IF kind \in {"SeqLockRing", "MPSeqRing"} THEN writeLock = NoThread /\ writeLock' = p
            ELSE writeLock' = writeLock
<1> DEFINE step == IF Slotted THEN "loadSeq" ELSE "loadTail"
<1>1. /\ p \in Writers /\ me[p].at = "idle" /\ readLock' = readLock
      /\ IF kind \in {"SeqLockRing", "MPSeqRing"} THEN writeLock = NoThread /\ writeLock' = p
         ELSE writeLock' = writeLock
  BY DEF WriteCall, At
<1>2. Local
  BY DEF WriteCall, Local, slots, history
<1>3. PICK size \in Batches :
        me' = [me EXCEPT ![p].n = size, ![p].pos = head, ![p].at = step]
  BY DEF WriteCall
<1>4. size \in Nat \ {0} /\ (Slotted => size = 1)
  BY RingsAssumption DEF Batches, Slotted
<1>5. step \in Steps /\ step \in WriteSteps /\ head \in Int /\ Fits(step, size, <<>>)
  BY DEF Steps, WriteSteps, Slotted, RingTypes, Fits
<1>6. me[p].out = <<>>
  BY <1>1, WriterFacts DEF Fits
<1> HIDE DEF step
<1>7. Moved(p, step, me[p].op, me[p].want, head, me[p].far, size, <<>>)
  BY <1>3, <1>4, <1>5, <1>6, CallSets, WriterFacts
<1>8. writeLock' \in Producers \cup {NoThread}
  BY <1>1 DEF RingTypes
<1>9. RingTypes'
  BY <1>1, <1>2, <1>5, <1>7, <1>8, ProducerLocal
<1> QED
  BY <1>1, <1>2, <1>4, <1>7, <1>9 DEF step

LEMMA WriteAgainDoes ==
  ASSUME RingTypes, NEW p \in Producers, WriteAgain(p)
  PROVE  /\ Moved(p, "loadSeq", me[p].op, me[p].want, head, me[p].far, me[p].n, <<>>)
         /\ Local /\ RingTypes' /\ me[p].at = "writeAgain" /\ kind = "HPRing"
<1>1. /\ me[p].at = "writeAgain" /\ UNCHANGED locks /\ Local
      /\ me' = [me EXCEPT ![p].pos = head, ![p].at = "loadSeq"]
  BY DEF WriteAgain, At, Local, shared, slots, history
<1>2. kind = "HPRing" /\ p \in Writers /\ me[p].out = <<>>
  BY <1>1, WriterFacts DEF Fits, WriteSteps
<1>3. "loadSeq" \in Steps /\ "loadSeq" \in WriteSteps /\ head \in Int /\ Fits("loadSeq", me[p].n, <<>>)
  BY <1>2 DEF Steps, WriteSteps, RingTypes, Fits
<1>4. Moved(p, "loadSeq", me[p].op, me[p].want, head, me[p].far, me[p].n, <<>>)
  BY <1>1, <1>2, <1>3, AgainSets, WriterFacts
<1>5. writeLock' \in Producers \cup {NoThread} /\ readLock' = readLock
  BY <1>1 DEF RingTypes, locks
<1> QED
  BY <1>1, <1>2, <1>3, <1>4, <1>5, ProducerLocal

LEMMA RefuseDoes ==
  ASSUME RingTypes, NEW p \in Producers, Refuse(p)
  PROVE  /\ Moved(p, "idle", "none", 0, 0, 0, 1, <<>>) /\ Local /\ RingTypes'
         /\ writeLock' = IF writeLock = p THEN NoThread ELSE writeLock
         /\ readLock' = readLock
<1>1. /\ Local /\ readLock' = readLock /\ Return(p)
      /\ writeLock' = IF writeLock = p THEN NoThread ELSE writeLock
  BY DEF Refuse, Release, Local, slots, history
<1>2. Moved(p, "idle", "none", 0, 0, 0, 1, <<>>)
  BY <1>1, Returning, WriterFacts
<1>3. "idle" \in WriteSteps /\ Fits("idle", 1, <<>>)
  BY DEF WriteSteps, Fits
<1>4. writeLock' \in Producers \cup {NoThread}
  BY <1>1 DEF RingTypes
<1> QED
  BY <1>1, <1>2, <1>3, <1>4, ProducerLocal

\* A step that only goes on to another.
LEMMA WriterGoes ==
  ASSUME RingTypes, NEW p \in Producers, NEW step \in Steps, Goto(p, step), Local, UNCHANGED locks,
         me[p].at # "idle", step \in WriteSteps, Fits(step, me[p].n, me[p].out)
  PROVE  /\ Moved(p, step, me[p].op, me[p].want, me[p].pos, me[p].far, me[p].n, me[p].out)
         /\ RingTypes'
<1>1. Moved(p, step, me[p].op, me[p].want, me[p].pos, me[p].far, me[p].n, me[p].out)
  BY Going, WriterFacts
<1>2. writeLock' \in Producers \cup {NoThread} /\ readLock' = readLock /\ p \in Writers
  BY WriterFacts DEF RingTypes, locks
<1> QED
  BY <1>1, <1>2, ProducerLocal

LEMMA LoadSeqDoes ==
  ASSUME RingTypes, NEW p \in Producers, LoadSeq(p)
  PROVE  /\ me[p].at = "loadSeq" /\ Slotted /\ me[p].out = <<>>
         /\ \/ Refuse(p)
            \/ /\ \/ seq[Slot(me[p].pos)] = me[p].pos /\ kind = "HPRing"
                     /\ Moved(p, "claim", me[p].op, me[p].want, me[p].pos, me[p].far, me[p].n, <<>>)
                  \/ seq[Slot(me[p].pos)] = me[p].pos /\ kind = "SlotRing" /\ me[p].n > 0
                     /\ Moved(p, "fill", me[p].op, me[p].want, me[p].pos, me[p].far, me[p].n, <<>>)
                  \/ kind = "HPRing"
                     /\ Moved(p, "writeAgain", me[p].op, me[p].want, me[p].pos, me[p].far, me[p].n, <<>>)
               /\ Local /\ RingTypes'
<1>1. me[p].at = "loadSeq"
  BY DEF LoadSeq, At
<1>2. Slotted /\ me[p].out = <<>> /\ me[p].n \in Nat \ {0}
  BY <1>1, WriterFacts DEF Fits, WriteSteps, Slotted
<1>3. CASE Refuse(p)
  BY <1>1, <1>2, <1>3
<1>4. CASE /\ seq[Slot(me[p].pos)] = me[p].pos
           /\ Goto(p, IF kind = "HPRing" THEN "claim" ELSE "fill")
           /\ UNCHANGED <<kind, shared, offered, history>>
  <2>1. Local /\ UNCHANGED locks
    BY <1>4 DEF Local, shared, slots, history
  <2>2. CASE kind = "HPRing"
    <3>1. "claim" \in Steps /\ "claim" \in WriteSteps /\ Fits("claim", me[p].n, me[p].out)
      BY <1>2, <2>2 DEF Steps, WriteSteps, Fits
    <3> QED
      BY <1>1, <1>2, <1>4, <2>1, <2>2, <3>1, WriterGoes
  <2>3. CASE kind = "SlotRing"
    <3>1. "fill" \in Steps /\ "fill" \in WriteSteps /\ Fits("fill", me[p].n, me[p].out)
      BY <1>2, <2>3 DEF Steps, WriteSteps, Fits
    <3> QED
      BY <1>1, <1>2, <1>4, <2>1, <2>3, <3>1, WriterGoes
  <2> QED
    BY <1>2, <2>2, <2>3 DEF Slotted
<1>5. CASE kind = "HPRing" /\ Goto(p, "writeAgain") /\ UNCHANGED <<kind, shared, offered, history>>
  <2>1. Local /\ UNCHANGED locks
    BY <1>5 DEF Local, shared, slots, history
  <2>2. "writeAgain" \in Steps /\ "writeAgain" \in WriteSteps /\ Fits("writeAgain", me[p].n, me[p].out)
    BY <1>2, <1>5 DEF Steps, WriteSteps, Fits
  <2> QED
    BY <1>1, <1>2, <1>5, <2>1, <2>2, WriterGoes
<1> QED
  BY <1>3, <1>4, <1>5 DEF LoadSeq

LEMMA ClaimDoes ==
  ASSUME RingTypes, NEW p \in Producers, Claim(p)
  PROVE  /\ me[p].at = "claim" /\ kind = "HPRing" /\ RingTypes' /\ me[p].out = <<>>
         /\ \/ /\ head = me[p].pos /\ head' = head + 1 /\ written' = Append(written, Value(p, 1))
               /\ Moved(p, "fill", me[p].op, me[p].want, me[p].pos, me[p].far, me[p].n, <<>>)
               /\ UNCHANGED <<kind, tail, slot, seq, writeLock, readLock, offered, got>>
            \/ /\ Local
               /\ Moved(p, "writeAgain", me[p].op, me[p].want, me[p].pos, me[p].far, me[p].n, <<>>)
<1>1. me[p].at = "claim"
  BY DEF Claim, At
<1>2. kind = "HPRing" /\ me[p].out = <<>> /\ me[p].n \in Nat \ {0} /\ p \in Writers
  BY <1>1, WriterFacts DEF Fits, WriteSteps
<1>3. CASE head # me[p].pos /\ Goto(p, "writeAgain") /\ UNCHANGED <<head, written>>
  <2>1. Local /\ UNCHANGED locks
    BY <1>3 DEF Claim, Local, slots, history
  <2>2. "writeAgain" \in Steps /\ "writeAgain" \in WriteSteps /\ Fits("writeAgain", me[p].n, me[p].out)
    BY <1>2 DEF Steps, WriteSteps, Fits
  <2> QED
    BY <1>1, <1>2, <1>3, <2>1, <2>2, WriterGoes
<1>4. CASE /\ head = me[p].pos /\ head' = me[p].pos + 1 /\ Goto(p, "fill")
           /\ written' = Append(written, Value(p, 1))
  <2>1. UNCHANGED <<kind, tail, slot, seq, writeLock, readLock, offered, got>>
    BY DEF Claim, slots, locks
  <2>2. "fill" \in Steps /\ "fill" \in WriteSteps /\ Fits("fill", me[p].n, <<>>)
    BY <1>2 DEF Steps, WriteSteps, Fits
  <2>3. Moved(p, "fill", me[p].op, me[p].want, me[p].pos, me[p].far, me[p].n, <<>>)
    BY <1>2, <1>4, <2>2, Going, WriterFacts
  <2>4. WriteSteps' = WriteSteps /\ Writers' = Writers
    BY <2>1 DEF WriteSteps, Writers
  <2>5. Placed(p)'
    BY <1>2, <2>2, <2>3, <2>4, Roles DEF Placed, OutFits, Moved
  <2>6. Value(p, 1) \in Producers \X Nat
    BY DEF Value, RingTypes
  <2>7. written' \in Seq(Producers \X Nat)
    BY <1>4, <2>6 DEF RingTypes
  <2>8. head' \in Nat
    BY <1>4 DEF RingTypes
  <2>9. RingTypes'
    BY <2>1, <2>3, <2>5, <2>7, <2>8, Roles, TypesKept DEF RingTypes, Moved
  <2> QED
    BY <1>1, <1>2, <1>4, <2>1, <2>3, <2>9
<1> QED
  BY <1>3, <1>4 DEF Claim

LEMMA LoadTailDoes ==
  ASSUME RingTypes, NEW p \in Producers, LoadTail(p)
  PROVE  /\ me[p].at = "loadTail" /\ Plain /\ me[p].out = <<>>
         /\ \/ Refuse(p)
            \/ /\ \E size \in Nat \ {0} :
                    /\ size <= Capacity - (me[p].pos - tail)
                    /\ Moved(p, "fill", me[p].op, me[p].want, me[p].pos, me[p].far, size, <<>>)
               /\ Local /\ RingTypes' /\ UNCHANGED locks
<1> DEFINE free == Capacity - (me[p].pos - tail)
<1>1. me[p].at = "loadTail"
  BY DEF LoadTail, At
<1>2. Plain /\ me[p].out = <<>> /\ me[p].n \in Nat \ {0} /\ p \in Writers
      /\ kind \notin {"HPRing", "SlotRing"}
  BY <1>1, WriterFacts DEF Fits, WriteSteps, Plain, Slotted
<1>3. CASE free = 0 /\ Refuse(p)
  BY <1>1, <1>2, <1>3
<1>4. CASE /\ free > 0 /\ me' = [me EXCEPT ![p].n = Lowest(@, free), ![p].at = "fill"]
           /\ UNCHANGED <<kind, shared, offered, history>>
  <2> DEFINE size == Lowest(me[p].n, free)
  <2>1. Local /\ UNCHANGED locks
    BY <1>4 DEF Local, shared, slots, history
  <2>2. me[p].pos \in Int /\ tail \in Nat /\ Capacity \in Nat
    BY WriterFacts, RingsAssumption DEF RingTypes
  <2>3. free \in Int
    BY <2>2
  <2>4. size \in Nat \ {0} /\ size <= free
    BY <1>2, <1>4, <2>3 DEF Lowest
  <2>5. "fill" \in Steps /\ "fill" \in WriteSteps /\ Fits("fill", size, <<>>)
    BY <1>2, <2>4 DEF Steps, WriteSteps, Fits
  <2>6. me' = [me EXCEPT ![p].n = size, ![p].at = "fill"]
    BY <1>4
  <2> HIDE DEF size, free
  <2>7. Moved(p, "fill", me[p].op, me[p].want, me[p].pos, me[p].far, size, <<>>)
    BY <1>2, <2>4, <2>5, <2>6, TailSets, WriterFacts
  <2>8. writeLock' \in Producers \cup {NoThread} /\ readLock' = readLock
    BY <2>1 DEF RingTypes, locks
  <2>9. RingTypes'
    BY <1>2, <2>1, <2>5, <2>7, <2>8, ProducerLocal
  <2> QED
    BY <1>1, <1>2, <2>1, <2>4, <2>7, <2>9 DEF free
<1> QED
  BY <1>3, <1>4 DEF LoadTail

LEMMA FillDoes ==
  ASSUME RingTypes, NEW p \in Producers, Fill(p)
  PROVE  /\ me[p].at = "fill" /\ RingTypes'
         /\ Moved(p, "filling", me[p].op, me[p].want, me[p].pos, me[p].far, me[p].n, me[p].out)
         /\ slot' = [slot EXCEPT ![FillSlot(p)] = Torn]
         /\ UNCHANGED <<kind, head, tail, seq, writeLock, readLock, offered, written, got>>
<1>1. /\ me[p].at = "fill" /\ Goto(p, "filling")
      /\ slot' = [slot EXCEPT ![FillSlot(p)] = Torn]
      /\ UNCHANGED <<kind, head, tail, seq, writeLock, readLock, offered, written, got>>
  BY DEF Fill, At, locks, history
<1>2. "filling" \in Steps /\ "filling" \in WriteSteps /\ Fits("filling", me[p].n, me[p].out)
      /\ p \in Writers
  BY <1>1, WriterFacts DEF Steps, WriteSteps, Fits
<1>3. Moved(p, "filling", me[p].op, me[p].want, me[p].pos, me[p].far, me[p].n, me[p].out)
  BY <1>1, <1>2, Going, WriterFacts
<1>4. WriteSteps' = WriteSteps /\ Writers' = Writers
  BY <1>1 DEF WriteSteps, Writers
<1>5. Placed(p)'
  BY <1>2, <1>3, <1>4, Roles DEF Placed, OutFits, Moved
<1>6. Torn \in Samples
  BY DEF Samples
<1>7. slot' \in [SlotIndex -> Samples]
  BY <1>1, <1>6 DEF RingTypes
<1>8. RingTypes'
  BY <1>1, <1>3, <1>5, <1>7, Roles, TypesKept DEF RingTypes, Moved
<1> QED
  BY <1>1, <1>3, <1>8

LEMMA FilledDoes ==
  ASSUME RingTypes, NEW p \in Producers, Filled(p)
  PROVE  /\ me[p].at = "filling" /\ RingTypes' /\ Len(me[p].out) < me[p].n
         /\ slot' = [slot EXCEPT ![FillSlot(p)] = Value(p, Len(me[p].out) + 1)]
         /\ Moved(p, IF Len(me[p].out) + 1 < me[p].n THEN "fill" ELSE "publish",
                  me[p].op, me[p].want, me[p].pos, me[p].far, me[p].n,
                  Append(me[p].out, Value(p, Len(me[p].out) + 1)))
         /\ UNCHANGED <<kind, head, tail, seq, writeLock, readLock, offered, written, got>>
<1> DEFINE value == Value(p, Len(me[p].out) + 1)
           values == Append(me[p].out, value)
           step == IF Len(me[p].out) + 1 < me[p].n THEN "fill" ELSE "publish"
<1>1. /\ me[p].at = "filling"
      /\ slot' = [slot EXCEPT ![FillSlot(p)] = value]
      /\ UNCHANGED <<kind, head, tail, seq, writeLock, readLock, offered, written, got>>
  BY DEF Filled, At, locks, history
<1>2. me' = [me EXCEPT ![p].out = values, ![p].at = step]
  BY DEF Filled
<1>3. Len(me[p].out) < me[p].n /\ Len(me[p].out) \in Nat /\ me[p].n \in Nat /\ p \in Writers
      /\ me[p].out \in Seq(Samples)
  BY <1>1, WriterFacts DEF Fits
<1>4. value \in Producers \X Nat /\ value \in Samples
  <2>1. offered[p] \in Nat
    BY DEF RingTypes
  <2>2. offered[p] + (Len(me[p].out) + 1) \in Nat
    BY <1>3, <2>1
  <2> QED
    BY <2>2 DEF Value, Samples
<1> HIDE DEF value
<1>5. values \in Seq(Samples) /\ Len(values) = Len(me[p].out) + 1
  BY <1>3, <1>4, Appended
<1>6. step \in Steps /\ step \in WriteSteps
  BY DEF Steps, WriteSteps
<1>7. Fits(step, me[p].n, values)
  BY <1>3, <1>5 DEF Fits
<1> HIDE DEF values, step
<1>8. Moved(p, step, me[p].op, me[p].want, me[p].pos, me[p].far, me[p].n, values)
  BY <1>2, <1>5, <1>6, OutSets, WriterFacts
<1>9. WriteSteps' = WriteSteps /\ Writers' = Writers
  BY <1>1 DEF WriteSteps, Writers
<1>10. Placed(p)'
  BY <1>3, <1>6, <1>7, <1>8, <1>9, Roles DEF Placed, OutFits, Moved
<1>11. slot' \in [SlotIndex -> Samples]
  BY <1>1, <1>4 DEF RingTypes
<1>12. RingTypes'
  BY <1>1, <1>8, <1>10, <1>11, Roles, TypesKept DEF RingTypes, Moved
<1> QED
  BY <1>1, <1>3, <1>8, <1>12 DEF value, values, step

LEMMA AdvanceDoes ==
  ASSUME RingTypes, NEW p \in Producers, me[p].pos \in Nat, Advance(p)
  PROVE  /\ me[p].at = "advance" /\ RingTypes' /\ head' = me[p].pos + 1 /\ kind = "SlotRing"
         /\ Moved(p, "idle", "none", 0, 0, 0, 1, <<>>)
         /\ UNCHANGED <<kind, tail, slot, seq, writeLock, readLock, offered, written, got>>
<1>1. /\ me[p].at = "advance" /\ Return(p) /\ head' = me[p].pos + 1
      /\ UNCHANGED <<kind, tail, slot, seq, writeLock, readLock, offered, written, got>>
  BY DEF Advance, At, locks, history, slots
<1>2. kind = "SlotRing"
  BY <1>1, WriterFacts DEF WriteSteps
<1>3. Moved(p, "idle", "none", 0, 0, 0, 1, <<>>)
  BY <1>1, Returning, WriterFacts
<1>4. "idle" \in WriteSteps'
  BY DEF WriteSteps
<1>5. Placed(p)'
  BY <1>3, <1>4, Roles DEF Placed, OutFits, Moved, Fits
<1>6. head' \in Nat
  BY <1>1
<1>7. RingTypes'
  BY <1>1, <1>3, <1>5, <1>6, Roles, TypesKept DEF RingTypes, Moved
<1> QED
  BY <1>1, <1>2, <1>3, <1>7

LEMMA PublishSeqDoes ==
  ASSUME RingTypes, NEW p \in Producers, me[p].pos \in Nat, PublishSeq(p)
  PROVE  /\ me[p].at = "publish" /\ Slotted /\ RingTypes' /\ Len(me[p].out) = me[p].n
         /\ seq' = [seq EXCEPT ![Slot(me[p].pos)] = me[p].pos + 1]
         /\ offered' = [offered EXCEPT ![p] = offered[p] + 1]
         /\ \/ kind = "HPRing" /\ Moved(p, "idle", "none", 0, 0, 0, 1, <<>>) /\ written' = written
            \/ /\ kind = "SlotRing" /\ written' = Append(written, Value(p, 1))
               /\ Moved(p, "advance", me[p].op, me[p].want, me[p].pos, me[p].far, me[p].n, me[p].out)
         /\ UNCHANGED <<kind, head, tail, slot, writeLock, readLock, got>>
<1>1. /\ me[p].at = "publish" /\ Slotted
      /\ seq' = [seq EXCEPT ![Slot(me[p].pos)] = me[p].pos + 1]
      /\ offered' = [offered EXCEPT ![p] = offered[p] + 1]
      /\ UNCHANGED <<kind, head, tail, slot, writeLock, readLock, got>>
  BY DEF PublishSeq, At, locks, Stamp
<1>2. Len(me[p].out) = me[p].n /\ p \in Writers
  BY <1>1, WriterFacts DEF Fits
<1>3. WriteSteps' = WriteSteps /\ Writers' = Writers
  BY <1>1 DEF WriteSteps, Writers
<1>4. offered' \in [Producers -> Nat] /\ seq' \in [SlotIndex -> Nat]
  <2>1. offered \in [Producers -> Nat] /\ seq \in [SlotIndex -> Nat]
    BY DEF RingTypes
  <2>2. offered[p] + 1 \in Nat /\ me[p].pos + 1 \in Nat
    BY <2>1
  <2>3. offered' \in [Producers -> Nat]
    BY <1>1, <2>1, <2>2
  <2>4. seq' \in [SlotIndex -> Nat]
    BY <1>1, <2>1, <2>2
  <2> QED
    BY <2>3, <2>4
<1>5. CASE kind = "HPRing"
  <2>1. Return(p) /\ written' = written
    BY <1>5 DEF PublishSeq
  <2>2. Moved(p, "idle", "none", 0, 0, 0, 1, <<>>)
    BY <2>1, Returning, WriterFacts
  <2>3. "idle" \in WriteSteps'
    BY DEF WriteSteps
  <2>4. Placed(p)'
    BY <2>2, <2>3, Roles DEF Placed, OutFits, Moved, Fits
  <2>5. RingTypes'
    BY <1>1, <1>4, <2>1, <2>2, <2>4, Roles, TypesKept DEF RingTypes, Moved
  <2> QED
    BY <1>1, <1>2, <1>5, <2>1, <2>2, <2>5
<1>6. CASE kind = "SlotRing"
  <2>1. Goto(p, "advance") /\ written' = Append(written, Value(p, 1))
    BY <1>6 DEF PublishSeq
  <2>2. "advance" \in Steps /\ "advance" \in WriteSteps
    BY <1>6 DEF Steps, WriteSteps
  <2>3. Moved(p, "advance", me[p].op, me[p].want, me[p].pos, me[p].far, me[p].n, me[p].out)
    BY <2>1, <2>2, Going, WriterFacts
  <2>4. Fits("advance", me[p].n, me[p].out)
    BY <1>2 DEF Fits
  <2>5. Placed(p)'
    BY <1>2, <1>3, <2>2, <2>3, <2>4, Roles DEF Placed, OutFits, Moved
  <2>6. Value(p, 1) \in Producers \X Nat
    BY DEF Value, RingTypes
  <2>7. written' \in Seq(Producers \X Nat)
    BY <2>1, <2>6 DEF RingTypes
  <2>8. RingTypes'
    BY <1>1, <1>4, <2>3, <2>5, <2>7, Roles, TypesKept DEF RingTypes, Moved
  <2> QED
    BY <1>1, <1>2, <1>6, <2>1, <2>3, <2>8
<1> QED
  BY <1>1, <1>5, <1>6 DEF Slotted

LEMMA PublishHeadDoes ==
  ASSUME RingTypes, NEW p \in Producers, me[p].pos \in Nat, me[p].out \in Seq(Producers \X Nat), PublishHead(p)
  PROVE  /\ me[p].at = "publish" /\ Plain /\ RingTypes' /\ Len(me[p].out) = me[p].n
         /\ head' = me[p].pos + me[p].n /\ written' = written \o me[p].out
         /\ offered' = [offered EXCEPT ![p] = offered[p] + me[p].n]
         /\ writeLock' = IF writeLock = p THEN NoThread ELSE writeLock
         /\ Moved(p, "idle", "none", 0, 0, 0, 1, <<>>)
         /\ UNCHANGED <<kind, tail, slot, seq, readLock, got>>
<1>1. /\ me[p].at = "publish" /\ Plain
      /\ head' = me[p].pos + me[p].n /\ written' = written \o me[p].out
      /\ offered' = [offered EXCEPT ![p] = offered[p] + me[p].n]
      /\ writeLock' = IF writeLock = p THEN NoThread ELSE writeLock
      /\ Return(p)
      /\ UNCHANGED <<kind, tail, slot, seq, readLock, got>>
  BY DEF PublishHead, At, Release, Plain, slots
<1>2. Len(me[p].out) = me[p].n /\ me[p].n \in Nat
  BY <1>1, WriterFacts DEF Fits
<1>3. Moved(p, "idle", "none", 0, 0, 0, 1, <<>>)
  BY <1>1, Returning, WriterFacts
<1>4. "idle" \in WriteSteps'
  BY DEF WriteSteps
<1>5. Placed(p)'
  BY <1>3, <1>4, Roles DEF Placed, OutFits, Moved, Fits
<1>6. head' \in Nat /\ offered' \in [Producers -> Nat] /\ writeLock' \in Producers \cup {NoThread}
  <2>1. offered \in [Producers -> Nat] /\ writeLock \in Producers \cup {NoThread}
    BY DEF RingTypes
  <2>2. offered[p] + me[p].n \in Nat
    BY <1>2, <2>1
  <2>3. offered' \in [Producers -> Nat]
    BY <1>1, <2>1, <2>2
  <2>4. head' \in Nat
    BY <1>1, <1>2
  <2>5. writeLock' \in Producers \cup {NoThread}
    BY <1>1, <2>1
  <2> QED
    BY <2>3, <2>4, <2>5
<1>7. written' \in Seq(Producers \X Nat)
  BY <1>1 DEF RingTypes
<1>8. RingTypes'
  BY <1>1, <1>3, <1>5, <1>6, <1>7, Roles, TypesKept DEF RingTypes, Moved
<1> QED
  BY <1>1, <1>2, <1>3, <1>8

-------------------------------------------------------------------------------
\* What each step of a reader does to its thread, and that types are kept.
LEMMA ReaderFacts ==
  ASSUME RingTypes, NEW c \in Consumers
  PROVE  /\ c \in Threads /\ me \in [Threads -> Locals] /\ me[c].at \in ReadSteps
         /\ me[c].at # "idle" => c \in Readers
         /\ Fits(me[c].at, me[c].n, me[c].out)
         /\ me[c].n \in Nat \ {0} /\ me[c].pos \in Int /\ me[c].out \in Seq(Samples)
         /\ me[c].want \in Nat /\ me[c].far \in Nat
         /\ Len(me[c].out) \in Nat
<1>1. c \in Threads /\ me \in [Threads -> Locals]
  BY Roles DEF RingTypes
<1> QED
  BY <1>1, LocalType DEF RingTypes, OutFits

(* The step after Load, and the fields it sets.                              *)
Loaded(t, op, want) ==
  IF Slotted THEN Moved(t, "loadFullSeq", op, want, tail, me[t].far, me[t].n, <<>>)
             ELSE Moved(t, "loadOwnTail", op, want, me[t].pos, head, me[t].n, <<>>)

LEMMA ReadCallDoes ==
  ASSUME RingTypes, NEW c \in Consumers, ReadCall(c)
  PROVE  /\ \E size \in Nat \ {0} : Loaded(c, me[c].op, size)
         /\ Local /\ RingTypes' /\ c \in Readers /\ me[c].at = "idle" /\ writeLock' = writeLock
         /\ IF kind = "MPSeqRing" THEN readLock = NoThread /\ readLock' = c ELSE readLock' = readLock
<1>1. /\ c \in Readers /\ me[c].at = "idle" /\ writeLock' = writeLock
      /\ IF kind = "MPSeqRing" THEN readLock = NoThread /\ readLock' = c ELSE readLock' = readLock
  BY DEF ReadCall, At
<1>2. Local
  BY DEF ReadCall, Local, slots, history
<1>3. PICK size \in Batches : me' = [me EXCEPT ![c] = [Load(c) EXCEPT !.want = size]]
  BY DEF ReadCall
<1>4. size \in Nat \ {0}
  BY RingsAssumption DEF Batches
<1>5. me[c].out = <<>> /\ me[c].n \in Nat \ {0} /\ c \in Threads
  BY <1>1, ReaderFacts DEF Fits
<1> DEFINE r == [Load(c) EXCEPT !.want = size]
<1>6. r.op = me[c].op
  <2>1. Load(c) \in Locals /\ Load(c).op = me[c].op
    BY <1>5, Loading
  <2> QED
    BY <2>1 DEF Locals
<1>7. Moved(c, Load(c).at, r.op, size, Load(c).pos, Load(c).far, me[c].n, me[c].out)
  <2>1. size \in Nat /\ me' = [me EXCEPT ![c] = r]
    BY <1>3, <1>4
  <2> QED
    BY <1>5, <1>6, <2>1, LoadCallSets
<1> HIDE DEF r
<1>8. Loaded(c, me[c].op, size)
  BY <1>5, <1>6, <1>7, Loading DEF Loaded
<1>9. Moved(c, Load(c).at, me[c].op, size, Load(c).pos, Load(c).far, me[c].n, <<>>)
  BY <1>5, <1>6, <1>7
<1>10. Load(c).at \in ReadSteps /\ Fits(Load(c).at, me[c].n, <<>>)
  BY <1>1, <1>5, Loading DEF ReadSteps, Slotted, Fits, RingTypes, AllKinds
<1>11. readLock' \in Consumers \cup {NoThread}
  BY <1>1 DEF RingTypes
<1>12. RingTypes'
  BY <1>1, <1>2, <1>9, <1>10, <1>11, ConsumerLocal
<1> QED
  BY <1>1, <1>2, <1>4, <1>8, <1>12

LEMMA ReadAgainDoes ==
  ASSUME RingTypes, NEW c \in Consumers, ReadAgain(c)
  PROVE  /\ Loaded(c, me[c].op, me[c].want) /\ kind \in {"HPRing", "SeqLockRing"}
         /\ Local /\ RingTypes' /\ me[c].at = "readAgain" /\ UNCHANGED locks
<1>1. /\ me[c].at = "readAgain" /\ UNCHANGED locks /\ Local /\ me' = [me EXCEPT ![c] = Load(c)]
  BY DEF ReadAgain, At, Local, shared, slots, history
<1>2. me[c].out = <<>> /\ me[c].n \in Nat \ {0} /\ c \in Threads /\ c \in Readers
      /\ kind \in {"HPRing", "SeqLockRing"}
  BY <1>1, ReaderFacts DEF Fits, ReadSteps
<1>3. Moved(c, Load(c).at, me[c].op, me[c].want, Load(c).pos, Load(c).far, me[c].n, <<>>)
  BY <1>1, <1>2, LoadSets
<1>4. Loaded(c, me[c].op, me[c].want)
  BY <1>2, <1>3, Loading DEF Loaded
<1>5. Load(c).at \in ReadSteps /\ Fits(Load(c).at, me[c].n, <<>>)
  BY <1>2, Loading DEF ReadSteps, Slotted, Fits, RingTypes, AllKinds
<1>6. readLock' \in Consumers \cup {NoThread} /\ writeLock' = writeLock
  BY <1>1 DEF RingTypes, locks
<1>7. RingTypes'
  BY <1>1, <1>2, <1>3, <1>5, <1>6, ConsumerLocal
<1> QED
  BY <1>1, <1>2, <1>4, <1>7

LEMMA FindNothingDoes ==
  ASSUME RingTypes, NEW c \in Consumers, FindNothing(c)
  PROVE  /\ Moved(c, "idle", "none", 0, 0, 0, 1, <<>>) /\ Local /\ RingTypes'
         /\ readLock' = IF readLock = c THEN NoThread ELSE readLock
         /\ writeLock' = writeLock
<1>1. /\ Local /\ writeLock' = writeLock /\ Return(c)
      /\ readLock' = IF readLock = c THEN NoThread ELSE readLock
  BY DEF FindNothing, Release, Local, slots, history
<1>2. Moved(c, "idle", "none", 0, 0, 0, 1, <<>>)
  BY <1>1, Returning, ReaderFacts
<1>3. "idle" \in ReadSteps /\ Fits("idle", 1, <<>>)
  BY DEF ReadSteps, Fits
<1>4. readLock' \in Consumers \cup {NoThread}
  BY <1>1 DEF RingTypes
<1> QED
  BY <1>1, <1>2, <1>3, <1>4, ConsumerLocal

LEMMA ReaderGoes ==
  ASSUME RingTypes, NEW c \in Consumers, NEW step \in Steps, Goto(c, step), Local, UNCHANGED locks,
         me[c].at # "idle", step \in ReadSteps, Fits(step, me[c].n, me[c].out)
  PROVE  /\ Moved(c, step, me[c].op, me[c].want, me[c].pos, me[c].far, me[c].n, me[c].out)
         /\ RingTypes'
<1>1. Moved(c, step, me[c].op, me[c].want, me[c].pos, me[c].far, me[c].n, me[c].out)
  BY Going, ReaderFacts
<1>2. readLock' \in Consumers \cup {NoThread} /\ writeLock' = writeLock /\ c \in Readers
  BY ReaderFacts DEF RingTypes, locks
<1> QED
  BY <1>1, <1>2, ConsumerLocal

LEMMA LoadFullSeqDoes ==
  ASSUME RingTypes, NEW c \in Consumers, LoadFullSeq(c)
  PROVE  /\ me[c].at = "loadFullSeq" /\ Slotted /\ me[c].out = <<>>
         /\ \/ FindNothing(c)
            \/ /\ \/ seq[Slot(me[c].pos)] = me[c].pos + 1 /\ kind = "HPRing"
                     /\ Moved(c, "claimRead", me[c].op, me[c].want, me[c].pos, me[c].far, me[c].n, <<>>)
                  \/ seq[Slot(me[c].pos)] = me[c].pos + 1 /\ kind = "SlotRing"
                     /\ Moved(c, "copy", me[c].op, me[c].want, me[c].pos, me[c].far, me[c].n, <<>>)
                  \/ kind = "HPRing"
                     /\ Moved(c, "readAgain", me[c].op, me[c].want, me[c].pos, me[c].far, me[c].n, <<>>)
               /\ Local /\ RingTypes'
<1>1. me[c].at = "loadFullSeq"
  BY DEF LoadFullSeq, At
<1>2. Slotted /\ me[c].out = <<>> /\ me[c].n \in Nat \ {0}
  BY <1>1, ReaderFacts DEF Fits, ReadSteps, Slotted
<1>3. CASE FindNothing(c)
  BY <1>1, <1>2, <1>3
<1>4. CASE /\ seq[Slot(me[c].pos)] = me[c].pos + 1
           /\ Goto(c, IF kind = "HPRing" THEN "claimRead" ELSE "copy")
           /\ UNCHANGED <<kind, shared, offered, history>>
  <2>1. Local /\ UNCHANGED locks
    BY <1>4 DEF Local, shared, slots, history
  <2>2. CASE kind = "HPRing"
    <3>1. "claimRead" \in Steps /\ "claimRead" \in ReadSteps /\ Fits("claimRead", me[c].n, me[c].out)
      BY <1>2, <2>2 DEF Steps, ReadSteps, Fits
    <3> QED
      BY <1>1, <1>2, <1>4, <2>1, <2>2, <3>1, ReaderGoes
  <2>3. CASE kind = "SlotRing"
    <3>1. "copy" \in Steps /\ "copy" \in ReadSteps /\ Fits("copy", me[c].n, me[c].out)
      BY <1>2, <2>3 DEF Steps, ReadSteps, Fits
    <3> QED
      BY <1>1, <1>2, <1>4, <2>1, <2>3, <3>1, ReaderGoes
  <2> QED
    BY <1>2, <2>2, <2>3 DEF Slotted
<1>5. CASE kind = "HPRing" /\ Goto(c, "readAgain") /\ UNCHANGED <<kind, shared, offered, history>>
  <2>1. Local /\ UNCHANGED locks
    BY <1>5 DEF Local, shared, slots, history
  <2>2. "readAgain" \in Steps /\ "readAgain" \in ReadSteps /\ Fits("readAgain", me[c].n, me[c].out)
    BY <1>2, <1>5 DEF Steps, ReadSteps, Fits
  <2> QED
    BY <1>1, <1>2, <1>5, <2>1, <2>2, ReaderGoes
<1> QED
  BY <1>3, <1>4, <1>5 DEF LoadFullSeq

LEMMA ClaimReadDoes ==
  ASSUME RingTypes, NEW c \in Consumers, ClaimRead(c)
  PROVE  /\ me[c].at = "claimRead" /\ kind = "HPRing" /\ RingTypes' /\ me[c].out = <<>>
         /\ \/ /\ tail = me[c].pos /\ tail' = tail + 1
               /\ Moved(c, "copy", me[c].op, me[c].want, me[c].pos, me[c].far, me[c].n, <<>>)
               /\ UNCHANGED <<kind, head, slot, seq, writeLock, readLock, offered, written, got>>
            \/ /\ Local
               /\ Moved(c, "readAgain", me[c].op, me[c].want, me[c].pos, me[c].far, me[c].n, <<>>)
<1>1. me[c].at = "claimRead"
  BY DEF ClaimRead, At
<1>2. kind = "HPRing" /\ me[c].out = <<>> /\ me[c].n \in Nat \ {0} /\ c \in Readers
  BY <1>1, ReaderFacts DEF Fits, ReadSteps
<1>3. CASE tail # me[c].pos /\ Goto(c, "readAgain") /\ UNCHANGED tail
  <2>1. Local /\ UNCHANGED locks
    BY <1>3 DEF ClaimRead, Local, slots, history
  <2>2. "readAgain" \in Steps /\ "readAgain" \in ReadSteps /\ Fits("readAgain", me[c].n, me[c].out)
    BY <1>2 DEF Steps, ReadSteps, Fits
  <2> QED
    BY <1>1, <1>2, <1>3, <2>1, <2>2, ReaderGoes
<1>4. CASE tail = me[c].pos /\ tail' = me[c].pos + 1 /\ Goto(c, "copy")
  <2>1. UNCHANGED <<kind, head, slot, seq, writeLock, readLock, offered, written, got>>
    BY DEF ClaimRead, slots, locks, history
  <2>2. "copy" \in Steps /\ "copy" \in ReadSteps /\ Fits("copy", me[c].n, <<>>)
    BY <1>2 DEF Steps, ReadSteps, Fits
  <2>3. Moved(c, "copy", me[c].op, me[c].want, me[c].pos, me[c].far, me[c].n, <<>>)
    BY <1>2, <1>4, <2>2, Going, ReaderFacts
  <2>4. ReadSteps' = ReadSteps /\ Readers' = Readers
    BY <2>1 DEF ReadSteps, Readers
  <2>5. Placed(c)'
    BY <1>2, <2>2, <2>3, <2>4, Roles DEF Placed, OutFits, Moved
  <2>6. tail' \in Nat
    BY <1>4 DEF RingTypes
  <2>7. RingTypes'
    BY <2>1, <2>3, <2>5, <2>6, Roles, TypesKept DEF RingTypes, Moved
  <2> QED
    BY <1>1, <1>2, <1>4, <2>1, <2>3, <2>7
<1> QED
  BY <1>3, <1>4 DEF ClaimRead

\* How many samples a thread will copy: at least one, and no more than there
\* are from the tail to the head it loaded, unless the tail has passed that.
LEMMA CountIs ==
  ASSUME RingTypes, NEW t \in Threads, me[t].want > 0, me[t].far # tail
  PROVE  /\ Count(t) \in Nat \ {0}
         /\ tail < me[t].far => Count(t) <= me[t].far - tail
<1>1. me[t].want \in Nat /\ me[t].far \in Nat /\ tail \in Nat
  BY LocalType DEF RingTypes
<1> QED
  BY <1>1 DEF Count, Lowest

LEMMA LoadOwnTailDoes ==
  ASSUME RingTypes, NEW c \in Consumers, me[c].want > 0, LoadOwnTail(c)
  PROVE  /\ me[c].at = "loadOwnTail" /\ Plain /\ me[c].out = <<>>
         /\ \/ FindNothing(c)
            \/ /\ me[c].far # tail /\ Count(c) \in Nat \ {0}
               /\ Moved(c, "copy", me[c].op, me[c].want, tail, me[c].far, Count(c), <<>>)
               /\ Local /\ RingTypes' /\ UNCHANGED locks
<1>1. me[c].at = "loadOwnTail"
  BY DEF LoadOwnTail, At
<1>2. Plain /\ me[c].out = <<>> /\ c \in Readers /\ kind \notin {"HPRing", "SlotRing"}
  BY <1>1, ReaderFacts DEF Fits, ReadSteps, Plain, Slotted
<1>3. CASE me[c].far = tail /\ FindNothing(c)
  BY <1>1, <1>2, <1>3
<1>4. CASE /\ me[c].far # tail
           /\ me' = [me EXCEPT ![c].pos = tail, ![c].n = Count(c), ![c].at = "copy"]
           /\ UNCHANGED <<kind, shared, offered, history>>
  <2>1. Local /\ UNCHANGED locks
    BY <1>4 DEF Local, shared, slots, history
  <2>2. Count(c) \in Nat \ {0} /\ tail \in Int
    BY <1>4, CountIs, Roles DEF RingTypes
  <2>3. "copy" \in Steps /\ "copy" \in ReadSteps /\ Fits("copy", Count(c), <<>>)
    BY <1>2, <2>2 DEF Steps, ReadSteps, Fits
  <2>4. Moved(c, "copy", me[c].op, me[c].want, tail, me[c].far, Count(c), <<>>)
    BY <1>2, <1>4, <2>2, <2>3, OwnTailSets, ReaderFacts
  <2>5. readLock' \in Consumers \cup {NoThread} /\ writeLock' = writeLock
    BY <2>1 DEF RingTypes, locks
  <2>6. RingTypes'
    BY <1>2, <2>1, <2>3, <2>4, <2>5, ConsumerLocal
  <2> QED
    BY <1>1, <1>2, <1>4, <2>1, <2>2, <2>4, <2>6
<1> QED
  BY <1>3, <1>4 DEF LoadOwnTail

(* One sample more is copied.                                                *)
CopySlot(t) == slot[Slot(me[t].pos + Len(me[t].out))]
CopyMore(t) == Append(me[t].out, CopySlot(t))
AfterCopy(t) ==
  IF Len(me[t].out) + 1 < me[t].n THEN "copy"
  ELSE IF kind = "SeqLockRing" THEN "checkHead"
  ELSE IF t \in Observers THEN "peeked" ELSE "release"

LEMMA CopyDoes ==
  ASSUME RingTypes, NEW t \in Threads, Copy(t)
  PROVE  /\ me[t].at = "copy" /\ Len(me[t].out) < me[t].n /\ Len(me[t].out) \in Nat
         /\ CopyMore(t) \in Seq(Samples) /\ Len(CopyMore(t)) = Len(me[t].out) + 1
         /\ Moved(t, AfterCopy(t), me[t].op, me[t].want, me[t].pos, me[t].far, me[t].n, CopyMore(t))
         /\ Local /\ UNCHANGED locks
         /\ t \in Consumers \/ t \in Observers => RingTypes'
<1>1. /\ me[t].at = "copy" /\ Local /\ UNCHANGED locks
      /\ me' = [me EXCEPT ![t].out = CopyMore(t), ![t].at = AfterCopy(t)]
  BY DEF Copy, At, Local, shared, slots, history, CopyMore, CopySlot, AfterCopy
<1>2. /\ me \in [Threads -> Locals] /\ me[t].out \in Seq(Samples) /\ me[t].pos \in Int
      /\ me[t].n \in Nat /\ Len(me[t].out) \in Nat
  BY LocalType DEF RingTypes
<1>3. Len(me[t].out) < me[t].n
  BY <1>1 DEF RingTypes, OutFits, Fits
<1>4. me[t].pos + Len(me[t].out) \in Int
  BY <1>2
<1>5. CopySlot(t) \in Samples
  BY <1>4, SlotType DEF RingTypes, CopySlot
<1>6. CopyMore(t) \in Seq(Samples) /\ Len(CopyMore(t)) = Len(me[t].out) + 1
  BY <1>2, <1>5 DEF CopyMore
<1>7. AfterCopy(t) \in Steps
  BY DEF AfterCopy, Steps
<1>8. Moved(t, AfterCopy(t), me[t].op, me[t].want, me[t].pos, me[t].far, me[t].n, CopyMore(t))
  BY <1>1, <1>2, <1>6, <1>7, OutSets
<1>9. Fits(AfterCopy(t), me[t].n, CopyMore(t))
  BY <1>2, <1>3, <1>6 DEF AfterCopy, Fits
<1>10. writeLock' = writeLock /\ readLock' = readLock
  BY <1>1 DEF locks
<1>11. CASE t \in Consumers
  <2>1. AfterCopy(t) \in ReadSteps /\ t \in Readers
    BY <1>1, <1>11, ReaderFacts, Roles DEF AfterCopy, ReadSteps
  <2>2. readLock' \in Consumers \cup {NoThread}
    BY <1>10 DEF RingTypes
  <2>3. RingTypes'
    BY <1>1, <1>8, <1>9, <1>10, <1>11, <2>1, <2>2, ConsumerLocal
  <2> QED
    BY <1>1, <1>2, <1>3, <1>6, <1>8, <2>3
<1>12. CASE t \in Observers
  <2>1. AfterCopy(t) \in PeekSteps
    <3>1. me[t].at \in PeekSteps
      BY <1>12 DEF RingTypes
    <3> QED
      BY <1>1, <1>12, <3>1 DEF AfterCopy, PeekSteps
  <2>2. RingTypes'
    BY <1>1, <1>8, <1>9, <1>10, <1>12, <2>1, ObserverLocal
  <2> QED
    BY <1>1, <1>2, <1>3, <1>6, <1>8, <2>2
<1> QED
  BY <1>1, <1>2, <1>3, <1>6, <1>8, <1>11, <1>12

LEMMA AdvanceReadDoes ==
  ASSUME RingTypes, NEW c \in Consumers, me[c].pos \in Nat, AdvanceRead(c)
  PROVE  /\ me[c].at = "advanceRead" /\ RingTypes' /\ tail' = me[c].pos + 1 /\ kind = "SlotRing"
         /\ Moved(c, "idle", "none", 0, 0, 0, 1, <<>>)
         /\ UNCHANGED <<kind, head, slot, seq, writeLock, readLock, offered, written, got>>
<1>1. /\ me[c].at = "advanceRead" /\ Return(c) /\ tail' = me[c].pos + 1
      /\ UNCHANGED <<kind, head, slot, seq, writeLock, readLock, offered, written, got>>
  BY DEF AdvanceRead, At, locks, history, slots
<1>2. kind = "SlotRing"
  BY <1>1, ReaderFacts DEF ReadSteps
<1>3. Moved(c, "idle", "none", 0, 0, 0, 1, <<>>)
  BY <1>1, Returning, ReaderFacts
<1>4. "idle" \in ReadSteps'
  BY DEF ReadSteps
<1>5. Placed(c)'
  BY <1>3, <1>4, Roles DEF Placed, OutFits, Moved, Fits
<1>6. tail' \in Nat
  BY <1>1
<1>7. RingTypes'
  BY <1>1, <1>3, <1>5, <1>6, Roles, TypesKept DEF RingTypes, Moved
<1> QED
  BY <1>1, <1>2, <1>3, <1>7

LEMMA CheckHeadDoes ==
  ASSUME RingTypes, NEW c \in Consumers, CheckHead(c)
  PROVE  /\ me[c].at = "checkHead" /\ kind = "SeqLockRing" /\ Local /\ RingTypes' /\ UNCHANGED locks
         /\ \/ Moved(c, "release", me[c].op, me[c].want, me[c].pos, me[c].far, me[c].n, me[c].out)
            \/ Moved(c, "readAgain", me[c].op, me[c].want, me[c].pos, me[c].far, me[c].n, <<>>)
<1>1. me[c].at = "checkHead" /\ Local /\ UNCHANGED locks
  BY DEF CheckHead, At, Local, shared, slots, history
<1>2. kind = "SeqLockRing" /\ Len(me[c].out) = me[c].n /\ c \in Readers
  BY <1>1, ReaderFacts DEF Fits, ReadSteps
<1>3. CASE Goto(c, "release")
  <2>1. "release" \in Steps /\ "release" \in ReadSteps /\ Fits("release", me[c].n, me[c].out)
    BY <1>2 DEF Steps, ReadSteps, Fits
  <2> QED
    BY <1>1, <1>2, <1>3, <2>1, ReaderGoes
<1>4. CASE me' = [me EXCEPT ![c].at = "readAgain", ![c].out = <<>>]
  <2>1. "readAgain" \in Steps /\ "readAgain" \in ReadSteps /\ Fits("readAgain", me[c].n, <<>>)
        /\ <<>> \in Seq(Samples)
    BY <1>2 DEF Steps, ReadSteps, Fits
  <2>2. Moved(c, "readAgain", me[c].op, me[c].want, me[c].pos, me[c].far, me[c].n, <<>>)
    BY <1>4, <2>1, OutSets, ReaderFacts
  <2>3. readLock' \in Consumers \cup {NoThread} /\ writeLock' = writeLock
    BY <1>1 DEF RingTypes, locks
  <2>4. RingTypes'
    BY <1>1, <1>2, <2>1, <2>2, <2>3, ConsumerLocal
  <2> QED
    BY <1>1, <1>2, <2>2, <2>4
<1> QED
  BY <1>3, <1>4 DEF CheckHead

-------------------------------------------------------------------------------
\* What is read at a position is a sample, or Twice; and delivering changes it
\* at the positions delivered only.
LEMMA ReadAtType ==
  ASSUME RingTypes, NEW k \in Int
  PROVE  ReadAt(k) \in Samples \cup {Twice}
<1>1. NoValue \in Samples /\ got \in Seq(Samples \cup {Twice})
  BY DEF Samples, RingTypes
<1> QED
  BY <1>1 DEF ReadAt

LEMMA Delivered ==
  ASSUME RingTypes, NEW first \in Nat, NEW values \in Seq(Samples), Deliver(first, values)
  PROVE  /\ got' \in Seq(Samples \cup {Twice})
         /\ Len(got') = IF Len(got) < first + Len(values) THEN first + Len(values) ELSE Len(got)
         /\ \A k \in Nat : (k <= first \/ k > first + Len(values)) => ReadAt(k)' = ReadAt(k)
         /\ \A k \in Nat : k > first /\ k <= first + Len(values) =>
              ReadAt(k)' = IF ReadAt(k) = NoValue THEN values[k - first] ELSE Twice
<1> DEFINE last == first + Len(values)
           size == IF Len(got) < last THEN last ELSE Len(got)
           entry(k) == IF k <= first \/ k > last THEN ReadAt(k)
                       ELSE IF ReadAt(k) = NoValue THEN values[k - first] ELSE Twice
<1>1. got' = [k \in 1..size |-> entry(k)]
  BY DEF Deliver
<1>2. last \in Nat /\ Len(got) \in Nat /\ size \in Nat /\ last <= size /\ Len(got) <= size
      /\ got \in Seq(Samples \cup {Twice})
  BY DEF RingTypes
<1>3. \A k \in 1..size : entry(k) \in Samples \cup {Twice}
  <2> TAKE k \in 1..size
  <2>1. CASE k <= first \/ k > last
    BY <2>1, ReadAtType
  <2>2. CASE ~(k <= first \/ k > last)
    <3>1. k - first \in 1..Len(values)
      BY <1>2, <2>2
    <3>2. values[k - first] \in Samples
      BY <3>1
    <3> QED
      BY <2>2, <3>2
  <2> QED
    BY <2>1, <2>2
<1> HIDE DEF entry
<1>4. got' \in Seq(Samples \cup {Twice}) /\ Len(got') = size /\ DOMAIN got' = 1..size
  <2>1. got' \in [1..size -> Samples \cup {Twice}]
    BY <1>1, <1>3
  <2> HIDE DEF size
  <2>2. got' \in Seq(Samples \cup {Twice})
    BY <1>2, <2>1
  <2>3. DOMAIN got' = 1..size
    BY <1>1
  <2> QED
    BY <1>2, <2>2, <2>3
<1>5. \A k \in Nat : ReadAt(k)' = IF k \in 1..size THEN entry(k) ELSE NoValue
  <2> TAKE k \in Nat
  <2> HIDE DEF size
  <2>1. ReadAt(k)' = IF k \in DOMAIN got' THEN got'[k] ELSE NoValue
    BY DEF ReadAt
  <2>2. k \in 1..size => got'[k] = entry(k)
    BY <1>1
  <2> QED
    BY <1>4, <2>1, <2>2
<1>6. \A k \in Nat : k \notin 1..size => ReadAt(k) = NoValue
  BY <1>2 DEF ReadAt
<1>7. \A k \in Nat : (k <= first \/ k > last) => ReadAt(k)' = ReadAt(k)
  <2> SUFFICES ASSUME NEW k \in Nat, k <= first \/ k > last PROVE ReadAt(k)' = ReadAt(k)
    OBVIOUS
  <2>1. CASE k \in 1..size
    <3>1. entry(k) = ReadAt(k)
      BY DEF entry
    <3> QED
      BY <1>5, <2>1, <3>1
  <2>2. CASE k \notin 1..size
    BY <1>5, <1>6, <2>2
  <2> QED
    BY <2>1, <2>2
<1>8. \A k \in Nat : k > first /\ k <= last =>
        ReadAt(k)' = IF ReadAt(k) = NoValue THEN values[k - first] ELSE Twice
  <2> SUFFICES ASSUME NEW k \in Nat, k > first, k <= last
               PROVE  ReadAt(k)' = IF ReadAt(k) = NoValue THEN values[k - first] ELSE Twice
    OBVIOUS
  <2>1. k \in 1..size
    BY <1>2
  <2>2. entry(k) = IF ReadAt(k) = NoValue THEN values[k - first] ELSE Twice
    BY <1>2 DEF entry
  <2> QED
    BY <1>5, <2>1, <2>2
<1> QED
  BY <1>4, <1>7, <1>8

LEMMA ReleaseSlotDoes ==
  ASSUME RingTypes, NEW c \in Consumers, me[c].pos \in Nat, ReleaseSlot(c)
  PROVE  /\ me[c].at = "release" /\ Slotted /\ RingTypes' /\ Len(me[c].out) = me[c].n
         /\ me[c].out \in Seq(Samples)
         /\ seq' = [seq EXCEPT ![Slot(me[c].pos)] = me[c].pos + Capacity]
         /\ Deliver(me[c].pos, me[c].out)
         /\ \/ kind = "HPRing" /\ Moved(c, "idle", "none", 0, 0, 0, 1, <<>>)
            \/ /\ kind = "SlotRing"
               /\ Moved(c, "advanceRead", me[c].op, me[c].want, me[c].pos, me[c].far, me[c].n, me[c].out)
         /\ UNCHANGED <<kind, head, tail, slot, writeLock, readLock, offered, written>>
<1>1. /\ me[c].at = "release" /\ Slotted
      /\ seq' = [seq EXCEPT ![Slot(me[c].pos)] = me[c].pos + Capacity]
      /\ Deliver(me[c].pos, me[c].out)
      /\ UNCHANGED <<kind, head, tail, slot, writeLock, readLock, offered, written>>
  BY DEF ReleaseSlot, At, locks
<1>2. Len(me[c].out) = me[c].n /\ c \in Readers /\ me[c].out \in Seq(Samples)
  BY <1>1, ReaderFacts DEF Fits
<1>3. ReadSteps' = ReadSteps /\ Readers' = Readers
  BY <1>1 DEF ReadSteps, Readers
<1>4. got' \in Seq(Samples \cup {Twice})
  BY <1>1, <1>2, Delivered
<1>5. seq' \in [SlotIndex -> Nat]
  <2>1. seq \in [SlotIndex -> Nat] /\ me[c].pos + Capacity \in Nat
    BY RingsAssumption DEF RingTypes
  <2> QED
    BY <1>1, <2>1
<1>6. CASE kind = "HPRing"
  <2>1. Return(c)
    BY <1>6 DEF ReleaseSlot
  <2>2. Moved(c, "idle", "none", 0, 0, 0, 1, <<>>)
    BY <2>1, Returning, ReaderFacts
  <2>3. "idle" \in ReadSteps'
    BY DEF ReadSteps
  <2>4. Placed(c)'
    BY <2>2, <2>3, Roles DEF Placed, OutFits, Moved, Fits
  <2>5. RingTypes'
    BY <1>1, <1>4, <1>5, <2>2, <2>4, Roles, TypesKept DEF RingTypes, Moved
  <2> QED
    BY <1>1, <1>2, <1>6, <2>2, <2>5
<1>7. CASE kind = "SlotRing"
  <2>1. Goto(c, "advanceRead")
    BY <1>7 DEF ReleaseSlot
  <2>2. "advanceRead" \in Steps /\ "advanceRead" \in ReadSteps
    BY <1>7 DEF Steps, ReadSteps
  <2>3. Moved(c, "advanceRead", me[c].op, me[c].want, me[c].pos, me[c].far, me[c].n, me[c].out)
    BY <2>1, <2>2, Going, ReaderFacts
  <2>4. Fits("advanceRead", me[c].n, me[c].out)
    BY <1>2 DEF Fits
  <2>5. Placed(c)'
    BY <1>2, <1>3, <2>2, <2>3, <2>4, Roles DEF Placed, OutFits, Moved
  <2>6. RingTypes'
    BY <1>1, <1>4, <1>5, <2>3, <2>5, Roles, TypesKept DEF RingTypes, Moved
  <2> QED
    BY <1>1, <1>2, <1>7, <2>3, <2>6
<1> QED
  BY <1>1, <1>6, <1>7 DEF Slotted

LEMMA ReleaseTailDoes ==
  ASSUME RingTypes, NEW c \in Consumers, me[c].pos \in Nat, ReleaseTail(c)
  PROVE  /\ me[c].at = "release" /\ Plain /\ RingTypes' /\ Len(me[c].out) = me[c].n
         /\ me[c].out \in Seq(Samples)
         /\ tail' = me[c].pos + me[c].n /\ Deliver(me[c].pos, me[c].out)
         /\ readLock' = IF readLock = c THEN NoThread ELSE readLock
         /\ Moved(c, "idle", "none", 0, 0, 0, 1, <<>>)
         /\ UNCHANGED <<kind, head, slot, seq, writeLock, offered, written>>
<1>1. /\ me[c].at = "release" /\ Plain /\ Return(c)
      /\ tail' = me[c].pos + me[c].n /\ Deliver(me[c].pos, me[c].out)
      /\ readLock' = IF readLock = c THEN NoThread ELSE readLock
      /\ UNCHANGED <<kind, head, slot, seq, writeLock, offered, written>>
  BY DEF ReleaseTail, At, Release, Plain, slots
<1>2. Len(me[c].out) = me[c].n /\ me[c].n \in Nat /\ me[c].out \in Seq(Samples)
  BY <1>1, ReaderFacts DEF Fits
<1>3. Moved(c, "idle", "none", 0, 0, 0, 1, <<>>)
  BY <1>1, Returning, ReaderFacts
<1>4. "idle" \in ReadSteps'
  BY DEF ReadSteps
<1>5. Placed(c)'
  BY <1>3, <1>4, Roles DEF Placed, OutFits, Moved, Fits
<1>6. tail' \in Nat
  BY <1>1, <1>2
<1>7. readLock' \in Consumers \cup {NoThread}
  BY <1>1 DEF RingTypes
<1>8. got' \in Seq(Samples \cup {Twice})
  BY <1>1, <1>2, Delivered
<1>9. RingTypes'
  BY <1>1, <1>3, <1>5, <1>6, <1>7, <1>8, Roles, TypesKept DEF RingTypes, Moved
<1> QED
  BY <1>1, <1>2, <1>3, <1>9

-------------------------------------------------------------------------------
\* What each step of a thread that peeks does, and that types are kept.
LEMMA PeekerFacts ==
  ASSUME RingTypes, NEW x \in Observers
  PROVE  /\ x \in Threads /\ me \in [Threads -> Locals] /\ me[x].at \in PeekSteps
         /\ Fits(me[x].at, me[x].n, me[x].out)
         /\ me[x].n \in Nat \ {0} /\ me[x].pos \in Int /\ me[x].out \in Seq(Samples)
         /\ me[x].want \in Nat /\ me[x].far \in Nat
         /\ Len(me[x].out) \in Nat
<1>1. x \in Threads /\ me \in [Threads -> Locals]
  BY Roles DEF RingTypes
<1> QED
  BY <1>1, LocalType DEF RingTypes, OutFits

LEMMA PeekerGoes ==
  ASSUME RingTypes, NEW x \in Observers, NEW step \in Steps, Goto(x, step), Local, UNCHANGED locks,
         step \in PeekSteps, Fits(step, me[x].n, me[x].out)
  PROVE  /\ Moved(x, step, me[x].op, me[x].want, me[x].pos, me[x].far, me[x].n, me[x].out)
         /\ RingTypes'
<1>1. Moved(x, step, me[x].op, me[x].want, me[x].pos, me[x].far, me[x].n, me[x].out)
  BY Going, PeekerFacts
<1>2. UNCHANGED <<writeLock, readLock>>
  BY DEF locks
<1> QED
  BY <1>1, <1>2, ObserverLocal

LEMMA PeekCallDoes ==
  ASSUME RingTypes, NEW x \in Observers, PeekCall(x)
  PROVE  /\ \E size \in Nat \ {0}, which \in {"Peek", "PeekLatest"} :
              /\ which = "Peek" => kind = "SeqLockRing"
              /\ Moved(x, "loadOwnTail", which, size, me[x].pos, head, me[x].n, <<>>)
         /\ Local /\ RingTypes' /\ Plain /\ me[x].at = "idle" /\ UNCHANGED locks
<1>1. me[x].at = "idle" /\ kind \in {"SeqLockRing", "AtomicRing"} /\ Local /\ UNCHANGED locks /\ Plain
  BY DEF PeekCall, At, Local, shared, slots, history, Plain, Slotted
<1>2. PICK which \in {"Peek", "PeekLatest"}, size \in Batches :
        /\ which = "Peek" => kind = "SeqLockRing"
        /\ me' = [me EXCEPT ![x] = [Load(x) EXCEPT !.op = which, !.want = size]]
  BY DEF PeekCall
<1>3. size \in Nat \ {0}
  BY RingsAssumption DEF Batches
<1>4. me[x].out = <<>> /\ me[x].n \in Nat \ {0} /\ x \in Threads
  BY <1>1, PeekerFacts DEF Fits
<1> DEFINE r == [Load(x) EXCEPT !.op = which, !.want = size]
<1>5. r.op = which
  <2>1. Load(x) \in Locals
    BY <1>4, Loading
  <2> QED
    BY <2>1 DEF Locals
<1>6. Moved(x, Load(x).at, r.op, size, Load(x).pos, Load(x).far, me[x].n, me[x].out)
  <2>1. size \in Nat /\ me' = [me EXCEPT ![x] = r]
    BY <1>2, <1>3
  <2>2. \E w \in {"Peek", "PeekLatest"} : r = [Load(x) EXCEPT !.op = w, !.want = size]
    OBVIOUS
  <2> HIDE DEF r
  <2> QED
    BY <1>4, <2>1, <2>2, LoadCallSets
<1> HIDE DEF r
<1>7. Load(x).at = "loadOwnTail" /\ Load(x).pos = me[x].pos /\ Load(x).far = head
  BY <1>1, <1>4, Loading DEF Plain
<1>8. Moved(x, "loadOwnTail", which, size, me[x].pos, head, me[x].n, <<>>)
  BY <1>4, <1>5, <1>6, <1>7
<1>9. "loadOwnTail" \in PeekSteps /\ Fits("loadOwnTail", me[x].n, <<>>)
  BY <1>1 DEF PeekSteps, Fits
<1>10. UNCHANGED <<writeLock, readLock>>
  BY <1>1 DEF locks
<1>11. RingTypes'
  BY <1>1, <1>8, <1>9, <1>10, ObserverLocal
<1> QED
  BY <1>1, <1>2, <1>3, <1>8, <1>11

LEMMA PeekAgainDoes ==
  ASSUME RingTypes, NEW x \in Observers, PeekAgain(x)
  PROVE  /\ Moved(x, "loadOwnTail", me[x].op, me[x].want, me[x].pos, head, me[x].n, <<>>)
         /\ Local /\ RingTypes' /\ Plain /\ me[x].at = "peekAgain" /\ UNCHANGED locks
<1>1. me[x].at = "peekAgain" /\ Local /\ UNCHANGED locks /\ me' = [me EXCEPT ![x] = Load(x)]
  BY DEF PeekAgain, At, Local, shared, slots, history
<1>2. me[x].out = <<>> /\ me[x].n \in Nat \ {0} /\ x \in Threads /\ kind = "SeqLockRing" /\ Plain
  BY <1>1, PeekerFacts DEF Fits, PeekSteps, Plain, Slotted
<1>3. Moved(x, "loadOwnTail", me[x].op, me[x].want, me[x].pos, head, me[x].n, <<>>)
  BY <1>1, <1>2, LoadSets, Loading DEF Plain
<1>4. "loadOwnTail" \in PeekSteps /\ Fits("loadOwnTail", me[x].n, <<>>)
  BY <1>2 DEF PeekSteps, Fits
<1>5. UNCHANGED <<writeLock, readLock>>
  BY <1>1 DEF locks
<1>6. RingTypes'
  BY <1>1, <1>3, <1>4, <1>5, ObserverLocal
<1> QED
  BY <1>1, <1>2, <1>3, <1>6

LEMMA PeekIdles ==
  ASSUME RingTypes, NEW x \in Observers, Return(x), Local, UNCHANGED locks
  PROVE  Moved(x, "idle", "none", 0, 0, 0, 1, <<>>) /\ RingTypes'
<1>1. Moved(x, "idle", "none", 0, 0, 0, 1, <<>>)
  BY Returning, PeekerFacts
<1>2. "idle" \in PeekSteps /\ Fits("idle", 1, <<>>) /\ UNCHANGED <<writeLock, readLock>>
  BY DEF PeekSteps, Fits, locks
<1> QED
  BY <1>1, <1>2, ObserverLocal

LEMMA PeekTailDoes ==
  ASSUME RingTypes, NEW x \in Observers, me[x].want > 0, PeekTail(x)
  PROVE  /\ me[x].at = "loadOwnTail" /\ Plain /\ me[x].out = <<>> /\ Local /\ UNCHANGED locks /\ RingTypes'
         /\ \/ Moved(x, "idle", "none", 0, 0, 0, 1, <<>>)
            \/ /\ me[x].far # tail /\ Count(x) \in Nat \ {0}
               /\ \E w \in Nat \ {0} :
                   IF me[x].op = "Peek"
                   THEN Moved(x, "copy", me[x].op, w, tail, me[x].far, Count(x), <<>>)
                   ELSE Moved(x, "copy", me[x].op, w, me[x].far - Count(x), me[x].far, Count(x), <<>>)
<1>1. me[x].at = "loadOwnTail" /\ Local /\ UNCHANGED locks
  BY DEF PeekTail, At, Local, shared, slots, history
<1>2. Plain /\ me[x].out = <<>> /\ kind \in {"SeqLockRing", "AtomicRing"}
  BY <1>1, PeekerFacts DEF Fits, PeekSteps, Plain, Slotted
<1>3. CASE me[x].far = tail
  <2>1. Return(x)
    BY <1>3 DEF PeekTail
  <2> QED
    BY <1>1, <1>2, <2>1, PeekIdles
<1>4. CASE me[x].far # tail
  <2> DEFINE from == IF me[x].op = "Peek" THEN tail ELSE me[x].far - Count(x)
             w == IF me[x].op = "Peek" THEN me[x].want ELSE Count(x)
  <2>1. me' = [me EXCEPT ![x].n = Count(x), ![x].at = "copy", ![x].pos = from, ![x].want = w]
    BY <1>4 DEF PeekTail
  <2>2. Count(x) \in Nat \ {0} /\ tail \in Int /\ me[x].far \in Nat /\ me[x].want \in Nat
    BY <1>4, CountIs, Roles, PeekerFacts DEF RingTypes
  <2>3. w \in Nat \ {0} /\ from \in Int
    BY <2>2
  <2>4. "copy" \in Steps /\ "copy" \in PeekSteps /\ Fits("copy", Count(x), <<>>)
    BY <1>2, <2>2 DEF Steps, PeekSteps, Fits
  <2> HIDE DEF w, from
  <2>5. Moved(x, "copy", me[x].op, w, from, me[x].far, Count(x), <<>>)
    BY <1>2, <2>1, <2>2, <2>3, <2>4, PeekTailSets, PeekerFacts
  <2>6. UNCHANGED <<writeLock, readLock>>
    BY <1>1 DEF locks
  <2>7. RingTypes'
    BY <1>1, <2>4, <2>5, <2>6, ObserverLocal
  <2>8. IF me[x].op = "Peek"
          THEN Moved(x, "copy", me[x].op, w, tail, me[x].far, Count(x), <<>>)
          ELSE Moved(x, "copy", me[x].op, w, me[x].far - Count(x), me[x].far, Count(x), <<>>)
    BY <2>5 DEF from
  <2> QED
    BY <1>1, <1>2, <1>4, <2>2, <2>3, <2>7, <2>8
<1> QED
  BY <1>3, <1>4

LEMMA PeekCheckHeadDoes ==
  ASSUME RingTypes, NEW x \in Observers, PeekCheckHead(x)
  PROVE  /\ me[x].at = "checkHead" /\ kind = "SeqLockRing" /\ Local /\ RingTypes' /\ UNCHANGED locks
         /\ \/ head = me[x].far /\ me[x].op = "Peek"
               /\ Moved(x, "checkTail", me[x].op, me[x].want, me[x].pos, me[x].far, me[x].n, me[x].out)
            \/ head = me[x].far /\ me[x].op # "Peek"
               /\ Moved(x, "peeked", me[x].op, me[x].want, me[x].pos, me[x].far, me[x].n, me[x].out)
            \/ Moved(x, "peekAgain", me[x].op, me[x].want, me[x].pos, me[x].far, me[x].n, <<>>)
<1>1. me[x].at = "checkHead" /\ Local /\ UNCHANGED locks
  BY DEF PeekCheckHead, At, Local, shared, slots, history
<1>2. kind = "SeqLockRing" /\ Len(me[x].out) = me[x].n
  BY <1>1, PeekerFacts DEF Fits, PeekSteps
<1>3. CASE head = me[x].far /\ me[x].op = "Peek"
  <2>1. Goto(x, "checkTail")
    BY <1>3 DEF PeekCheckHead
  <2>2. "checkTail" \in Steps /\ "checkTail" \in PeekSteps /\ Fits("checkTail", me[x].n, me[x].out)
    BY <1>2 DEF Steps, PeekSteps, Fits
  <2> QED
    BY <1>1, <1>2, <1>3, <2>1, <2>2, PeekerGoes
<1>4. CASE head = me[x].far /\ me[x].op # "Peek"
  <2>1. Goto(x, "peeked")
    BY <1>4 DEF PeekCheckHead
  <2>2. "peeked" \in Steps /\ "peeked" \in PeekSteps /\ Fits("peeked", me[x].n, me[x].out)
    BY <1>2 DEF Steps, PeekSteps, Fits
  <2> QED
    BY <1>1, <1>2, <1>4, <2>1, <2>2, PeekerGoes
<1>5. CASE head # me[x].far
  <2>1. me' = [me EXCEPT ![x].at = "peekAgain", ![x].out = <<>>]
    BY <1>5 DEF PeekCheckHead
  <2>2. "peekAgain" \in Steps /\ "peekAgain" \in PeekSteps /\ Fits("peekAgain", me[x].n, <<>>)
        /\ <<>> \in Seq(Samples) /\ UNCHANGED <<writeLock, readLock>>
    BY <1>1, <1>2 DEF Steps, PeekSteps, Fits, locks
  <2>3. Moved(x, "peekAgain", me[x].op, me[x].want, me[x].pos, me[x].far, me[x].n, <<>>)
    BY <2>1, <2>2, OutSets, PeekerFacts
  <2>4. RingTypes'
    BY <1>1, <2>2, <2>3, ObserverLocal
  <2> QED
    BY <1>1, <1>2, <2>3, <2>4
<1> QED
  BY <1>3, <1>4, <1>5

LEMMA PeekCheckTailDoes ==
  ASSUME RingTypes, NEW x \in Observers, PeekCheckTail(x)
  PROVE  /\ me[x].at = "checkTail" /\ kind = "SeqLockRing" /\ Local /\ RingTypes' /\ UNCHANGED locks
         /\ \/ tail = me[x].pos
               /\ Moved(x, "peeked", me[x].op, me[x].want, me[x].pos, me[x].far, me[x].n, me[x].out)
            \/ Moved(x, "peekAgain", me[x].op, me[x].want, me[x].pos, me[x].far, me[x].n, <<>>)
<1>1. me[x].at = "checkTail" /\ Local /\ UNCHANGED locks
  BY DEF PeekCheckTail, At, Local, shared, slots, history
<1>2. kind = "SeqLockRing" /\ Len(me[x].out) = me[x].n
  BY <1>1, PeekerFacts DEF Fits, PeekSteps
<1>3. CASE tail = me[x].pos
  <2>1. Goto(x, "peeked")
    BY <1>3 DEF PeekCheckTail
  <2>2. "peeked" \in Steps /\ "peeked" \in PeekSteps /\ Fits("peeked", me[x].n, me[x].out)
    BY <1>2 DEF Steps, PeekSteps, Fits
  <2> QED
    BY <1>1, <1>2, <1>3, <2>1, <2>2, PeekerGoes
<1>4. CASE tail # me[x].pos
  <2>1. me' = [me EXCEPT ![x].at = "peekAgain", ![x].out = <<>>]
    BY <1>4 DEF PeekCheckTail
  <2>2. "peekAgain" \in Steps /\ "peekAgain" \in PeekSteps /\ Fits("peekAgain", me[x].n, <<>>)
        /\ <<>> \in Seq(Samples) /\ UNCHANGED <<writeLock, readLock>>
    BY <1>1, <1>2 DEF Steps, PeekSteps, Fits, locks
  <2>3. Moved(x, "peekAgain", me[x].op, me[x].want, me[x].pos, me[x].far, me[x].n, <<>>)
    BY <2>1, <2>2, OutSets, PeekerFacts
  <2>4. RingTypes'
    BY <1>1, <2>2, <2>3, ObserverLocal
  <2> QED
    BY <1>1, <1>2, <2>3, <2>4
<1> QED
  BY <1>3, <1>4

LEMMA PeekReturnDoes ==
  ASSUME RingTypes, NEW x \in Observers, PeekReturn(x)
  PROVE  /\ me[x].at = "peeked" /\ Local /\ RingTypes' /\ UNCHANGED locks
         /\ Moved(x, "idle", "none", 0, 0, 0, 1, <<>>)
<1>1. me[x].at = "peeked" /\ Local /\ UNCHANGED locks /\ Return(x)
  BY DEF PeekReturn, At, Local, shared, slots, history
<1> QED
  BY <1>1, PeekIdles

-------------------------------------------------------------------------------
\* The rings with samples from tail to head.  First, what a step of another
\* thread does to what a thread knows.
LEMMA InPlace ==
  ASSUME RingTypes, NEW t \in Threads
  PROVE  /\ me[t].at \in {"copy", "checkHead", "checkTail", "peeked", "release", "fill", "filling", "publish"}
              => Len(me[t].out) <= me[t].n
         /\ me[t].at \in {"copy", "fill", "filling"} => Len(me[t].out) < me[t].n
         /\ me[t].at \in {"publish", "checkHead", "checkTail", "peeked", "release"}
              => Len(me[t].out) = me[t].n
         /\ me[t].n \in Nat \ {0} /\ me[t].pos \in Int /\ me[t].out \in Seq(Samples)
         /\ me[t].want \in Nat /\ me[t].far \in Nat /\ Len(me[t].out) \in Nat
         /\ head \in Nat /\ tail \in Nat
<1>1. me[t].n \in Nat \ {0} /\ me[t].pos \in Int /\ me[t].out \in Seq(Samples)
      /\ me[t].want \in Nat /\ me[t].far \in Nat /\ Len(me[t].out) \in Nat
  BY LocalType DEF RingTypes
<1>2. Fits(me[t].at, me[t].n, me[t].out)
  BY DEF RingTypes, OutFits
<1> QED
  BY <1>1, <1>2 DEF Fits, RingTypes

\* A position among those copied is below the head they were copied from.
LEMMA Below ==
  ASSUME NEW a \in Int, NEW l \in Nat, NEW n \in Nat, NEW f \in Int, NEW h \in Int, NEW i \in 1..l,
         a >= 0, l <= n, a + n <= f, f <= h
  PROVE  a + i \in 1..h
OBVIOUS

LEMMA Lower == ASSUME NEW y \in Nat, NEW z \in Nat, NEW w \in Int, y <= z, z < w PROVE y < w
OBVIOUS

LEMMA StillBelow ==
  ASSUME NEW a \in Int, NEW l \in Nat, NEW n \in Nat, NEW f \in Int, NEW h \in Int, NEW i \in 1..l,
         NEW z \in Nat, z < a + i, l <= n, a + n <= f, f <= h
  PROVE  a + i \in 1..h
<1>1. i <= n /\ i \in Int /\ a + i \in Int /\ a + i >= 1
  OBVIOUS
<1>2. a + i <= a + n
  BY <1>1
<1> QED
  BY <1>1, <1>2

LEMMA ReaderStays ==
  ASSUME RingTypes, NEW c \in Consumers, PlainReader(c), me'[c] = me[c], kind' = kind,
         tail' = tail, head' \in Nat, head <= head',
         \A i \in 1..head : written'[i] = written[i],
         readLock = c => readLock' = c
  PROVE  PlainReader(c)'
<1>1. c \in Threads
  BY Roles
<1>2. me[c].at # "idle" => IF kind' = "MPSeqRing" THEN readLock' = c ELSE c = LeadReader
  BY DEF PlainReader
<1>3. me[c].at \in {"copy", "checkHead", "release"} =>
        me[c].pos = tail /\ tail + me[c].n <= me[c].far /\ me[c].far <= head /\ Whole(c)
  BY DEF PlainReader
<1>4. ASSUME me[c].at \in {"copy", "checkHead", "release"} PROVE Whole(c)'
  <2> SUFFICES ASSUME NEW i \in 1..Len(me[c].out) PROVE me[c].out[i] = written'[me[c].pos + i]
    BY DEF Whole
  <2>1. me[c].out[i] = written[me[c].pos + i]
    BY <1>3, <1>4 DEF Whole
  <2>2. me[c].pos + i \in 1..head
    <3>1. /\ me[c].pos \in Int /\ Len(me[c].out) \in Nat /\ me[c].n \in Nat /\ me[c].far \in Int
          /\ head \in Int /\ me[c].pos >= 0 /\ Len(me[c].out) <= me[c].n
          /\ me[c].pos + me[c].n <= me[c].far /\ me[c].far <= head
      BY <1>1, <1>3, <1>4, InPlace
    <3> QED
      BY <3>1, Below
  <2> QED
    BY <2>1, <2>2
<1>5. me[c].at \in {"loadOwnTail", "copy", "checkHead", "release"} => tail' <= me[c].far /\ me[c].far <= head'
  BY <1>1, InPlace DEF PlainReader
<1>6. me[c].at \in {"copy", "checkHead", "release"} =>
        me[c].pos = tail' /\ tail' + me[c].n <= me[c].far /\ Whole(c)'
  BY <1>3, <1>4
<1>7. me[c].at # "idle" => me[c].want > 0
  BY DEF PlainReader
<1> QED
  BY <1>2, <1>5, <1>6, <1>7 DEF PlainReader

LEMMA PeekerStays ==
  ASSUME RingTypes, NEW x \in Observers, PlainPeeker(x), me'[x] = me[x], kind' = kind,
         tail' \in Nat, tail <= tail', head' \in Nat, head <= head',
         \A i \in 1..head : written'[i] = written[i]
  PROVE  PlainPeeker(x)'
<1> DEFINE beyond == me[x].pos + me[x].n
           copied == me[x].at \in {"copy", "checkHead", "checkTail", "peeked"}
<1>1. x \in Threads
  BY Roles
<1>2. /\ beyond \in Int /\ me[x].far \in Nat /\ head \in Nat /\ tail \in Nat /\ me[x].pos \in Int
      /\ copied => Len(me[x].out) <= me[x].n
      /\ Len(me[x].out) \in Nat /\ me[x].n \in Nat
  BY <1>1, InPlace
<1>3. ASSUME me[x].pos >= 0, beyond <= me[x].far, copied, Whole(x) PROVE Whole(x)'
  <2> SUFFICES ASSUME NEW i \in 1..Len(me[x].out) PROVE me[x].out[i] = written'[me[x].pos + i]
    BY DEF Whole
  <2>1. me[x].out[i] = written[me[x].pos + i]
    BY <1>3 DEF Whole
  <2>2. me[x].far <= head
    BY <1>3 DEF PlainPeeker
  <2>3. me[x].pos + i \in 1..head
    <3>1. /\ me[x].pos \in Int /\ Len(me[x].out) \in Nat /\ me[x].n \in Nat /\ me[x].far \in Int
          /\ head \in Int /\ me[x].pos >= 0 /\ Len(me[x].out) <= me[x].n
          /\ me[x].pos + me[x].n <= me[x].far /\ me[x].far <= head
      BY <1>2, <1>3, <2>2
    <3> QED
      BY ONLY <3>1, Below
  <2> QED
    BY <2>1, <2>3
<1>4. me[x].at # "idle" =>
        /\ me[x].far <= head' /\ me[x].want > 0 /\ me[x].op # "none"
        /\ kind' # "SeqLockRing" => me[x].op = "PeekLatest"
  BY <1>2 DEF PlainPeeker
<1>5. copied =>
        /\ me[x].op = "PeekLatest" => beyond = me[x].far
        /\ beyond <= me[x].far \/ head' > me[x].far
  BY <1>2 DEF PlainPeeker
<1>6. copied /\ beyond <= me[x].far => StillWhole(x)'
  <2> SUFFICES ASSUME copied, beyond <= me[x].far,
                      NEW i \in 1..Len(me[x].out), tail' < me[x].pos + i
               PROVE  me[x].out[i] = written'[me[x].pos + i]
    BY DEF StillWhole
  <2>1. me[x].far <= head /\ StillWhole(x)
    BY DEF PlainPeeker
  <2>2. /\ me[x].pos \in Int /\ Len(me[x].out) \in Nat /\ me[x].n \in Nat /\ me[x].far \in Nat
        /\ head \in Nat /\ tail \in Nat /\ tail' \in Nat /\ tail <= tail'
        /\ Len(me[x].out) <= me[x].n /\ me[x].pos + me[x].n <= me[x].far
    BY <1>2
  <2>3. tail < me[x].pos + i /\ me[x].pos + i \in 1..head
    <3>1. /\ me[x].pos \in Int /\ Len(me[x].out) \in Nat /\ me[x].n \in Nat /\ me[x].far \in Nat
          /\ head \in Nat /\ tail \in Nat /\ tail' \in Nat /\ tail <= tail'
          /\ Len(me[x].out) <= me[x].n /\ me[x].pos + me[x].n <= me[x].far /\ me[x].far <= head
      BY <2>1, <2>2
    <3>2. i \in 1..Len(me[x].out) /\ i \in Int /\ tail' < me[x].pos + i
      BY <3>1
    <3>3. me[x].pos + i \in 1..head
      <4>1. /\ me[x].pos \in Int /\ me[x].n \in Nat /\ me[x].far \in Int /\ head \in Int
            /\ i \in 1..Len(me[x].out) /\ Len(me[x].out) \in Nat /\ tail' < me[x].pos + i
            /\ Len(me[x].out) <= me[x].n /\ tail' \in Nat
            /\ me[x].pos + me[x].n <= me[x].far /\ me[x].far <= head
        BY <3>1, <3>2
      <4> QED
        BY ONLY <4>1, StillBelow
    <3>4. tail < me[x].pos + i
      <4>1. me[x].pos + i \in Int
        BY <3>1, <3>2
      <4> QED
        BY <3>1, <3>2, <4>1, Lower
    <3> QED
      BY <3>3, <3>4
  <2>4. me[x].out[i] = written[me[x].pos + i]
    BY <2>1, <2>3 DEF StillWhole
  <2> QED
    BY <2>3, <2>4
<1>7. me[x].at = "checkTail" => me[x].op = "Peek" /\ beyond <= me[x].far
  BY DEF PlainPeeker
<1>8. me[x].at = "peeked" /\ me[x].op = "Peek" => me[x].pos >= 0 /\ beyond <= me[x].far /\ Whole(x)'
  BY <1>3 DEF PlainPeeker
<1> QED
  BY <1>4, <1>5, <1>6, <1>7, <1>8 DEF PlainPeeker

LEMMA WriterStays ==
  ASSUME RingTypes, NEW p \in Producers, PlainWriter(p), me'[p] = me[p], kind' = kind,
         head' = head, tail' \in Nat, tail <= tail', slot' = slot, offered' = offered,
         writeLock = p => writeLock' = p
  PROVE  PlainWriter(p)'
<1>1. p \in Threads
  BY Roles
<1>2. me[p].at # "idle" =>
        /\ me[p].pos = head'
        /\ IF kind' \in {"SeqLockRing", "MPSeqRing"} THEN writeLock' = p ELSE p = LeadWriter
  BY DEF PlainWriter
<1>3. me[p].at \in Storing => head' + me[p].n <= tail' + Capacity
  BY <1>1, InPlace, RingsAssumption DEF PlainWriter
<1>4. \A i : Value(p, i)' = Value(p, i)
  BY DEF Value
<1>5. me[p].at \in Storing => \A i \in 1..Len(me[p].out) :
        me[p].out[i] = Value(p, i)' /\ slot'[Slot(head' + i - 1)] = me[p].out[i]
  BY <1>4 DEF PlainWriter
<1>6. Storing' = Storing /\ \A k : Slot(k)' = Slot(k)
  BY DEF Storing, Slot
<1> QED
  BY <1>2, <1>3, <1>5, <1>6 DEF PlainWriter

LEMMA WriterRests ==
  ASSUME NEW p \in Producers, me'[p].at = "idle"
  PROVE  PlainWriter(p)'
BY DEF PlainWriter, Storing

\* One writer, and one reader, at a time.
LEMMA OneWriter ==
  ASSUME PlainInv, NEW p \in Producers, NEW q \in Producers, me[p].at # "idle", me[q].at # "idle"
  PROVE  p = q
BY DEF PlainInv, PlainWriter

LEMMA OneReader ==
  ASSUME PlainInv, NEW c \in Consumers, NEW d \in Consumers, me[c].at # "idle", me[d].at # "idle"
  PROVE  c = d
BY DEF PlainInv, PlainReader

\* A step that changes nothing but its thread, and perhaps its own lock.
LEMMA PlainLocal ==
  ASSUME RingTypes, PlainInv, NEW t \in Threads, Local, me' \in [Threads -> Locals],
         \A u \in Threads : u # t => me'[u] = me[u],
         \A p \in Producers : p # t /\ writeLock = p => writeLock' = p,
         \A c \in Consumers : c # t /\ readLock = c => readLock' = c,
         t \in Producers => PlainWriter(t)', t \in Consumers => PlainReader(t)',
         t \in Observers => PlainPeeker(t)'
  PROVE  PlainInv'
<1>1. /\ kind' = kind /\ head' = head /\ tail' = tail /\ slot' = slot /\ seq' = seq
      /\ offered' = offered /\ written' = written /\ got' = got /\ head \in Nat /\ tail \in Nat
  BY DEF Local, RingTypes
<1>2. ASSUME NEW p \in Producers, p # t PROVE PlainWriter(p)'
  BY <1>1, <1>2, Roles, WriterStays DEF PlainInv
<1>3. ASSUME NEW c \in Consumers, c # t PROVE PlainReader(c)'
  BY <1>1, <1>3, Roles, ReaderStays DEF PlainInv
<1>4. ASSUME NEW x \in Observers, x # t PROVE PlainPeeker(x)'
  BY <1>1, <1>4, Roles, PeekerStays DEF PlainInv
<1>5. /\ head' = Len(written') /\ tail' = Len(got') /\ tail' <= head' /\ head' <= tail' + Capacity
      /\ \A k \in DOMAIN got' : got'[k] = written'[k]
      /\ \A k \in Nat : tail' <= k /\ k < head' => slot'[Slot(k)'] = written'[k + 1]
  BY <1>1 DEF PlainInv, Slot
<1> QED
  BY <1>2, <1>3, <1>4, <1>5 DEF PlainInv

LEMMA NumberedLocal ==
  ASSUME Numbered, kind' = kind, written' = written, offered' = offered,
         \A p \in Producers : kind = "HPRing" /\ me[p].at \in Storing
           => me'[p].at \in Storing /\ me'[p].pos = me[p].pos,
         written \in Seq(Producers \X Nat)
  PROVE  Numbered'
<1>1. InProducersOrder'
  BY DEF Numbered, InProducersOrder
<1>2. Storing' = Storing
  BY DEF Storing
<1>3. ASSUME NEW i \in DOMAIN written PROVE Claimed(i) => Claimed(i)'
  <2>1. written[i][1] \in Producers
    OBVIOUS
  <2> QED
    BY <1>2, <2>1 DEF Claimed
<1>4. \A i \in DOMAIN written' :
        written'[i][2] >= 1 /\ (written'[i][2] <= offered'[written'[i][1]] \/ Claimed(i)')
  BY <1>3 DEF Numbered
<1> QED
  BY <1>1, <1>4 DEF Numbered

-------------------------------------------------------------------------------
\* The steps of a writer of such a ring.
PlainAll == RingTypes /\ Numbered /\ Plain /\ PlainInv

LEMMA PlainUnclaimed ==
  ASSUME Plain
  PROVE  kind # "HPRing" /\ kind # "SlotRing"
BY DEF Plain, Slotted

LEMMA PlainLocalAll ==
  ASSUME PlainAll, NEW t \in Threads, Local, RingTypes', me' \in [Threads -> Locals],
         \A u \in Threads : u # t => me'[u] = me[u],
         \A p \in Producers : p # t /\ writeLock = p => writeLock' = p,
         \A c \in Consumers : c # t /\ readLock = c => readLock' = c,
         t \in Producers => PlainWriter(t)', t \in Consumers => PlainReader(t)',
         t \in Observers => PlainPeeker(t)'
  PROVE  PlainAll'
<1>1. PlainInv'
  BY PlainLocal DEF PlainAll
<1>2. Numbered'
  BY NumberedLocal, PlainUnclaimed DEF PlainAll, Local, RingTypes
<1>3. Plain'
  BY DEF PlainAll, Plain, Slotted, Local
<1> QED
  BY <1>1, <1>2, <1>3 DEF PlainAll

LEMMA PlainWriteCall ==
  ASSUME PlainAll, kind # "HPLinkedQueue", NEW p \in Producers, WriteCall(p)
  PROVE  PlainAll'
<1>1. RingTypes /\ p \in Threads /\ p \notin Consumers /\ p \notin Observers /\ ~Slotted
  BY Roles DEF PlainAll, Plain
<1>2. PICK size \in Nat \ {0} : Moved(p, "loadTail", me[p].op, me[p].want, head, me[p].far, size, <<>>)
  BY <1>1, WriteCallDoes
<1>3. /\ Local /\ RingTypes' /\ p \in Writers /\ readLock' = readLock
      /\ IF kind \in {"SeqLockRing", "MPSeqRing"} THEN writeLock = NoThread /\ writeLock' = p
         ELSE writeLock' = writeLock
  BY <1>1, WriteCallDoes
<1>4. PlainWriter(p)'
  <2>1. kind' = kind /\ head' = head /\ me'[p].pos = head /\ me'[p].at = "loadTail"
    BY <1>2, <1>3 DEF Moved, Local
  <2>2. IF kind \in {"SeqLockRing", "MPSeqRing"} THEN writeLock' = p ELSE p = LeadWriter
    <3>1. kind \in {"SeqLockRing", "MPSeqRing", "AtomicRing"}
      BY <1>1 DEF Slotted, RingTypes, AllKinds
    <3> QED
      BY <1>3, <3>1 DEF Writers
  <2> QED
    BY <2>1, <2>2 DEF PlainWriter, Storing
<1>5. \A q \in Producers : q # p /\ writeLock = q => writeLock' = q
  BY <1>3, Roles
<1> QED
  BY <1>1, <1>2, <1>3, <1>4, <1>5, PlainLocalAll DEF Moved

LEMMA PlainRefuse ==
  ASSUME PlainAll, NEW p \in Producers, Refuse(p)
  PROVE  PlainAll'
<1>1. RingTypes /\ p \in Threads /\ p \notin Consumers /\ p \notin Observers
  BY Roles DEF PlainAll
<1>2. /\ Moved(p, "idle", "none", 0, 0, 0, 1, <<>>) /\ Local /\ RingTypes'
      /\ writeLock' = IF writeLock = p THEN NoThread ELSE writeLock
      /\ readLock' = readLock
  BY <1>1, RefuseDoes
<1>3. PlainWriter(p)'
  BY <1>2, WriterRests DEF Moved
<1> QED
  BY <1>1, <1>2, <1>3, PlainLocalAll DEF Moved

LEMMA PlainLoadTail ==
  ASSUME PlainAll, NEW p \in Producers, LoadTail(p)
  PROVE  PlainAll'
<1>1. RingTypes /\ p \in Threads /\ p \notin Consumers /\ p \notin Observers
  BY Roles DEF PlainAll
<1>2. CASE Refuse(p)
  BY <1>2, PlainRefuse
<1>3. CASE /\ \E size \in Nat \ {0} :
                /\ size <= Capacity - (me[p].pos - tail)
                /\ Moved(p, "fill", me[p].op, me[p].want, me[p].pos, me[p].far, size, <<>>)
           /\ Local /\ RingTypes' /\ UNCHANGED locks
  <2>1. PICK size \in Nat \ {0} :
          /\ size <= Capacity - (me[p].pos - tail)
          /\ Moved(p, "fill", me[p].op, me[p].want, me[p].pos, me[p].far, size, <<>>)
    BY <1>3
  <2>2. writeLock' = writeLock /\ readLock' = readLock /\ kind' = kind /\ head' = head /\ tail' = tail
    BY <1>3 DEF locks, Local
  <2>3. me[p].at = "loadTail"
    BY <1>1, LoadTailDoes
  <2>4. /\ me[p].pos = head
        /\ IF kind \in {"SeqLockRing", "MPSeqRing"} THEN writeLock = p ELSE p = LeadWriter
    BY <2>3 DEF PlainAll, PlainInv, PlainWriter
  <2>5. head + size <= tail + Capacity
    BY <1>1, <2>1, <2>4, RingsAssumption DEF RingTypes
  <2>6. me'[p].pos = head /\ me'[p].n = size /\ me'[p].out = <<>> /\ me'[p].at = "fill"
    BY <2>1, <2>4 DEF Moved
  <2>7. PlainWriter(p)'
    BY <2>2, <2>4, <2>5, <2>6 DEF PlainWriter
  <2> QED
    BY <1>1, <1>3, <2>1, <2>2, <2>7, PlainLocalAll DEF Moved
<1> QED
  BY <1>1, <1>2, <1>3, LoadTailDoes

LEMMA WithinLap ==
  ASSUME NEW h \in Nat, NEW m \in Nat, NEW n \in Nat, NEW t \in Nat, NEW cap \in Nat, NEW k \in Nat,
         m < n, h + n <= t + cap, t <= k
  PROVE  h + m < k + cap /\ h + m \in Int
OBVIOUS

\* Storing into the slot of a position that is not published yet.
LEMMA PlainStores ==
  ASSUME PlainAll, NEW p \in Producers, me[p].at \in {"fill", "filling"},
         NEW value \in Samples, slot' = [slot EXCEPT ![FillSlot(p)] = value],
         me'[p].at \in Storing, me'[p].pos = me[p].pos, me'[p].n = me[p].n,
         \/ me'[p].out = me[p].out
         \/ me'[p].out = Append(me[p].out, value) /\ value = Value(p, Len(me[p].out) + 1),
         me' \in [Threads -> Locals], \A u \in Threads : u # p => me'[u] = me[u],
         UNCHANGED <<kind, head, tail, seq, writeLock, readLock, offered, written, got>>, RingTypes'
  PROVE  PlainAll'
<1> DEFINE m == Len(me[p].out)
<1>1. RingTypes /\ PlainInv /\ p \in Threads /\ PlainWriter(p)
  BY Roles DEF PlainAll, PlainInv
<1>2. /\ m \in Nat /\ me[p].n \in Nat /\ m < me[p].n /\ me[p].out \in Seq(Samples)
      /\ head \in Nat /\ tail \in Nat /\ Capacity \in Nat
  BY <1>1, InPlace, RingsAssumption
<1>3. /\ me[p].pos = head /\ head + me[p].n <= tail + Capacity /\ tail <= head
      /\ \A i \in 1..m : me[p].out[i] = Value(p, i) /\ slot[Slot(head + i - 1)] = me[p].out[i]
      /\ IF kind \in {"SeqLockRing", "MPSeqRing"} THEN writeLock = p ELSE p = LeadWriter
  BY <1>1 DEF PlainWriter, Storing, PlainInv
<1>4. FillSlot(p) = Slot(head + m) /\ FillSlot(p) \in SlotIndex
  <2>1. head + m \in Int
    BY <1>2
  <2> QED
    BY <1>3, <2>1, SlotType DEF FillSlot
<1>5. \A k \in Nat : tail <= k /\ k < head + m => slot'[Slot(k)] = slot[Slot(k)]
  <2> SUFFICES ASSUME NEW k \in Nat, tail <= k, k < head + m PROVE slot'[Slot(k)] = slot[Slot(k)]
    OBVIOUS
  <2>1. head + m < k + Capacity /\ head + m \in Int
    <3> HIDE DEF m
    <3> QED
      BY <1>2, <1>3, WithinLap
  <2>2. Slot(k) # Slot(head + m)
    BY <2>1, SlotApart
  <2>3. Slot(k) \in SlotIndex
    BY SlotType
  <2> QED
    BY <1>1, <1>4, <2>2, <2>3 DEF RingTypes
<1>6. slot'[Slot(head + m)] = value
  BY <1>1, <1>4 DEF RingTypes
<1>7. \A k : Slot(k)' = Slot(k) /\ Value(p, k)' = Value(p, k)
  BY DEF Slot, Value
<1>8. PlainWriter(p)'
  <2>1. \A i \in 1..m : me[p].out[i] = Value(p, i) /\ slot'[Slot(head + i - 1)] = me[p].out[i]
    <3> SUFFICES ASSUME NEW i \in 1..m
                 PROVE  me[p].out[i] = Value(p, i) /\ slot'[Slot(head + i - 1)] = me[p].out[i]
      OBVIOUS
    <3>1. head + i - 1 \in Nat /\ tail <= head + i - 1 /\ head + i - 1 < head + m
      BY <1>2, <1>3
    <3> QED
      BY <1>3, <1>5, <3>1
  <2>2. \A i \in 1..Len(me'[p].out) :
          me'[p].out[i] = Value(p, i)' /\ slot'[Slot(head + i - 1)] = me'[p].out[i]
    <3>1. CASE me'[p].out = me[p].out
      BY <1>7, <2>1, <3>1
    <3>2. CASE me'[p].out = Append(me[p].out, value) /\ value = Value(p, m + 1)
      <4>1. Len(me'[p].out) = m + 1 /\ me'[p].out[m + 1] = value /\ \A i \in 1..m : me'[p].out[i] = me[p].out[i]
        BY <1>2, <3>2
      <4>2. head + (m + 1) - 1 = head + m
        BY <1>2
      <4> SUFFICES ASSUME NEW i \in 1..(m + 1)
                   PROVE  me'[p].out[i] = Value(p, i) /\ slot'[Slot(head + i - 1)] = me'[p].out[i]
        BY <1>7, <4>1
      <4>3. CASE i \in 1..m
        BY <2>1, <4>1, <4>3
      <4>4. CASE i = m + 1
        BY <1>6, <3>2, <4>1, <4>2, <4>4
      <4>5. i \in 1..m \/ i = m + 1
        <5>1. m \in Nat
          BY <1>2
        <5> HIDE DEF m
        <5> QED
          BY <5>1
      <4> QED
        BY <4>3, <4>4, <4>5
    <3> QED
      BY <3>1, <3>2
  <2> QED
    BY <1>3, <1>7, <2>2 DEF PlainWriter
<1>9. ASSUME NEW q \in Producers, q # p PROVE PlainWriter(q)'
  <2>1. me[q].at = "idle" /\ me'[q] = me[q]
    BY <1>1, <1>9, OneWriter, Roles
  <2> QED
    BY <2>1, WriterRests
<1>10. ASSUME NEW c \in Consumers PROVE PlainReader(c)'
  BY <1>1, <1>2, Roles, ReaderStays DEF PlainInv
<1>11. ASSUME NEW x \in Observers PROVE PlainPeeker(x)'
  BY <1>1, <1>2, Roles, PeekerStays DEF PlainInv
<1>12. \A k \in Nat : tail <= k /\ k < head => slot'[Slot(k)] = written[k + 1]
  BY <1>1, <1>2, <1>5 DEF PlainInv
<1>13. PlainInv'
  <2>1. /\ head' = Len(written') /\ tail' = Len(got') /\ tail' <= head' /\ head' <= tail' + Capacity
        /\ \A k \in DOMAIN got' : got'[k] = written'[k]
    BY <1>1 DEF PlainInv
  <2> QED
    BY <1>7, <1>8, <1>9, <1>10, <1>11, <1>12, <2>1 DEF PlainInv
<1>14. Numbered'
  BY NumberedLocal, PlainUnclaimed DEF PlainAll, RingTypes
<1>15. Plain'
  BY DEF PlainAll, Plain, Slotted
<1> QED
  BY <1>13, <1>14, <1>15 DEF PlainAll

LEMMA PlainFill ==
  ASSUME PlainAll, NEW p \in Producers, Fill(p)
  PROVE  PlainAll'
<1>1. RingTypes
  BY DEF PlainAll
<1>2. /\ me[p].at = "fill" /\ RingTypes'
      /\ Moved(p, "filling", me[p].op, me[p].want, me[p].pos, me[p].far, me[p].n, me[p].out)
      /\ slot' = [slot EXCEPT ![FillSlot(p)] = Torn]
      /\ UNCHANGED <<kind, head, tail, seq, writeLock, readLock, offered, written, got>>
  BY <1>1, FillDoes
<1>3. Torn \in Samples /\ "filling" \in Storing
  BY DEF Samples, Storing
<1> QED
  BY <1>2, <1>3, PlainStores DEF Moved

LEMMA PlainFilled ==
  ASSUME PlainAll, NEW p \in Producers, Filled(p)
  PROVE  PlainAll'
<1> DEFINE value == Value(p, Len(me[p].out) + 1)
<1>1. RingTypes /\ Len(me[p].out) \in Nat
  BY WriterFacts DEF PlainAll
<1>2. /\ me[p].at = "filling" /\ RingTypes'
      /\ slot' = [slot EXCEPT ![FillSlot(p)] = value]
      /\ Moved(p, IF Len(me[p].out) + 1 < me[p].n THEN "fill" ELSE "publish",
               me[p].op, me[p].want, me[p].pos, me[p].far, me[p].n, Append(me[p].out, value))
      /\ UNCHANGED <<kind, head, tail, seq, writeLock, readLock, offered, written, got>>
  BY <1>1, FilledDoes
<1>3. value \in Samples
  <2>1. offered[p] + (Len(me[p].out) + 1) \in Nat
    <3>1. offered[p] \in Nat
      BY <1>1 DEF RingTypes
    <3> QED
      BY <1>1, <3>1
  <2> QED
    BY <2>1 DEF Samples, Value
<1>4. me'[p].at \in Storing
  BY <1>2 DEF Moved, Storing
<1> HIDE DEF value
<1>5. me'[p].out = Append(me[p].out, value) /\ value = Value(p, Len(me[p].out) + 1)
  BY <1>2 DEF Moved, value
<1> QED
  BY <1>2, <1>3, <1>4, <1>5, PlainStores DEF Moved

\* Sequences: one after another, and a sequence of what all its entries are.
LEMMA Joined ==
  ASSUME NEW S, NEW s \in Seq(S), NEW r \in Seq(S)
  PROVE  /\ s \o r \in Seq(S) /\ Len(s \o r) = Len(s) + Len(r)
         /\ \A i \in 1..Len(s) : (s \o r)[i] = s[i]
         /\ \A i \in 1..Len(r) : (s \o r)[Len(s) + i] = r[i]
OBVIOUS

LEMMA Retyped ==
  ASSUME NEW S, NEW T, NEW s \in Seq(S), \A i \in 1..Len(s) : s[i] \in T
  PROVE  s \in Seq(T)
<1>1. s = [i \in 1..Len(s) |-> s[i]] /\ Len(s) \in Nat
  OBVIOUS
<1>2. s \in [1..Len(s) -> T]
  BY <1>1
<1> QED
  BY <1>1, <1>2

LEMMA PlainPublish ==
  ASSUME PlainAll, NEW p \in Producers, PublishHead(p)
  PROVE  PlainAll'
<1> DEFINE n == me[p].n
           out == me[p].out
<1>1. RingTypes /\ PlainInv /\ p \in Threads /\ PlainWriter(p) /\ Numbered
      /\ kind # "HPRing"
  BY Roles, PlainUnclaimed DEF PlainAll, PlainInv
<1>2. /\ n \in Nat \ {0} /\ out \in Seq(Samples) /\ head \in Nat /\ tail \in Nat /\ Capacity \in Nat
      /\ me[p].at = "publish" /\ Len(out) = n /\ offered \in [Producers -> Nat]
  <2>1. me[p].at = "publish"
    BY DEF PublishHead, At
  <2> QED
    BY <1>1, <2>1, InPlace, RingsAssumption DEF RingTypes
<1>3. /\ me[p].pos = head /\ head + n <= tail + Capacity /\ tail <= head
      /\ \A i \in 1..n : out[i] = Value(p, i) /\ slot[Slot(head + i - 1)] = out[i]
  BY <1>1, <1>2 DEF PlainWriter, Storing, PlainInv
<1>4. out \in Seq(Producers \X Nat)
  <2>1. \A i \in 1..n : out[i] \in Producers \X Nat
    <3> SUFFICES ASSUME NEW i \in 1..n PROVE out[i] \in Producers \X Nat
      OBVIOUS
    <3>1. offered[p] + i \in Nat
      BY <1>2
    <3>2. out[i] = <<p, offered[p] + i>>
      BY <1>3 DEF Value
    <3> QED
      BY <3>1, <3>2
  <2> QED
    BY <1>2, <2>1, Retyped
<1>5. /\ RingTypes'
      /\ head' = head + n /\ written' = written \o out
      /\ offered' = [offered EXCEPT ![p] = offered[p] + n]
      /\ writeLock' = IF writeLock = p THEN NoThread ELSE writeLock
      /\ Moved(p, "idle", "none", 0, 0, 0, 1, <<>>)
      /\ UNCHANGED <<kind, tail, slot, seq, readLock, got>>
  <2>1. me[p].pos \in Nat
    BY <1>2, <1>3
  <2> QED
    BY <1>1, <1>3, <1>4, <2>1, PublishHeadDoes
<1> HIDE DEF n, out
<1>6. written \in Seq(Producers \X Nat) /\ Len(written) = head
  BY <1>1 DEF RingTypes, PlainInv
<1>7. /\ Len(written') = head + n
      /\ \A i \in 1..head : written'[i] = written[i]
      /\ \A i \in 1..n : written'[head + i] = out[i]
  <2>1. /\ Len(written \o out) = Len(written) + Len(out)
        /\ \A i \in 1..Len(written) : (written \o out)[i] = written[i]
        /\ \A i \in 1..Len(out) : (written \o out)[Len(written) + i] = out[i]
    <3> DEFINE S == Producers \X Nat
    <3>1. written \in Seq(S) /\ out \in Seq(S)
      BY <1>4, <1>6
    <3> HIDE DEF S
    <3> QED
      BY ONLY <3>1, Joined
  <2>2. Len(out) = n /\ Len(written) = head /\ written' = written \o out
    BY <1>2, <1>5, <1>6
  <2> QED
    BY ONLY <2>1, <2>2
<1>8. head' \in Nat /\ head <= head'
  BY <1>2, <1>5
<1>9. ASSUME NEW q \in Producers PROVE PlainWriter(q)'
  <2>1. CASE q = p
    BY <1>5, <2>1, WriterRests DEF Moved
  <2>2. CASE q # p
    <3>1. me[q].at = "idle" /\ me'[q] = me[q]
      BY <1>1, <1>2, <1>5, <2>2, OneWriter, Roles DEF Moved
    <3> QED
      BY <3>1, WriterRests
  <2> QED
    BY <2>1, <2>2
<1>10. ASSUME NEW c \in Consumers PROVE PlainReader(c)'
  <2>1. c \in Threads /\ c # p /\ PlainReader(c)
    BY <1>1, Roles DEF PlainInv
  <2>2. me'[c] = me[c]
    BY <1>5, <2>1 DEF Moved
  <2> QED
    BY <1>1, <1>5, <1>7, <1>8, <2>1, <2>2, ReaderStays
<1>11. ASSUME NEW x \in Observers PROVE PlainPeeker(x)'
  <2>1. x \in Threads /\ x # p /\ PlainPeeker(x)
    BY <1>1, Roles DEF PlainInv
  <2>2. me'[x] = me[x]
    BY <1>5, <2>1 DEF Moved
  <2>3. tail' \in Nat /\ tail <= tail'
    BY <1>2, <1>5
  <2> QED
    BY <1>1, <1>5, <1>7, <1>8, <2>1, <2>2, <2>3, PeekerStays
<1>12. \A k \in Nat : tail <= k /\ k < head + n => slot[Slot(k)] = written'[k + 1]
  <2> SUFFICES ASSUME NEW k \in Nat, tail <= k, k < head + n PROVE slot[Slot(k)] = written'[k + 1]
    OBVIOUS
  <2>1. CASE k < head
    <3>1. slot[Slot(k)] = written[k + 1] /\ k + 1 \in 1..head
      BY <1>1, <1>2, <2>1 DEF PlainInv
    <3> QED
      BY <1>7, <3>1
  <2>2. CASE k >= head
    <3> DEFINE i == k - head + 1
    <3>1. i \in 1..n /\ head + i - 1 = k /\ head + i = k + 1
      BY <1>2, <2>2
    <3> HIDE DEF i
    <3> QED
      BY <1>3, <1>7, <3>1
  <2> QED
    BY <1>2, <2>1, <2>2
<1>13. \A k : Slot(k)' = Slot(k)
  BY DEF Slot
<1>14. PlainInv'
  <2>1. head' = Len(written') /\ tail' = Len(got') /\ tail' <= head' /\ head' <= tail' + Capacity
    BY <1>1, <1>2, <1>3, <1>5, <1>7 DEF PlainInv
  <2>2. \A k \in DOMAIN got' : got'[k] = written'[k]
    <3> SUFFICES ASSUME NEW k \in DOMAIN got PROVE got[k] = written'[k]
      BY <1>5
    <3>1. k \in 1..head
      BY <1>1, <1>2 DEF PlainInv, RingTypes
    <3> QED
      BY <1>1, <1>7, <3>1 DEF PlainInv
  <2>3. \A k \in Nat : tail' <= k /\ k < head' => slot'[Slot(k)'] = written'[k + 1]
    BY <1>5, <1>12, <1>13
  <2> QED
    BY <1>9, <1>10, <1>11, <2>1, <2>2, <2>3 DEF PlainInv
<1>15. \A i \in DOMAIN written : written[i] \in Producers \X Nat
        /\ written[i][2] >= 1 /\ written[i][2] <= offered[written[i][1]]
  BY <1>1, <1>6 DEF Numbered, Claimed
<1>16. \A i \in DOMAIN written' :
         \/ i \in DOMAIN written /\ written'[i] = written[i]
         \/ \E j \in 1..n : i = head + j /\ written'[i] = <<p, offered[p] + j>>
  <2> TAKE i \in DOMAIN written'
  <2>1. i \in 1..(head + n)
    BY <1>2, <1>5, <1>7 DEF RingTypes
  <2>2. CASE i <= head
    BY <1>2, <1>6, <1>7, <2>1, <2>2
  <2>3. CASE i > head
    <3> DEFINE j == i - head
    <3>1. j \in 1..n /\ i = head + j
      BY <1>2, <2>1, <2>3
    <3> HIDE DEF j
    <3>2. written'[i] = <<p, offered[p] + j>>
      BY <1>3, <1>7, <3>1 DEF Value
    <3> QED
      BY <3>1, <3>2
  <2> QED
    BY <1>2, <2>1, <2>2, <2>3
<1>17. Numbered'
  <2>1. \A q \in Producers : offered'[q] = IF q = p THEN offered[p] + n ELSE offered[q]
    BY <1>2, <1>5
  <2>2. \A i \in DOMAIN written' :
          written'[i][2] >= 1 /\ (written'[i][2] <= offered'[written'[i][1]] \/ Claimed(i)')
    <3> TAKE i \in DOMAIN written'
    <3>1. CASE i \in DOMAIN written /\ written'[i] = written[i]
      BY <1>2, <1>15, <2>1, <3>1
    <3>2. CASE \E j \in 1..n : i = head + j /\ written'[i] = <<p, offered[p] + j>>
      BY <1>2, <2>1, <3>2
    <3> QED
      BY <1>16, <3>1, <3>2
  <2>3. InProducersOrder'
    <3> SUFFICES ASSUME NEW i \in DOMAIN written', NEW j \in DOMAIN written', i < j,
                        written'[i][1] = written'[j][1]
                 PROVE  written'[i][2] < written'[j][2]
      BY DEF InProducersOrder
    <3>1. CASE j \in DOMAIN written /\ written'[j] = written[j]
      <4>1. i \in DOMAIN written /\ written'[i] = written[i]
        BY <1>2, <1>6, <1>16, <3>1
      <4> QED
        BY <1>1, <3>1, <4>1 DEF Numbered, InProducersOrder
    <3>2. CASE \E l \in 1..n : j = head + l /\ written'[j] = <<p, offered[p] + l>>
      <4>1. PICK l \in 1..n : j = head + l /\ written'[j] = <<p, offered[p] + l>>
        BY <3>2
      <4>2. CASE i \in DOMAIN written /\ written'[i] = written[i]
        <5>1. written[i][2] <= offered[p] /\ written[i][2] \in Nat /\ offered[p] \in Nat
          BY <1>2, <1>15, <4>1, <4>2
        <5> QED
          BY <4>1, <4>2, <5>1
      <4>3. CASE \E g \in 1..n : i = head + g /\ written'[i] = <<p, offered[p] + g>>
        BY <1>2, <4>1, <4>3
      <4> QED
        BY <1>16, <4>2, <4>3
    <3> QED
      BY <1>16, <3>1, <3>2
  <2> QED
    BY <2>2, <2>3 DEF Numbered
<1>18. Plain'
  BY <1>5 DEF PlainAll, Plain, Slotted
<1> QED
  BY <1>5, <1>14, <1>17, <1>18 DEF PlainAll

-------------------------------------------------------------------------------
\* The steps of a reader of such a ring.
LEMMA PlainReaderMoves ==
  ASSUME PlainAll, NEW c \in Consumers, Local, RingTypes',
         me' \in [Threads -> Locals], \A u \in Threads : u # c => me'[u] = me[u],
         writeLock' = writeLock, \A d \in Consumers : d # c /\ readLock = d => readLock' = d,
         PlainReader(c)'
  PROVE  PlainAll'
BY Roles, PlainLocalAll

LEMMA PlainReadCall ==
  ASSUME PlainAll, kind # "HPLinkedQueue", NEW c \in Consumers, ReadCall(c)
  PROVE  PlainAll'
<1>1. RingTypes /\ ~Slotted /\ PlainInv /\ kind # "HPRing"
  BY PlainUnclaimed DEF PlainAll, Plain
<1>2. PICK size \in Nat \ {0} : Moved(c, "loadOwnTail", me[c].op, size, me[c].pos, head, me[c].n, <<>>)
  BY <1>1, ReadCallDoes DEF Loaded
<1>3. /\ Local /\ RingTypes' /\ c \in Readers /\ writeLock' = writeLock
      /\ IF kind = "MPSeqRing" THEN readLock = NoThread /\ readLock' = c ELSE readLock' = readLock
  BY <1>1, ReadCallDoes
<1>4. /\ me'[c].at = "loadOwnTail" /\ me'[c].want > 0 /\ me'[c].far = head
      /\ kind' = kind /\ head' = head /\ tail' = tail /\ tail <= head /\ head \in Nat
  BY <1>1, <1>2, <1>3 DEF Moved, Local, PlainInv, RingTypes
<1>5. IF kind = "MPSeqRing" THEN readLock' = c ELSE c = LeadReader
  BY <1>1, <1>3 DEF Readers
<1>6. PlainReader(c)'
  BY <1>4, <1>5 DEF PlainReader
<1>7. \A d \in Consumers : d # c /\ readLock = d => readLock' = d
  BY <1>3, Roles
<1> QED
  BY <1>2, <1>3, <1>6, <1>7, PlainReaderMoves DEF Moved

LEMMA PlainReadAgain ==
  ASSUME PlainAll, NEW c \in Consumers, ReadAgain(c)
  PROVE  PlainAll'
<1>1. RingTypes /\ ~Slotted /\ PlainInv /\ PlainReader(c)
  BY DEF PlainAll, Plain, PlainInv
<1>2. /\ Moved(c, "loadOwnTail", me[c].op, me[c].want, me[c].pos, head, me[c].n, <<>>)
      /\ Local /\ RingTypes' /\ me[c].at = "readAgain"
      /\ writeLock' = writeLock /\ readLock' = readLock
  BY <1>1, ReadAgainDoes DEF Loaded, locks
<1>3. /\ me'[c].at = "loadOwnTail" /\ me'[c].want = me[c].want /\ me'[c].far = head
      /\ kind' = kind /\ head' = head /\ tail' = tail /\ tail <= head /\ head \in Nat
  BY <1>1, <1>2 DEF Moved, Local, PlainInv, RingTypes
<1>4. PlainReader(c)'
  BY <1>1, <1>2, <1>3 DEF PlainReader
<1> QED
  BY <1>2, <1>4, PlainReaderMoves DEF Moved

LEMMA PlainFindNothing ==
  ASSUME PlainAll, NEW c \in Consumers, FindNothing(c)
  PROVE  PlainAll'
<1>1. RingTypes
  BY DEF PlainAll
<1>2. /\ Moved(c, "idle", "none", 0, 0, 0, 1, <<>>) /\ Local /\ RingTypes'
      /\ readLock' = IF readLock = c THEN NoThread ELSE readLock
      /\ writeLock' = writeLock
  BY <1>1, FindNothingDoes
<1>3. PlainReader(c)'
  BY <1>2 DEF PlainReader, Moved
<1> QED
  BY <1>2, <1>3, PlainReaderMoves DEF Moved

LEMMA PlainLoadOwnTail ==
  ASSUME PlainAll, NEW c \in Consumers, LoadOwnTail(c)
  PROVE  PlainAll'
<1>1. RingTypes /\ PlainInv /\ PlainReader(c) /\ me[c].at = "loadOwnTail" /\ c \in Threads
  BY Roles DEF PlainAll, PlainInv, LoadOwnTail, At
<1>2. /\ tail <= me[c].far /\ me[c].far <= head /\ me[c].want > 0
      /\ IF kind = "MPSeqRing" THEN readLock = c ELSE c = LeadReader
  BY <1>1 DEF PlainReader
<1>3. CASE FindNothing(c)
  BY <1>3, PlainFindNothing
<1>4. CASE /\ me[c].far # tail /\ Count(c) \in Nat \ {0}
           /\ Moved(c, "copy", me[c].op, me[c].want, tail, me[c].far, Count(c), <<>>)
           /\ Local /\ RingTypes' /\ UNCHANGED locks
  <2>1. me[c].far \in Nat /\ tail \in Nat /\ head \in Nat /\ me[c].want \in Nat
    BY <1>1, InPlace
  <2>2. tail + Count(c) <= me[c].far
    <3>1. tail < me[c].far
      BY <1>2, <1>4, <2>1
    <3>2. Count(c) <= me[c].far - tail
      BY <1>1, <1>2, <1>4, <3>1, CountIs
    <3> QED
      BY <1>4, <2>1, <3>2
  <2>3. /\ me'[c].at = "copy" /\ me'[c].pos = tail /\ me'[c].far = me[c].far /\ me'[c].n = Count(c)
        /\ me'[c].out = <<>> /\ me'[c].want = me[c].want /\ kind' = kind /\ head' = head /\ tail' = tail
        /\ writeLock' = writeLock /\ readLock' = readLock
    BY <1>4 DEF Moved, Local, locks
  <2>4. Whole(c)'
    BY <2>3 DEF Whole
  <2>5. PlainReader(c)'
    BY <1>2, <2>2, <2>3, <2>4 DEF PlainReader
  <2> QED
    BY <1>4, <2>3, <2>5, PlainReaderMoves DEF Moved
<1> QED
  BY <1>1, <1>2, <1>3, <1>4, LoadOwnTailDoes

\* What is copied from a position between tail and head is its sample.
LEMMA WholeMore ==
  ASSUME RingTypes, PlainInv, NEW t \in Threads, StillWhole(t),
         me[t].pos + me[t].n <= me[t].far, me[t].far <= head, Len(me[t].out) < me[t].n,
         me'[t].out = CopyMore(t), me'[t].pos = me[t].pos, written' = written, tail' = tail
  PROVE  StillWhole(t)'
<1> DEFINE m == Len(me[t].out)
           a == me[t].pos
<1>1. /\ m \in Nat /\ a \in Int /\ me[t].n \in Nat /\ me[t].far \in Nat /\ head \in Nat /\ tail \in Nat
      /\ me[t].out \in Seq(Samples)
  BY InPlace
<1>2. /\ a + m + 1 = a + (m + 1)
      /\ tail < a + (m + 1) => a + m \in Nat /\ tail <= a + m /\ a + m < head
  <2> HIDE DEF m, a
  <2>1. a + me[t].n <= me[t].far /\ m < me[t].n
    BY DEF m, a
  <2> QED
    BY <1>1, <2>1
<1>3. tail < a + (m + 1) => slot[Slot(a + m)] = written[a + (m + 1)]
  BY <1>2 DEF PlainInv
<1>4. CopyMore(t) = Append(me[t].out, slot[Slot(a + m)])
  BY DEF CopyMore, CopySlot
<1> HIDE DEF a
<1>7. Len(CopyMore(t)) = m + 1
  BY <1>1, <1>4
<1> SUFFICES ASSUME NEW i \in 1..(m + 1), tail < a + i PROVE me'[t].out[i] = written[a + i]
  <2>1. Len(me'[t].out) = m + 1
    BY <1>7
  <2> HIDE DEF m
  <2>2. \A i \in 1..(m + 1) : tail < a + i => me'[t].out[i] = written[a + i]
    OBVIOUS
  <2> QED
    BY <2>1, <2>2 DEF StillWhole, a
<1>5. CASE i \in 1..m
  <2>1. me[t].out[i] = written[a + i]
    BY <1>5 DEF StillWhole, a
  <2>2. me'[t].out[i] = me[t].out[i]
    BY <1>1, <1>4, <1>5
  <2> QED
    BY <2>1, <2>2
<1>6. CASE i = m + 1
  <2>1. CopyMore(t)[m + 1] = slot[Slot(a + m)]
    BY <1>1, <1>4
  <2> QED
    BY <1>3, <1>6, <2>1
<1>8. i \in 1..m \/ i = m + 1
  <2>1. m \in Nat
    BY <1>1
  <2> HIDE DEF m
  <2> QED
    BY <2>1
<1> QED
  BY <1>5, <1>6, <1>8

LEMMA PlainCopy ==
  ASSUME PlainAll, NEW c \in Consumers, Copy(c)
  PROVE  PlainAll'
<1>1. RingTypes /\ PlainInv /\ PlainReader(c) /\ c \in Threads
  BY Roles DEF PlainAll, PlainInv
<1>2. /\ me[c].at = "copy" /\ Len(me[c].out) < me[c].n
      /\ Moved(c, AfterCopy(c), me[c].op, me[c].want, me[c].pos, me[c].far, me[c].n, CopyMore(c))
      /\ Local /\ UNCHANGED locks /\ RingTypes'
  BY <1>1, CopyDoes
<1>3. /\ IF kind = "MPSeqRing" THEN readLock = c ELSE c = LeadReader
      /\ me[c].want > 0 /\ tail <= me[c].far /\ me[c].far <= head
      /\ me[c].pos = tail /\ tail + me[c].n <= me[c].far /\ Whole(c)
  BY <1>1, <1>2 DEF PlainReader
<1>4. AfterCopy(c) \in {"copy", "checkHead", "release"}
  BY Roles DEF AfterCopy
<1>5. /\ me'[c].at = AfterCopy(c) /\ me'[c].pos = me[c].pos /\ me'[c].far = me[c].far
      /\ me'[c].n = me[c].n /\ me'[c].out = CopyMore(c) /\ me'[c].want = me[c].want
      /\ kind' = kind /\ head' = head /\ tail' = tail /\ written' = written
      /\ writeLock' = writeLock /\ readLock' = readLock
  BY <1>2 DEF Moved, Local, locks
<1>6. Whole(c)'
  <2>1. StillWhole(c) /\ me[c].pos + me[c].n <= me[c].far
    BY <1>1, <1>3, InPlace DEF Whole, StillWhole
  <2>2. StillWhole(c)'
    BY <1>1, <1>2, <1>3, <1>5, <2>1, WholeMore
  <2>3. \A i \in 1..Len(me'[c].out) : tail' < me'[c].pos + i
    BY <1>1, <1>3, <1>5, InPlace
  <2> QED
    BY <2>2, <2>3 DEF Whole, StillWhole
<1>7. PlainReader(c)'
  BY <1>3, <1>4, <1>5, <1>6 DEF PlainReader
<1> QED
  BY <1>2, <1>5, <1>7, PlainReaderMoves DEF Moved

LEMMA PlainCheckHead ==
  ASSUME PlainAll, NEW c \in Consumers, CheckHead(c)
  PROVE  PlainAll'
<1>1. RingTypes /\ PlainInv /\ PlainReader(c)
  BY DEF PlainAll, PlainInv
<1>2. /\ me[c].at = "checkHead" /\ Local /\ RingTypes' /\ writeLock' = writeLock /\ readLock' = readLock
      /\ \/ Moved(c, "release", me[c].op, me[c].want, me[c].pos, me[c].far, me[c].n, me[c].out)
         \/ Moved(c, "readAgain", me[c].op, me[c].want, me[c].pos, me[c].far, me[c].n, <<>>)
  BY <1>1, CheckHeadDoes DEF locks
<1>3. /\ IF kind = "MPSeqRing" THEN readLock = c ELSE c = LeadReader
      /\ me[c].want > 0 /\ tail <= me[c].far /\ me[c].far <= head
      /\ me[c].pos = tail /\ tail + me[c].n <= me[c].far /\ Whole(c)
  BY <1>1, <1>2 DEF PlainReader
<1>4. kind' = kind /\ head' = head /\ tail' = tail /\ written' = written
  BY <1>2 DEF Local
<1>5. PlainReader(c)'
  <2>1. CASE Moved(c, "release", me[c].op, me[c].want, me[c].pos, me[c].far, me[c].n, me[c].out)
    <3>1. /\ me'[c].at = "release" /\ me'[c].pos = me[c].pos /\ me'[c].far = me[c].far
          /\ me'[c].n = me[c].n /\ me'[c].out = me[c].out /\ me'[c].want = me[c].want
      BY <2>1 DEF Moved
    <3>2. Whole(c)'
      BY <1>3, <1>4, <3>1 DEF Whole
    <3> QED
      BY <1>2, <1>3, <1>4, <3>1, <3>2 DEF PlainReader
  <2>2. CASE Moved(c, "readAgain", me[c].op, me[c].want, me[c].pos, me[c].far, me[c].n, <<>>)
    <3>1. me'[c].at = "readAgain" /\ me'[c].want = me[c].want
      BY <2>2 DEF Moved
    <3> QED
      BY <1>2, <1>3, <1>4, <3>1 DEF PlainReader
  <2> QED
    BY <1>2, <2>1, <2>2
<1> QED
  BY <1>2, <1>5, PlainReaderMoves DEF Moved

LEMMA PlainRelease ==
  ASSUME PlainAll, NEW c \in Consumers, ReleaseTail(c)
  PROVE  PlainAll'
<1> DEFINE n == me[c].n
           out == me[c].out
<1>1. RingTypes /\ PlainInv /\ PlainReader(c) /\ c \in Threads /\ me[c].at = "release"
  BY Roles DEF PlainAll, PlainInv, ReleaseTail, At
<1>2. /\ tail <= me[c].far /\ me[c].far <= head
      /\ me[c].pos = tail /\ tail + n <= me[c].far /\ Whole(c)
  BY <1>1 DEF PlainReader
<1>3. /\ n \in Nat \ {0} /\ head \in Nat /\ tail \in Nat /\ me[c].far \in Nat
      /\ out \in Seq(Samples) /\ Len(out) = n /\ Capacity \in Nat
  BY <1>1, InPlace, RingsAssumption
<1>4. /\ RingTypes' /\ tail' = tail + n /\ Deliver(tail, out)
      /\ readLock' = IF readLock = c THEN NoThread ELSE readLock
      /\ Moved(c, "idle", "none", 0, 0, 0, 1, <<>>)
      /\ UNCHANGED <<kind, head, slot, seq, writeLock, offered, written>>
  BY <1>1, <1>2, <1>3, ReleaseTailDoes
<1>5. \A i \in 1..n : out[i] = written[tail + i]
  BY <1>2, <1>3 DEF Whole
<1> HIDE DEF n, out
<1>6. /\ got' \in Seq(Samples \cup {Twice})
      /\ Len(got') = IF Len(got) < tail + n THEN tail + n ELSE Len(got)
      /\ \A k \in Nat : (k <= tail \/ k > tail + n) => ReadAt(k)' = ReadAt(k)
      /\ \A k \in Nat : k > tail /\ k <= tail + n =>
           ReadAt(k)' = IF ReadAt(k) = NoValue THEN out[k - tail] ELSE Twice
  BY <1>1, <1>3, <1>4, Delivered
<1>7. Len(got) = tail /\ DOMAIN got = 1..tail /\ \A k \in DOMAIN got : got[k] = written[k]
  BY <1>1 DEF PlainInv, RingTypes
<1>8. Len(got') = tail + n /\ DOMAIN got' = 1..(tail + n)
  BY <1>3, <1>6, <1>7
<1>9. \A k \in DOMAIN got' : got'[k] = written[k]
  <2> SUFFICES ASSUME NEW k \in 1..(tail + n) PROVE got'[k] = written[k]
    BY <1>8
  <2>1. ReadAt(k)' = got'[k] /\ k \in Nat
    BY <1>8 DEF ReadAt
  <2>2. CASE k <= tail
    <3>1. ReadAt(k)' = ReadAt(k) /\ k \in 1..tail
      BY <1>3, <1>6, <2>1, <2>2
    <3> QED
      BY <1>7, <2>1, <3>1 DEF ReadAt
  <2>3. CASE k > tail
    <3>1. k \notin DOMAIN got /\ k - tail \in 1..n /\ tail + (k - tail) = k
      BY <1>3, <1>7, <2>3
    <3>2. ReadAt(k) = NoValue
      BY <3>1 DEF ReadAt
    <3>3. ReadAt(k)' = out[k - tail]
      BY <1>6, <2>1, <2>3, <3>2
    <3>4. out[k - tail] = written[k]
      BY <1>5, <3>1
    <3> QED
      BY <2>1, <3>3, <3>4
  <2> QED
    BY <1>3, <2>2, <2>3
<1>10. tail' \in Nat /\ tail <= tail' /\ tail' <= head
  BY <1>2, <1>3, <1>4 DEF n
<1>11. ASSUME NEW p \in Producers PROVE PlainWriter(p)'
  <2>1. p \in Threads /\ p # c /\ PlainWriter(p)
    BY <1>1, Roles DEF PlainInv
  <2>2. me'[p] = me[p]
    BY <1>4, <2>1 DEF Moved
  <2> QED
    BY <1>1, <1>4, <1>10, <2>1, <2>2, WriterStays
<1>12. ASSUME NEW d \in Consumers PROVE PlainReader(d)'
  <2>1. CASE d = c
    BY <1>4, <2>1 DEF Moved, PlainReader
  <2>2. CASE d # c
    <3>1. me[d].at = "idle" /\ me'[d] = me[d]
      BY <1>1, <1>4, <2>2, OneReader, Roles DEF Moved
    <3> QED
      BY <3>1 DEF PlainReader
  <2> QED
    BY <2>1, <2>2
<1>13. ASSUME NEW x \in Observers PROVE PlainPeeker(x)'
  <2>1. x \in Threads /\ x # c /\ PlainPeeker(x)
    BY <1>1, Roles DEF PlainInv
  <2>2. me'[x] = me[x]
    BY <1>4, <2>1 DEF Moved
  <2> QED
    BY <1>1, <1>3, <1>4, <1>10, <2>1, <2>2, PeekerStays
<1>14. PlainInv'
  <2>1. head' = Len(written') /\ tail' = Len(got') /\ tail' <= head' /\ head' <= tail' + Capacity
    BY <1>1, <1>3, <1>4, <1>8, <1>10 DEF PlainInv
  <2>2. \A k \in DOMAIN got' : got'[k] = written'[k]
    BY <1>4, <1>9
  <2>3. \A k \in Nat : tail' <= k /\ k < head' => slot'[Slot(k)'] = written'[k + 1]
    <3> SUFFICES ASSUME NEW k \in Nat, tail' <= k, k < head PROVE slot[Slot(k)] = written[k + 1]
      BY <1>4 DEF Slot
    <3>1. tail <= k
      BY <1>3, <1>10
    <3> QED
      BY <1>1, <3>1 DEF PlainInv
  <2> QED
    BY <1>11, <1>12, <1>13, <2>1, <2>2, <2>3 DEF PlainInv
<1>15. Numbered'
  BY <1>4, NumberedLocal, PlainUnclaimed DEF PlainAll, RingTypes
<1>16. Plain'
  BY <1>4 DEF PlainAll, Plain, Slotted
<1> QED
  BY <1>4, <1>14, <1>15, <1>16 DEF PlainAll

-------------------------------------------------------------------------------
\* The steps of a thread that peeks into such a ring.
LEMMA PlainPeekerMoves ==
  ASSUME PlainAll, NEW x \in Observers, Local, RingTypes', UNCHANGED locks,
         me' \in [Threads -> Locals], \A u \in Threads : u # x => me'[u] = me[u],
         PlainPeeker(x)'
  PROVE  PlainAll'
<1>1. writeLock' = writeLock /\ readLock' = readLock
  BY DEF locks
<1> QED
  BY <1>1, Roles, PlainLocalAll

LEMMA PlainPeekIdle ==
  ASSUME PlainAll, NEW x \in Observers, Local, RingTypes', UNCHANGED locks,
         Moved(x, "idle", "none", 0, 0, 0, 1, <<>>)
  PROVE  PlainAll'
<1>1. PlainPeeker(x)'
  BY DEF PlainPeeker, Moved
<1> QED
  BY <1>1, PlainPeekerMoves DEF Moved

LEMMA PlainPeekCall ==
  ASSUME PlainAll, NEW x \in Observers, PeekCall(x)
  PROVE  PlainAll'
<1>1. RingTypes /\ head \in Nat
  BY DEF PlainAll, RingTypes
<1>2. PICK size \in Nat \ {0}, which \in {"Peek", "PeekLatest"} :
        /\ which = "Peek" => kind = "SeqLockRing"
        /\ Moved(x, "loadOwnTail", which, size, me[x].pos, head, me[x].n, <<>>)
  BY <1>1, PeekCallDoes
<1>3. Local /\ RingTypes' /\ UNCHANGED locks
  BY <1>1, PeekCallDoes
<1>4. /\ me'[x].at = "loadOwnTail" /\ me'[x].far = head /\ me'[x].want > 0 /\ me'[x].op = which
      /\ kind' = kind /\ head' = head
  BY <1>2, <1>3 DEF Moved, Local
<1>5. PlainPeeker(x)'
  BY <1>1, <1>2, <1>4 DEF PlainPeeker
<1> QED
  BY <1>2, <1>3, <1>5, PlainPeekerMoves DEF Moved

LEMMA PlainPeekAgain ==
  ASSUME PlainAll, NEW x \in Observers, PeekAgain(x)
  PROVE  PlainAll'
<1>1. RingTypes /\ head \in Nat /\ PlainPeeker(x)
  BY DEF PlainAll, RingTypes, PlainInv
<1>2. /\ Moved(x, "loadOwnTail", me[x].op, me[x].want, me[x].pos, head, me[x].n, <<>>)
      /\ Local /\ RingTypes' /\ me[x].at = "peekAgain" /\ UNCHANGED locks
  BY <1>1, PeekAgainDoes
<1>3. /\ me'[x].at = "loadOwnTail" /\ me'[x].far = head /\ me'[x].want = me[x].want
      /\ me'[x].op = me[x].op /\ kind' = kind /\ head' = head
  BY <1>2 DEF Moved, Local
<1>4. PlainPeeker(x)'
  BY <1>1, <1>2, <1>3 DEF PlainPeeker
<1> QED
  BY <1>2, <1>4, PlainPeekerMoves DEF Moved

LEMMA PlainPeekTail ==
  ASSUME PlainAll, NEW x \in Observers, PeekTail(x)
  PROVE  PlainAll'
<1>1. RingTypes /\ PlainPeeker(x) /\ x \in Threads /\ me[x].at = "loadOwnTail" /\ tail <= head
  BY Roles DEF PlainAll, PlainInv, PeekTail, At
<1>2. /\ me[x].far <= head /\ me[x].want > 0 /\ me[x].op # "none"
      /\ kind # "SeqLockRing" => me[x].op = "PeekLatest"
  BY <1>1 DEF PlainPeeker
<1>3. Local /\ UNCHANGED locks /\ RingTypes'
  BY <1>1, <1>2, PeekTailDoes
<1>4. CASE Moved(x, "idle", "none", 0, 0, 0, 1, <<>>)
  BY <1>3, <1>4, PlainPeekIdle
<1>5. CASE /\ me[x].far # tail /\ Count(x) \in Nat \ {0}
           /\ \E w \in Nat \ {0} :
               IF me[x].op = "Peek"
               THEN Moved(x, "copy", me[x].op, w, tail, me[x].far, Count(x), <<>>)
               ELSE Moved(x, "copy", me[x].op, w, me[x].far - Count(x), me[x].far, Count(x), <<>>)
  <2>1. me[x].far \in Nat /\ head \in Nat /\ tail \in Nat
    BY <1>1, InPlace
  <2>2. me[x].op = "Peek" \/ me[x].op = "PeekLatest"
    BY <1>1, <1>2, LocalType DEF RingTypes
  <2>3. tail < me[x].far => Count(x) <= me[x].far - tail
    BY <1>1, <1>2, <1>5, CountIs
  <2> DEFINE from == IF me[x].op = "Peek" THEN tail ELSE me[x].far - Count(x)
  <2>4. PICK w \in Nat \ {0} : Moved(x, "copy", me[x].op, w, from, me[x].far, Count(x), <<>>)
    BY <1>5
  <2>5. /\ me[x].op = "PeekLatest" => from + Count(x) = me[x].far
        /\ from + Count(x) <= me[x].far \/ head > me[x].far
    <3>1. CASE me[x].op = "PeekLatest"
      BY <1>5, <2>1, <3>1
    <3>2. CASE me[x].op = "Peek"
      <4>1. from = tail
        BY <3>2
      <4>2. CASE tail < me[x].far
        BY <1>5, <2>1, <2>3, <3>2, <4>1, <4>2
      <4>3. CASE tail > me[x].far
        BY <1>1, <2>1, <3>2, <4>3
      <4> QED
        BY <1>5, <2>1, <4>2, <4>3
    <3> QED
      BY <2>2, <3>1, <3>2
  <2> HIDE DEF from
  <2>6. /\ me'[x].at = "copy" /\ me'[x].op = me[x].op /\ me'[x].want > 0 /\ me'[x].pos = from
        /\ me'[x].far = me[x].far /\ me'[x].n = Count(x) /\ me'[x].out = <<>>
        /\ kind' = kind /\ head' = head /\ tail' = tail
    BY <1>3, <2>4 DEF Moved, Local
  <2>7. StillWhole(x)'
    BY <2>6 DEF StillWhole
  <2>8. PlainPeeker(x)'
    BY <1>2, <2>5, <2>6, <2>7 DEF PlainPeeker
  <2> QED
    BY <1>3, <2>4, <2>8, PlainPeekerMoves DEF Moved
<1> QED
  BY <1>1, <1>2, <1>4, <1>5, PeekTailDoes

LEMMA PlainPeekCopy ==
  ASSUME PlainAll, NEW x \in Observers, Copy(x)
  PROVE  PlainAll'
<1> DEFINE beyond == me[x].pos + me[x].n
<1>1. RingTypes /\ PlainInv /\ PlainPeeker(x) /\ x \in Threads
  BY Roles DEF PlainAll, PlainInv
<1>2. /\ me[x].at = "copy" /\ Len(me[x].out) < me[x].n
      /\ Moved(x, AfterCopy(x), me[x].op, me[x].want, me[x].pos, me[x].far, me[x].n, CopyMore(x))
      /\ Local /\ UNCHANGED locks /\ RingTypes'
  BY <1>1, CopyDoes
<1>3. /\ me[x].far <= head /\ me[x].want > 0 /\ me[x].op # "none"
      /\ kind # "SeqLockRing" => me[x].op = "PeekLatest"
      /\ me[x].op = "PeekLatest" => beyond = me[x].far
      /\ beyond <= me[x].far \/ head > me[x].far
      /\ beyond <= me[x].far => StillWhole(x)
  BY <1>1, <1>2 DEF PlainPeeker
<1>4. /\ AfterCopy(x) \in {"copy", "checkHead", "peeked"}
      /\ AfterCopy(x) = "peeked" => kind # "SeqLockRing"
  BY DEF AfterCopy
<1>5. /\ me'[x].at = AfterCopy(x) /\ me'[x].pos = me[x].pos /\ me'[x].far = me[x].far
      /\ me'[x].n = me[x].n /\ me'[x].out = CopyMore(x) /\ me'[x].want = me[x].want
      /\ me'[x].op = me[x].op
      /\ kind' = kind /\ head' = head /\ tail' = tail /\ written' = written
  BY <1>2 DEF Moved, Local
<1>6. beyond <= me[x].far => StillWhole(x)'
  BY <1>1, <1>2, <1>3, <1>5, WholeMore
<1>7. PlainPeeker(x)'
  BY <1>3, <1>4, <1>5, <1>6 DEF PlainPeeker
<1> QED
  BY <1>2, <1>7, PlainPeekerMoves DEF Moved

LEMMA PlainPeekCheckHead ==
  ASSUME PlainAll, NEW x \in Observers, PeekCheckHead(x)
  PROVE  PlainAll'
<1> DEFINE beyond == me[x].pos + me[x].n
<1>1. RingTypes /\ PlainPeeker(x) /\ x \in Threads /\ head \in Nat /\ me[x].far \in Nat /\ beyond \in Int
  BY Roles, PeekerFacts DEF PlainAll, PlainInv, RingTypes
<1>2. /\ me[x].at = "checkHead" /\ Local /\ RingTypes' /\ UNCHANGED locks
      /\ \/ head = me[x].far /\ me[x].op = "Peek"
            /\ Moved(x, "checkTail", me[x].op, me[x].want, me[x].pos, me[x].far, me[x].n, me[x].out)
         \/ head = me[x].far /\ me[x].op # "Peek"
            /\ Moved(x, "peeked", me[x].op, me[x].want, me[x].pos, me[x].far, me[x].n, me[x].out)
         \/ Moved(x, "peekAgain", me[x].op, me[x].want, me[x].pos, me[x].far, me[x].n, <<>>)
  BY <1>1, PeekCheckHeadDoes
<1>3. /\ me[x].far <= head /\ me[x].want > 0 /\ me[x].op # "none"
      /\ kind # "SeqLockRing" => me[x].op = "PeekLatest"
      /\ me[x].op = "PeekLatest" => beyond = me[x].far
      /\ beyond <= me[x].far \/ head > me[x].far
      /\ beyond <= me[x].far => StillWhole(x)
  BY <1>1, <1>2 DEF PlainPeeker
<1>4. kind' = kind /\ head' = head /\ tail' = tail /\ written' = written
  BY <1>2 DEF Local
<1>5. ASSUME head = me[x].far, NEW step \in {"checkTail", "peeked"},
             step = "checkTail" => me[x].op = "Peek", step = "peeked" => me[x].op # "Peek",
             Moved(x, step, me[x].op, me[x].want, me[x].pos, me[x].far, me[x].n, me[x].out)
      PROVE  PlainPeeker(x)'
  <2>1. /\ me'[x].at = step /\ me'[x].pos = me[x].pos /\ me'[x].far = me[x].far /\ me'[x].op = me[x].op
        /\ me'[x].n = me[x].n /\ me'[x].out = me[x].out /\ me'[x].want = me[x].want
    BY <1>5 DEF Moved
  <2>2. beyond <= me[x].far
    BY <1>1, <1>3, <1>5
  <2>3. StillWhole(x) => StillWhole(x)'
    BY <1>4, <2>1 DEF StillWhole
  <2> QED
    BY <1>3, <1>4, <1>5, <2>1, <2>2, <2>3 DEF PlainPeeker
<1>6. ASSUME Moved(x, "peekAgain", me[x].op, me[x].want, me[x].pos, me[x].far, me[x].n, <<>>)
      PROVE  PlainPeeker(x)'
  <2>1. me'[x].at = "peekAgain" /\ me'[x].far = me[x].far /\ me'[x].op = me[x].op /\ me'[x].want = me[x].want
    BY <1>6 DEF Moved
  <2> QED
    BY <1>3, <1>4, <2>1 DEF PlainPeeker
<1>7. PlainPeeker(x)'
  BY <1>2, <1>5, <1>6
<1>8. me' \in [Threads -> Locals] /\ \A u \in Threads : u # x => me'[u] = me[u]
  BY <1>2 DEF Moved
<1> QED
  BY <1>2, <1>7, <1>8, PlainPeekerMoves

LEMMA PlainPeekCheckTail ==
  ASSUME PlainAll, NEW x \in Observers, PeekCheckTail(x)
  PROVE  PlainAll'
<1> DEFINE beyond == me[x].pos + me[x].n
<1>1. RingTypes /\ PlainPeeker(x) /\ tail \in Nat
  BY DEF PlainAll, PlainInv, RingTypes
<1>2. /\ me[x].at = "checkTail" /\ Local /\ RingTypes' /\ UNCHANGED locks
      /\ \/ tail = me[x].pos
            /\ Moved(x, "peeked", me[x].op, me[x].want, me[x].pos, me[x].far, me[x].n, me[x].out)
         \/ Moved(x, "peekAgain", me[x].op, me[x].want, me[x].pos, me[x].far, me[x].n, <<>>)
  BY <1>1, PeekCheckTailDoes
<1>3. /\ me[x].far <= head /\ me[x].want > 0 /\ me[x].op = "Peek" /\ beyond <= me[x].far
      /\ kind # "SeqLockRing" => me[x].op = "PeekLatest"
      /\ StillWhole(x)
  BY <1>1, <1>2 DEF PlainPeeker
<1>4. kind' = kind /\ head' = head /\ tail' = tail /\ written' = written
  BY <1>2 DEF Local
<1>5. ASSUME tail = me[x].pos,
             Moved(x, "peeked", me[x].op, me[x].want, me[x].pos, me[x].far, me[x].n, me[x].out)
      PROVE  PlainPeeker(x)'
  <2>1. /\ me'[x].at = "peeked" /\ me'[x].pos = me[x].pos /\ me'[x].far = me[x].far /\ me'[x].op = me[x].op
        /\ me'[x].n = me[x].n /\ me'[x].out = me[x].out /\ me'[x].want = me[x].want
    BY <1>5 DEF Moved
  <2>2. me[x].pos >= 0 /\ Whole(x)
    <3>1. me[x].pos \in Nat /\ Len(me[x].out) \in Nat
      BY <1>1, <1>5, Roles, InPlace
    <3>2. \A i \in 1..Len(me[x].out) : tail < me[x].pos + i
      BY <1>5, <3>1
    <3> QED
      BY <1>3, <3>1, <3>2 DEF Whole, StillWhole
  <2>3. Whole(x)' /\ StillWhole(x)'
    BY <1>4, <2>1, <2>2 DEF Whole, StillWhole
  <2> QED
    BY <1>3, <1>4, <2>1, <2>2, <2>3 DEF PlainPeeker
<1>6. ASSUME Moved(x, "peekAgain", me[x].op, me[x].want, me[x].pos, me[x].far, me[x].n, <<>>)
      PROVE  PlainPeeker(x)'
  <2>1. me'[x].at = "peekAgain" /\ me'[x].far = me[x].far /\ me'[x].op = me[x].op /\ me'[x].want = me[x].want
    BY <1>6 DEF Moved
  <2> QED
    BY <1>3, <1>4, <2>1 DEF PlainPeeker
<1>7. PlainPeeker(x)'
  BY <1>2, <1>5, <1>6
<1>8. me' \in [Threads -> Locals] /\ \A u \in Threads : u # x => me'[u] = me[u]
  BY <1>2 DEF Moved
<1> QED
  BY <1>2, <1>7, <1>8, PlainPeekerMoves

LEMMA PlainPeekReturn ==
  ASSUME PlainAll, NEW x \in Observers, PeekReturn(x)
  PROVE  PlainAll'
<1>1. RingTypes
  BY DEF PlainAll
<1> QED
  BY <1>1, PeekReturnDoes, PlainPeekIdle

\* Clear: nobody is inside a call, for the writers would hold their lock.
LEMMA PlainClear ==
  ASSUME PlainAll, Clear
  PROVE  PlainAll'
<1>1. RingTypes /\ PlainInv /\ kind = "SeqLockRing" /\ writeLock = NoThread
  BY DEF PlainAll, Clear
<1>2. /\ head' = 0 /\ tail' = 0 /\ written' = <<>> /\ got' = <<>>
      /\ UNCHANGED <<kind, slot, seq, writeLock, readLock, me, offered>>
  BY DEF Clear, slots, locks
<1>3. \A t \in Threads : me[t].at = "idle"
  <2>1. \A p \in Producers : me[p].at = "idle"
    BY <1>1, Roles DEF PlainInv, PlainWriter
  <2> QED
    BY <2>1 DEF Clear, At, Threads
<1>4. RingTypes'
  <2>1. WriteSteps' = WriteSteps /\ ReadSteps' = ReadSteps /\ PeekSteps' = PeekSteps
        /\ Writers' = Writers /\ Readers' = Readers /\ \A t : OutFits(t)' = OutFits(t)
    BY <1>2 DEF WriteSteps, ReadSteps, PeekSteps, Writers, Readers, OutFits, Fits
  <2>2. head' \in Nat /\ tail' \in Nat /\ written' \in Seq(Producers \X Nat) /\ got' \in Seq(Samples \cup {Twice})
    BY <1>2
  <2> QED
    BY <1>1, <1>2, <2>1, <2>2 DEF RingTypes
<1>5. Numbered'
  BY <1>2 DEF Numbered, InProducersOrder
<1>6. PlainInv'
  <2>1. /\ \A p \in Producers : PlainWriter(p)'
        /\ \A c \in Consumers : PlainReader(c)'
        /\ \A x \in Observers : PlainPeeker(x)'
    BY <1>2, <1>3, Roles DEF PlainWriter, PlainReader, PlainPeeker, Storing
  <2>2. /\ head' = Len(written') /\ tail' = Len(got') /\ tail' <= head' /\ head' <= tail' + Capacity
        /\ \A k \in DOMAIN got' : got'[k] = written'[k]
        /\ \A k \in Nat : tail' <= k /\ k < head' => slot'[Slot(k)'] = written'[k + 1]
    BY <1>2, RingsAssumption
  <2> QED
    BY <2>1, <2>2 DEF PlainInv
<1>7. Plain'
  BY <1>2 DEF PlainAll, Plain, Slotted
<1> QED
  BY <1>4, <1>5, <1>6, <1>7 DEF PlainAll

LEMMA PlainSteps ==
  ASSUME PlainAll, kind # "HPLinkedQueue", RingNext
  PROVE  PlainAll'
<1>1. RingTypes /\ ~Slotted
  BY DEF PlainAll, Plain
<1>2. ASSUME NEW p \in Producers, WriteCall(p) \/ Write(p) PROVE PlainAll'
  <2>1. CASE WriteCall(p)
    BY <2>1, PlainWriteCall
  <2>2. CASE WriteAgain(p)
    BY <1>1, <2>2, WriteAgainDoes DEF Slotted
  <2>3. CASE LoadSeq(p)
    BY <1>1, <2>3, LoadSeqDoes
  <2>4. CASE Claim(p)
    BY <1>1, <2>4, ClaimDoes DEF Slotted
  <2>5. CASE LoadTail(p)
    BY <2>5, PlainLoadTail
  <2>6. CASE Fill(p)
    BY <2>6, PlainFill
  <2>7. CASE Filled(p)
    BY <2>7, PlainFilled
  <2>8. CASE PublishSeq(p)
    BY <1>1, <2>8 DEF PublishSeq
  <2>9. CASE Advance(p)
    BY <1>1, <2>9, WriterFacts DEF Advance, At, WriteSteps, Slotted
  <2>10. CASE PublishHead(p)
    BY <2>10, PlainPublish
  <2> QED
    BY <1>2, <2>1, <2>2, <2>3, <2>4, <2>5, <2>6, <2>7, <2>8, <2>9, <2>10 DEF Write
<1>3. ASSUME NEW c \in Consumers, ReadCall(c) \/ Read(c) PROVE PlainAll'
  <2>1. CASE ReadCall(c)
    BY <2>1, PlainReadCall
  <2>2. CASE ReadAgain(c)
    BY <2>2, PlainReadAgain
  <2>3. CASE LoadFullSeq(c)
    BY <1>1, <2>3, LoadFullSeqDoes
  <2>4. CASE ClaimRead(c)
    BY <1>1, <2>4, ClaimReadDoes DEF Slotted
  <2>5. CASE LoadOwnTail(c)
    BY <2>5, PlainLoadOwnTail
  <2>6. CASE Copy(c)
    BY <2>6, PlainCopy
  <2>7. CASE ReleaseSlot(c)
    BY <1>1, <2>7 DEF ReleaseSlot
  <2>8. CASE AdvanceRead(c)
    BY <1>1, <2>8, ReaderFacts DEF AdvanceRead, At, ReadSteps, Slotted
  <2>9. CASE CheckHead(c)
    BY <2>9, PlainCheckHead
  <2>10. CASE ReleaseTail(c)
    BY <2>10, PlainRelease
  <2> QED
    BY <1>3, <2>1, <2>2, <2>3, <2>4, <2>5, <2>6, <2>7, <2>8, <2>9, <2>10 DEF Read
<1>4. ASSUME NEW x \in Observers, PeekCall(x) \/ Peek(x) PROVE PlainAll'
  BY <1>4, PlainPeekCall, PlainPeekAgain, PlainPeekTail, PlainPeekCopy, PlainPeekCheckHead,
     PlainPeekCheckTail, PlainPeekReturn DEF Peek
<1> QED
  BY <1>2, <1>3, <1>4, PlainClear DEF RingNext

-------------------------------------------------------------------------------
\* The rings whose slots carry numbers.  First, what the number of a slot says
\* to whoever works at a position of that slot.
SlotsAll == RingTypes /\ Numbered /\ Slotted /\ SlotsInv

LEMMA SlotIsFree ==
  ASSUME SlotsAll, NEW k \in Nat, seq[Slot(k)] = k
  PROVE  FreeFor(Slot(k), k)
<1>1. Slot(k) \in SlotIndex /\ EverySlot
  BY SlotType DEF SlotsAll, SlotsInv
<1>2. CASE FreeFor(Slot(k), seq[Slot(k)])
  BY <1>2
<1>3. CASE k > 0 /\ Holds(Slot(k), k - 1)
  <2>1. Slot(k - 1) = Slot(k) /\ k - 1 \in Int /\ (k - 1) + 1 = k
    BY <1>3 DEF Holds
  <2> QED
    BY <2>1, SlotNext
<1> QED
  BY <1>1, <1>2, <1>3 DEF EverySlot

LEMMA SlotIsFull ==
  ASSUME SlotsAll, NEW k \in Nat, seq[Slot(k)] = k + 1
  PROVE  Holds(Slot(k), k)
<1>1. Slot(k) \in SlotIndex /\ EverySlot
  BY SlotType DEF SlotsAll, SlotsInv
<1>2. CASE FreeFor(Slot(k), k + 1)
  BY <1>2, SlotNext DEF FreeFor
<1>3. CASE Holds(Slot(k), (k + 1) - 1)
  <2>1. (k + 1) - 1 = k
    OBVIOUS
  <2> QED
    BY <1>3, <2>1
<1> QED
  BY <1>1, <1>2, <1>3 DEF EverySlot

\* SlotRing has one writer and one reader.
LEMMA SlotRingAlone ==
  ASSUME RingTypes, kind = "SlotRing"
  PROVE  /\ \A p, q \in Producers : p # q /\ p \in Writers => me[q].at = "idle"
         /\ \A c, d \in Consumers : c # d /\ c \in Readers => me[d].at = "idle"
BY DEF RingTypes, Writers, Readers

(* What is written stays where it is.                                        *)
Longer == Len(written) <= Len(written') /\ \A i \in 1..Len(written) : written'[i] = written[i]

LEMMA LongerWhenSame == ASSUME RingTypes, written' = written PROVE Longer
BY DEF Longer, RingTypes

LEMMA Grown ==
  ASSUME RingTypes, NEW value \in Producers \X Nat, written' = Append(written, value)
  PROVE  /\ Longer /\ Len(written') = Len(written) + 1 /\ written'[Len(written) + 1] = value
         /\ Len(written) \in Nat
<1> DEFINE S == Producers \X Nat
<1>1. written \in Seq(S) /\ value \in S
  BY DEF RingTypes
<1> HIDE DEF S
<1> QED
  BY <1>1 DEF Longer

LEMMA SlotWriterStays ==
  ASSUME RingTypes, NEW p \in Producers, SlotWriter(p), me'[p] = me[p], kind' = kind,
         head' \in Nat, head <= head', offered'[p] = offered[p], Longer,
         kind = "SlotRing" /\ me[p].at # "idle" => head' = head /\ written' = written,
         LET k == me[p].pos IN
           /\ (me[p].at \in Storing \/ (me[p].at = "claim" /\ head = k)) /\ seq[Slot(k)] = k
                => seq'[Slot(k)] = k
           /\ me[p].at = "publish" => slot'[Slot(k)] = slot[Slot(k)]
  PROVE  SlotWriter(p)'
<1> DEFINE k == me[p].pos
<1>1. head \in Nat /\ Len(written) \in Nat
  BY DEF RingTypes
<1>2. \A j : Slot(j)' = Slot(j)
  BY DEF Slot
<1>3. Value(p, 1)' = Value(p, 1) /\ Storing' = Storing
  BY DEF Value, Storing
<1>4. me[p].at # "idle" => k \in Nat /\ k <= head /\ (kind = "SlotRing" => k = head)
  BY DEF SlotWriter
<1>5. me[p].at # "idle" => k \in Nat /\ k <= head' /\ (kind = "SlotRing" => k = head')
  BY <1>1, <1>4
<1>6. me[p].at = "claim" /\ head' = k => seq'[Slot(k)] = k
  <2> SUFFICES ASSUME me[p].at = "claim", head' = k PROVE seq'[Slot(k)] = k
    OBVIOUS
  <2>1. head = k
    BY <1>1, <1>4
  <2>2. seq[Slot(k)] = k
    BY <2>1 DEF SlotWriter
  <2> QED
    BY <2>1, <2>2
<1>7. me[p].at \in Storing =>
        /\ seq'[Slot(k)] = k
        /\ kind = "HPRing" => k < Len(written') /\ written'[k + 1] = Value(p, 1)
        /\ kind = "SlotRing" => k = Len(written')
  <2> SUFFICES ASSUME me[p].at \in Storing
               PROVE  /\ seq'[Slot(k)] = k
                      /\ kind = "HPRing" => k < Len(written') /\ written'[k + 1] = Value(p, 1)
                      /\ kind = "SlotRing" => k = Len(written')
    OBVIOUS
  <2>1. /\ seq[Slot(k)] = k /\ k \in Nat
        /\ kind = "HPRing" => k < Len(written) /\ written[k + 1] = Value(p, 1)
        /\ kind = "SlotRing" => k = Len(written)
    BY <1>4 DEF SlotWriter, Storing
  <2>2. seq'[Slot(k)] = k
    BY <2>1
  <2>3. ASSUME kind = "HPRing" PROVE k < Len(written') /\ written'[k + 1] = Value(p, 1)
    <3>1. k + 1 \in 1..Len(written) /\ Len(written) <= Len(written') /\ k < Len(written)
      BY <1>1, <2>1, <2>3 DEF Longer
    <3>2. written'[k + 1] = written[k + 1]
      BY <3>1 DEF Longer
    <3>3. k < Len(written')
      <4>1. k + 1 <= Len(written')
        BY <3>1 DEF Longer
      <4> HIDE DEF k
      <4>2. k \in Nat
        BY <2>1 DEF k
      <4> QED
        BY <1>1, <3>1, <4>1, <4>2
    <3> QED
      BY <2>1, <2>3, <3>2, <3>3
  <2>4. kind = "SlotRing" => k = Len(written')
    BY <2>1 DEF Storing
  <2> QED
    BY <2>2, <2>3, <2>4
<1>8. me[p].at = "publish" => slot'[Slot(k)] = Value(p, 1)
  BY DEF SlotWriter
<1>9. me[p].at = "advance" => Len(written') = k + 1
  <2>1. me[p].at = "advance" => kind = "SlotRing"
    BY DEF RingTypes, WriteSteps
  <2> QED
    BY <2>1 DEF SlotWriter
<1>10. me[p].n = 1
  BY DEF SlotWriter
<1> HIDE DEF k
<1>11. k = me'[p].pos
  BY DEF k
<1> QED
  BY <1>2, <1>3, <1>5, <1>6, <1>7, <1>8, <1>9, <1>10, <1>11 DEF SlotWriter

LEMMA SlotReaderStays ==
  ASSUME RingTypes, NEW c \in Consumers, SlotReader(c), me'[c] = me[c], kind' = kind,
         tail' \in Nat, tail <= tail', Longer, Len(written') \in Nat,
         kind = "SlotRing" /\ me[c].at # "idle" => tail' = tail,
         LET k == me[c].pos IN
           (me[c].at \in Taking \/ (me[c].at = "claimRead" /\ tail' = k)) /\ seq[Slot(k)] = k + 1
             => seq'[Slot(k)] = k + 1
  PROVE  SlotReader(c)'
<1> DEFINE k == me[c].pos
<1>1. tail \in Nat /\ Len(written) \in Nat
  BY DEF RingTypes
<1>2. (\A j : Slot(j)' = Slot(j)) /\ Taking' = Taking
  BY DEF Slot, Taking
<1>3. me[c].at # "idle" => k \in Nat /\ k <= tail /\ (kind = "SlotRing" => k = tail)
  BY DEF SlotReader
<1>4. me[c].at # "idle" => k \in Nat /\ k <= tail' /\ (kind = "SlotRing" => k = tail')
  BY <1>1, <1>3
<1>5. me[c].at = "claimRead" /\ tail' = k => seq'[Slot(k)] = k + 1
  <2> SUFFICES ASSUME me[c].at = "claimRead", tail' = k PROVE seq'[Slot(k)] = k + 1
    OBVIOUS
  <2>1. tail = k
    BY <1>1, <1>3
  <2>2. seq[Slot(k)] = k + 1
    BY <2>1 DEF SlotReader
  <2> QED
    BY <2>1, <2>2
<1>6. me[c].at \in Taking => seq'[Slot(k)] = k + 1 /\ (kind = "HPRing" => k < tail')
  <2>1. me[c].at \in Taking => me[c].at # "idle" /\ seq[Slot(k)] = k + 1 /\ (kind = "HPRing" => k < tail)
    BY DEF SlotReader, Taking
  <2> QED
    BY <1>1, <1>3, <2>1
<1>7. me[c].at = "release" => k < Len(written') /\ me[c].out = <<written'[k + 1]>>
  <2> SUFFICES ASSUME me[c].at = "release" PROVE k < Len(written') /\ me[c].out = <<written'[k + 1]>>
    OBVIOUS
  <2>1. k \in Nat /\ k < Len(written) /\ me[c].out = <<written[k + 1]>>
    BY <1>3 DEF SlotReader
  <2>2. k + 1 \in 1..Len(written)
    BY <1>1, <2>1
  <2>3. written'[k + 1] = written[k + 1]
    BY <2>2 DEF Longer
  <2>4. k < Len(written')
    <3> HIDE DEF k
    <3> QED
      BY <1>1, <2>1 DEF Longer
  <2> QED
    BY <2>1, <2>3, <2>4
<1>8. me[c].n = 1
  BY DEF SlotReader
<1> HIDE DEF k
<1>9. k = me'[c].pos
  BY DEF k
<1> QED
  BY <1>2, <1>4, <1>5, <1>6, <1>7, <1>8, <1>9 DEF SlotReader

\* What the others know, when a writer moves: it changes nothing but the slot
\* it stores to, which nobody else works at.
LEMMA SlotsProducer ==
  ASSUME SlotsAll, NEW p \in Producers, p \in Writers, kind' = kind, tail' = tail,
         head' \in Nat, head <= head', Longer, Len(written') \in Nat,
         \A u \in Threads : u # p => me'[u] = me[u],
         \A q \in Producers : q # p => offered'[q] = offered[q],
         \A s \in SlotIndex : s # Slot(me[p].pos) \/ me[p].at \notin Storing
           => seq'[s] = seq[s] /\ slot'[s] = slot[s],
         EverySlot', ReadOnce', HeadWritten', SlotWriter(p)',
         me'[p].at \in Storing => \A q \in Producers : q # p /\ me[q].at \in Storing => me[q].pos # me'[p].pos
  PROVE  SlotsInv'
<1>1. /\ RingTypes /\ SlotsInv /\ SlotWriter(p) /\ head \in Nat /\ tail \in Nat /\ Len(written) \in Nat
      /\ HeadWritten
  BY DEF SlotsAll, SlotsInv, RingTypes
<1>2. me[p].at \in Storing => me[p].pos \in Nat /\ seq[Slot(me[p].pos)] = me[p].pos
  BY <1>1 DEF SlotWriter, Storing
<1>3. ASSUME NEW q \in Producers, q # p PROVE SlotWriter(q)'
  <2> DEFINE k == me[q].pos
  <2>1. SlotWriter(q) /\ me'[q] = me[q]
    BY <1>1, <1>3, Roles DEF SlotsInv
  <2>2. kind = "SlotRing" => me[q].at = "idle"
    BY <1>1, <1>3, SlotRingAlone
  <2>3. me[q].at # "idle" => k \in Nat /\ k <= head /\ Slot(k) \in SlotIndex
    BY <2>1, SlotType DEF SlotWriter
  <2>4. ASSUME me[q].at \in Storing \/ (me[q].at = "claim" /\ head = k), seq[Slot(k)] = k
        PROVE  seq'[Slot(k)] = k /\ slot'[Slot(k)] = slot[Slot(k)]
    <3>1. k \in Nat /\ Slot(k) \in SlotIndex /\ kind # "SlotRing"
      BY <2>2, <2>3, <2>4 DEF Storing
    <3>2. ASSUME me[p].at \in Storing, Slot(k) = Slot(me[p].pos) PROVE FALSE
      <4>1. k = me[p].pos
        BY <1>2, <2>4, <3>2
      <4>2. CASE me[q].at \in Storing
        BY <1>1, <1>3, <3>2, <4>1, <4>2 DEF SlotsInv, WritersApart
      <4>3. CASE me[q].at = "claim" /\ head = k
        <5>1. kind = "HPRing"
          BY <3>1 DEF SlotsAll, Slotted
        <5>2. Len(written) = head /\ me[p].pos < Len(written)
          BY <1>1, <3>2, <5>1 DEF HeadWritten, SlotWriter
        <5> QED
          BY <1>1, <3>1, <4>1, <4>3, <5>2
      <4> QED
        BY <2>4, <4>2, <4>3
    <3> QED
      BY <2>4, <3>1, <3>2
  <2>5. me[q].at = "publish" => slot'[Slot(k)] = slot[Slot(k)]
    <3>1. me[q].at = "publish" => me[q].at \in Storing /\ seq[Slot(k)] = k
      BY <2>1 DEF SlotWriter, Storing
    <3> QED
      BY <2>4, <3>1
  <2> QED
    BY <1>1, <1>3, <2>1, <2>2, <2>4, <2>5, SlotWriterStays
<1>4. ASSUME NEW c \in Consumers PROVE SlotReader(c)'
  <2> DEFINE k == me[c].pos
  <2>1. SlotReader(c) /\ me'[c] = me[c]
    BY <1>1, Roles DEF SlotsInv
  <2>2. ASSUME me[c].at \in Taking \/ (me[c].at = "claimRead" /\ tail' = k), seq[Slot(k)] = k + 1
        PROVE  seq'[Slot(k)] = k + 1
    <3>1. k \in Nat /\ Slot(k) \in SlotIndex
      BY <2>1, <2>2, SlotType DEF SlotReader, Taking
    <3>2. ASSUME me[p].at \in Storing, Slot(k) = Slot(me[p].pos) PROVE FALSE
      <4>1. me[p].pos = k + 1
        BY <1>2, <2>2, <3>2
      <4>2. Slot(k) # Slot(k + 1)
        <5>1. k \in Int
          BY <3>1
        <5> HIDE DEF k
        <5> QED
          BY <5>1, SlotNext
      <4> QED
        BY <3>2, <4>1, <4>2
    <3> QED
      BY <2>2, <3>1, <3>2
  <2> QED
    BY <1>1, <2>1, <2>2, SlotReaderStays
<1>5. WritersApart'
  <2> SUFFICES ASSUME NEW a \in Producers, NEW b \in Producers, a # b,
                      me'[a].at \in Storing, me'[b].at \in Storing
               PROVE  me'[a].pos # me'[b].pos
    BY DEF WritersApart, Storing
  <2>1. CASE a = p
    BY <2>1, Roles
  <2>2. CASE b = p
    BY <2>2, Roles
  <2>3. CASE a # p /\ b # p
    <3>1. me'[a] = me[a] /\ me'[b] = me[b]
      BY <2>3, Roles
    <3> QED
      BY <1>1, <3>1 DEF SlotsInv, WritersApart
  <2> QED
    BY <2>1, <2>2, <2>3
<1>6. ReadersApart'
  <2>1. \A c \in Consumers : me'[c] = me[c]
    BY Roles
  <2> QED
    BY <1>1, <2>1 DEF SlotsInv, ReadersApart, Taking
<1> QED
  BY <1>3, <1>4, <1>5, <1>6 DEF SlotsInv

\* And when a reader moves.
LEMMA SlotsConsumer ==
  ASSUME SlotsAll, NEW c \in Consumers, c \in Readers, UNCHANGED <<kind, head, slot, offered, written>>,
         tail' \in Nat, tail <= tail',
         \A u \in Threads : u # c => me'[u] = me[u],
         \A s \in SlotIndex : s # Slot(me[c].pos) \/ me[c].at \notin Taking => seq'[s] = seq[s],
         EverySlot', ReadOnce', SlotReader(c)',
         me'[c].at \in Taking => \A d \in Consumers : d # c /\ me[d].at \in Taking => me[d].pos # me'[c].pos
  PROVE  SlotsInv'
<1>1. /\ RingTypes /\ SlotsInv /\ SlotReader(c) /\ head \in Nat /\ tail \in Nat /\ Len(written) \in Nat
  BY DEF SlotsAll, SlotsInv, RingTypes
<1>2. me[c].at \in Taking => me[c].pos \in Nat /\ seq[Slot(me[c].pos)] = me[c].pos + 1
  BY <1>1 DEF SlotReader, Taking
<1>3. Longer
  BY <1>1, LongerWhenSame
<1>4. ASSUME NEW q \in Producers PROVE SlotWriter(q)'
  <2> DEFINE k == me[q].pos
  <2>1. SlotWriter(q) /\ me'[q] = me[q]
    BY <1>1, Roles DEF SlotsInv
  <2>2. ASSUME me[q].at \in Storing \/ (me[q].at = "claim" /\ head = k), seq[Slot(k)] = k
        PROVE  seq'[Slot(k)] = k
    <3>1. k \in Nat /\ Slot(k) \in SlotIndex
      BY <2>1, <2>2, SlotType DEF SlotWriter, Storing
    <3>2. ASSUME me[c].at \in Taking, Slot(k) = Slot(me[c].pos) PROVE FALSE
      <4>1. k = me[c].pos + 1
        BY <1>2, <2>2, <3>2
      <4> QED
        BY <1>2, <3>2, <4>1, SlotNext
    <3> QED
      BY <2>2, <3>1, <3>2
  <2> QED
    BY <1>1, <1>3, <2>1, <2>2, SlotWriterStays
<1>5. ASSUME NEW d \in Consumers, d # c PROVE SlotReader(d)'
  <2> DEFINE k == me[d].pos
  <2>1. SlotReader(d) /\ me'[d] = me[d]
    BY <1>1, <1>5, Roles DEF SlotsInv
  <2>2. kind = "SlotRing" => me[d].at = "idle"
    BY <1>1, <1>5, SlotRingAlone
  <2>3. ASSUME me[d].at \in Taking \/ (me[d].at = "claimRead" /\ tail' = k), seq[Slot(k)] = k + 1
        PROVE  seq'[Slot(k)] = k + 1
    <3>1. k \in Nat /\ Slot(k) \in SlotIndex /\ kind # "SlotRing"
      BY <2>1, <2>2, <2>3, SlotType DEF SlotReader, Taking
    <3>2. ASSUME me[c].at \in Taking, Slot(k) = Slot(me[c].pos) PROVE FALSE
      <4>1. k = me[c].pos
        BY <1>2, <2>3, <3>1, <3>2
      <4>2. CASE me[d].at \in Taking
        BY <1>1, <1>5, <3>2, <4>1, <4>2 DEF SlotsInv, ReadersApart
      <4>3. CASE me[d].at = "claimRead" /\ tail' = k
        <5>1. kind = "HPRing"
          BY <3>1 DEF SlotsAll, Slotted
        <5>2. me[c].pos < tail
          BY <1>1, <3>2, <5>1 DEF SlotReader
        <5> QED
          BY <1>1, <3>1, <4>1, <4>3, <5>2
      <4> QED
        BY <2>3, <4>2, <4>3
    <3> QED
      BY <2>3, <3>1, <3>2
  <2> QED
    BY <1>1, <1>3, <2>1, <2>2, <2>3, SlotReaderStays
<1>6. ReadersApart'
  <2> SUFFICES ASSUME NEW a \in Consumers, NEW b \in Consumers, a # b,
                      me'[a].at \in Taking, me'[b].at \in Taking
               PROVE  me'[a].pos # me'[b].pos
    BY DEF ReadersApart, Taking
  <2>1. CASE a = c
    BY <2>1, Roles
  <2>2. CASE b = c
    BY <2>2, Roles
  <2>3. CASE a # c /\ b # c
    <3>1. me'[a] = me[a] /\ me'[b] = me[b]
      BY <2>3, Roles
    <3> QED
      BY <1>1, <3>1 DEF SlotsInv, ReadersApart
  <2> QED
    BY <2>1, <2>2, <2>3
<1>7. \A q \in Producers : me'[q] = me[q]
  BY Roles
<1>8. WritersApart'
  BY <1>1, <1>7 DEF SlotsInv, WritersApart, Storing
<1>9. HeadWritten'
  BY <1>1, <1>7 DEF SlotsInv, HeadWritten
<1> QED
  BY <1>4, <1>5, <1>6, <1>8, <1>9 DEF SlotsInv

\* The numbers of the slots say the same after a step that stores to a free slot.
LEMMA SlotsKept ==
  ASSUME SlotsAll, seq' = seq, got' = got, Longer, Len(written') \in Nat,
         \A s \in SlotIndex : slot'[s] = slot[s] \/ FreeFor(s, seq[s])
  PROVE  EverySlot'
<1>1. EverySlot /\ RingTypes /\ Len(written) \in Nat /\ Len(written) <= Len(written')
  BY DEF SlotsAll, SlotsInv, RingTypes, Longer
<1>2. (\A k : Unread(k)' <=> Unread(k)) /\ (\A k : Slot(k)' = Slot(k)) /\ SlotIndex' = SlotIndex
  BY DEF Unread, ReadAt, Slot, SlotIndex
<1>3. ASSUME NEW s \in SlotIndex, FreeFor(s, seq[s]) PROVE FreeFor(s, seq[s])'
  <2>1. seq[s] \in Nat
    BY <1>1 DEF RingTypes
  <2>2. seq[s] < Len(written') + Capacity
    BY <1>1, <1>3, <2>1, RingsAssumption DEF FreeFor
  <2> QED
    BY <1>2, <1>3, <2>2 DEF FreeFor
<1>4. ASSUME NEW s \in SlotIndex, seq[s] > 0, Holds(s, seq[s] - 1), slot'[s] = slot[s]
      PROVE  Holds(s, seq[s] - 1)'
  <2> DEFINE k == seq[s] - 1
  <2>1. k \in Nat /\ k < Len(written) /\ slot[s] = written[k + 1] /\ Slot(k) = s /\ seq[s] = k + 1 /\ Unread(k)
        /\ k' = k
    BY <1>1, <1>4 DEF Holds, RingTypes
  <2> HIDE DEF k
  <2>2. k + 1 \in 1..Len(written) /\ k < Len(written')
    BY <1>1, <2>1
  <2>3. slot'[s] = written'[k + 1]
    BY <1>4, <2>1, <2>2 DEF Longer
  <2>4. Holds(s, k)'
    BY <1>2, <2>1, <2>2, <2>3 DEF Holds
  <2> QED
    BY <2>4 DEF k
<1> QED
  BY <1>1, <1>2, <1>3, <1>4 DEF EverySlot

LEMMA ReadOnceKept ==
  ASSUME SlotsAll, got' = got, Longer, Len(written') \in Nat
  PROVE  ReadOnce'
<1>1. ReadOnce /\ Len(written) \in Nat /\ Len(written) <= Len(written')
  BY DEF SlotsAll, SlotsInv, RingTypes, Longer
<1>2. got \in Seq(Samples \cup {Twice})
  BY DEF SlotsAll, RingTypes
<1> SUFFICES ASSUME NEW k \in DOMAIN got, got[k] # NoValue
             PROVE  k <= Len(written') /\ got[k] = written'[k]
  BY DEF ReadOnce, NoValue
<1>3. k \in Nat /\ k >= 1
  BY <1>2
<1>4. k <= Len(written) /\ got[k] = written[k]
  BY <1>1 DEF ReadOnce
<1> QED
  BY <1>1, <1>3, <1>4 DEF Longer

-------------------------------------------------------------------------------
\* The steps of a writer of such a ring.
LEMMA SlotFacts ==
  ASSUME SlotsAll
  PROVE  /\ RingTypes /\ Numbered /\ SlotsInv /\ EverySlot /\ ReadOnce /\ HeadWritten
         /\ kind \in {"HPRing", "SlotRing"}
         /\ head \in Nat /\ tail \in Nat /\ Len(written) \in Nat
         /\ slot \in [SlotIndex -> Samples] /\ seq \in [SlotIndex -> Nat]
         /\ \A p \in Producers : SlotWriter(p) /\ offered[p] \in Nat
         /\ \A c \in Consumers : SlotReader(c)
BY DEF SlotsAll, SlotsInv, RingTypes, Slotted

LEMMA SlotsLocalWriter ==
  ASSUME SlotsAll, NEW p \in Producers, p \in Writers, Local, RingTypes',
         \A u \in Threads : u # p => me'[u] = me[u],
         me[p].at # "advance", me'[p].at # "advance", SlotWriter(p)',
         me[p].at \in Storing => me'[p].at \in Storing /\ me'[p].pos = me[p].pos,
         me'[p].at \in Storing => \A q \in Producers : q # p /\ me[q].at \in Storing => me[q].pos # me'[p].pos
  PROVE  SlotsAll'
<1>1. /\ RingTypes /\ Numbered /\ SlotsInv /\ head \in Nat /\ Len(written) \in Nat
      /\ HeadWritten
  BY SlotFacts
<1>2. /\ kind' = kind /\ head' = head /\ tail' = tail /\ slot' = slot /\ seq' = seq
      /\ offered' = offered /\ written' = written /\ got' = got
  BY DEF Local
<1>3. Longer
  BY <1>1, <1>2, LongerWhenSame
<1>4. EverySlot'
  BY <1>1, <1>2, <1>3, SlotsKept
<1>5. ReadOnce'
  BY <1>1, <1>2, <1>3, ReadOnceKept
<1>6. HeadWritten'
  <2>1. \A q \in Producers : q # p => me'[q] = me[q]
    BY Roles
  <2>2. (\A q \in Producers : me'[q].at # "advance") => \A q \in Producers : me[q].at # "advance"
    BY <2>1
  <2> QED
    BY <1>1, <1>2, <2>2 DEF HeadWritten
<1>7. SlotsInv'
  BY <1>1, <1>2, <1>3, <1>4, <1>5, <1>6, SlotsProducer
<1>8. \A q \in Producers : kind = "HPRing" /\ me[q].at \in Storing
        => me'[q].at \in Storing /\ me'[q].pos = me[q].pos
  BY Roles
<1>9. Numbered'
  BY <1>1, <1>2, <1>8, NumberedLocal DEF RingTypes
<1>10. Slotted'
  BY <1>2 DEF SlotsAll, Slotted
<1> QED
  BY <1>7, <1>9, <1>10 DEF SlotsAll

LEMMA SlotsWriteCall ==
  ASSUME SlotsAll, NEW p \in Producers, WriteCall(p)
  PROVE  SlotsAll'
<1>1. RingTypes /\ Slotted /\ head \in Nat /\ p \in Threads
  BY SlotFacts, Roles DEF SlotsAll
<1>2. Moved(p, "loadSeq", me[p].op, me[p].want, head, me[p].far, 1, <<>>)
  BY <1>1, WriteCallDoes
<1>3. Local /\ RingTypes' /\ p \in Writers /\ me[p].at = "idle"
  BY <1>1, WriteCallDoes
<1>4. me'[p].at = "loadSeq" /\ me'[p].pos = head /\ me'[p].n = 1 /\ head' = head
  BY <1>2, <1>3 DEF Moved, Local
<1>5. SlotWriter(p)'
  BY <1>1, <1>4 DEF SlotWriter, Storing
<1> QED
  BY <1>2, <1>3, <1>4, <1>5, SlotsLocalWriter DEF Moved, Storing

LEMMA SlotsWriteAgain ==
  ASSUME SlotsAll, NEW p \in Producers, WriteAgain(p)
  PROVE  SlotsAll'
<1>1. RingTypes /\ head \in Nat /\ p \in Threads /\ SlotWriter(p)
  BY SlotFacts, Roles
<1>2. /\ Moved(p, "loadSeq", me[p].op, me[p].want, head, me[p].far, me[p].n, <<>>)
      /\ Local /\ RingTypes' /\ me[p].at = "writeAgain"
  BY <1>1, WriteAgainDoes
<1>3. p \in Writers /\ me[p].n = 1
  BY <1>1, <1>2, WriterFacts DEF SlotWriter
<1>4. me'[p].at = "loadSeq" /\ me'[p].pos = head /\ me'[p].n = 1 /\ head' = head
  BY <1>2, <1>3 DEF Moved, Local
<1>5. SlotWriter(p)'
  BY <1>1, <1>4 DEF SlotWriter, Storing
<1> QED
  BY <1>2, <1>3, <1>4, <1>5, SlotsLocalWriter DEF Moved, Storing

LEMMA SlotsRefuse ==
  ASSUME SlotsAll, NEW p \in Producers, p \in Writers, me[p].at = "loadSeq", Refuse(p)
  PROVE  SlotsAll'
<1>1. RingTypes
  BY SlotFacts
<1>2. Moved(p, "idle", "none", 0, 0, 0, 1, <<>>) /\ Local /\ RingTypes'
  BY <1>1, RefuseDoes
<1>3. me'[p].at = "idle" /\ me'[p].n = 1
  BY <1>2 DEF Moved
<1>4. SlotWriter(p)'
  BY <1>3 DEF SlotWriter, Storing
<1> QED
  BY <1>2, <1>3, <1>4, SlotsLocalWriter DEF Moved, Storing

\* A writer of SlotRing, not yet storing, is at the end of what is written.
LEMMA SlotRingHead ==
  ASSUME SlotsAll, kind = "SlotRing", NEW p \in Producers, p \in Writers, me[p].at # "advance"
  PROVE  Len(written) = head
<1>1. \A q \in Producers : me[q].at # "advance"
  BY SlotFacts, SlotRingAlone
<1> QED
  BY <1>1, SlotFacts DEF HeadWritten

LEMMA SlotsLoadSeq ==
  ASSUME SlotsAll, NEW p \in Producers, LoadSeq(p)
  PROVE  SlotsAll'
<1> DEFINE k == me[p].pos
<1>1. RingTypes /\ SlotWriter(p) /\ p \in Threads
  BY SlotFacts, Roles
<1>2. me[p].at = "loadSeq" /\ p \in Writers
  BY <1>1, LoadSeqDoes, WriterFacts
<1>3. me[p].n = 1 /\ k \in Nat /\ k <= head /\ (kind = "SlotRing" => k = head)
  BY <1>1, <1>2 DEF SlotWriter
<1>4. CASE Refuse(p)
  BY <1>2, <1>4, SlotsRefuse
<1>5. ASSUME NEW step \in {"claim", "fill", "writeAgain"}, Local, RingTypes',
             step # "writeAgain" => seq[Slot(k)] = k, step = "fill" => kind = "SlotRing",
             step # "fill" => kind = "HPRing",
             Moved(p, step, me[p].op, me[p].want, me[p].pos, me[p].far, me[p].n, <<>>)
      PROVE  SlotsAll'
  <2>1. /\ me'[p].at = step /\ me'[p].pos = k /\ me'[p].n = 1 /\ head' = head /\ seq' = seq
        /\ written' = written /\ kind' = kind
    BY <1>3, <1>5 DEF Moved, Local
  <2>2. step = "fill" => k = Len(written)
    BY <1>2, <1>3, <1>5, SlotRingHead
  <2>3. \A j : Slot(j)' = Slot(j)
    BY DEF Slot
  <2>4. SlotWriter(p)'
    <3> HIDE DEF k
    <3> QED
      BY <1>3, <1>5, <2>1, <2>2, <2>3 DEF SlotWriter, Storing
  <2>5. me'[p].at \in Storing => \A q \in Producers : q # p => me[q].at \notin Storing
    <3>1. me'[p].at \in Storing => kind = "SlotRing"
      BY <1>5, <2>1 DEF Storing
    <3>2. kind = "SlotRing" => \A q \in Producers : q # p => me[q].at = "idle"
      BY <1>1, <1>2, SlotRingAlone
    <3> QED
      BY <3>1, <3>2 DEF Storing
  <2>6. me[p].at \notin Storing /\ me[p].at # "advance" /\ me'[p].at # "advance"
    BY <1>2, <1>5, <2>1 DEF Storing
  <2> QED
    BY <1>2, <1>5, <2>4, <2>5, <2>6, SlotsLocalWriter DEF Moved
<1>6. CASE /\ \/ seq[Slot(me[p].pos)] = me[p].pos /\ kind = "HPRing"
                /\ Moved(p, "claim", me[p].op, me[p].want, me[p].pos, me[p].far, me[p].n, <<>>)
              \/ seq[Slot(me[p].pos)] = me[p].pos /\ kind = "SlotRing" /\ me[p].n > 0
                /\ Moved(p, "fill", me[p].op, me[p].want, me[p].pos, me[p].far, me[p].n, <<>>)
              \/ kind = "HPRing"
                /\ Moved(p, "writeAgain", me[p].op, me[p].want, me[p].pos, me[p].far, me[p].n, <<>>)
           /\ Local /\ RingTypes'
  BY <1>5, <1>6
<1> QED
  BY <1>1, <1>4, <1>6, LoadSeqDoes

LEMMA NumberedClaim ==
  ASSUME SlotsAll, NEW p \in Producers, kind = "HPRing", me[p].at = "claim", head = me[p].pos,
         written' = Append(written, Value(p, 1)), kind' = kind, offered' = offered,
         me'[p].at = "fill", me'[p].pos = me[p].pos,
         \A u \in Threads : u # p => me'[u] = me[u]
  PROVE  Numbered'
<1> DEFINE value == Value(p, 1)
<1>0. PICK m \in Nat : m = Len(written)
  BY SlotFacts
<1>1. /\ RingTypes /\ Numbered /\ m = head /\ offered \in [Producers -> Nat]
      /\ written \in Seq(Producers \X Nat)
  BY <1>0, SlotFacts DEF HeadWritten, RingTypes
<1>2. value \in Producers \X Nat /\ value[1] = p /\ value[2] = offered[p] + 1
  BY <1>1 DEF Value
<1> HIDE DEF value
<1>3. Longer /\ Len(written') = m + 1 /\ written'[m + 1] = value
  BY <1>0, <1>1, <1>2, Grown DEF value
<1>4. \A i \in 1..m : written'[i] = written[i]
  BY <1>0, <1>3 DEF Longer
<1>5. DOMAIN written = 1..m /\ DOMAIN written' = 1..(m + 1)
  <2> DEFINE S == Producers \X Nat
  <2>1. written \in Seq(S) /\ value \in S /\ written' = Append(written, value)
    BY <1>1, <1>2 DEF value
  <2> HIDE DEF S
  <2> QED
    BY <1>0, <2>1
<1>6. \A i \in 1..m : written[i][1] \in Producers /\ written[i][2] \in Nat
  BY <1>1, <1>5
<1>7. ASSUME NEW i \in 1..m
      PROVE  /\ written[i][2] >= 1 /\ (written[i][2] <= offered[written[i][1]] \/ Claimed(i)')
             /\ written[i][1] = p => written[i][2] <= offered[p]
  <2>1. written[i][2] >= 1 /\ (written[i][2] <= offered[written[i][1]] \/ Claimed(i))
    BY <1>1, <1>5 DEF Numbered
  <2>2. ASSUME Claimed(i) PROVE written[i][1] # p /\ Claimed(i)'
    <3>1. written[i][1] # p
      BY <2>2 DEF Claimed, Storing
    <3>2. me'[written[i][1]] = me[written[i][1]]
      BY <1>6, <3>1, Roles
    <3> QED
      BY <1>4, <2>2, <3>1, <3>2 DEF Claimed, Storing
  <2> QED
    BY <2>1, <2>2
<1>8. Claimed(m + 1)'
  BY <1>1, <1>2, <1>3 DEF Claimed, Storing
<1>9. InProducersOrder'
  <2> SUFFICES ASSUME NEW i \in 1..(m + 1), NEW j \in 1..(m + 1), i < j,
                      written'[i][1] = written'[j][1]
               PROVE  written'[i][2] < written'[j][2]
    BY <1>5 DEF InProducersOrder
  <2>1. i \in 1..m /\ written'[i] = written[i]
    BY <1>0, <1>4
  <2>2. CASE j \in 1..m
    <3>1. written'[j] = written[j]
      BY <1>4, <2>2
    <3> QED
      BY <1>1, <1>5, <2>1, <2>2, <3>1 DEF Numbered, InProducersOrder
  <2>3. CASE j = m + 1
    <3>1. written[i][1] = p
      BY <1>2, <1>3, <2>1, <2>3
    <3>2. written[i][2] <= offered[p] /\ written[i][2] \in Nat /\ offered[p] \in Nat
      BY <1>1, <1>6, <1>7, <2>1, <3>1
    <3>3. written[i][2] < offered[p] + 1
      BY <3>2
    <3> QED
      BY <1>2, <1>3, <2>1, <2>3, <3>3
  <2> QED
    BY <1>0, <2>2, <2>3
<1>10. \A i \in 1..(m + 1) :
         written'[i][2] >= 1 /\ (written'[i][2] <= offered'[written'[i][1]] \/ Claimed(i)')
  <2> SUFFICES ASSUME NEW i \in 1..(m + 1)
               PROVE  written'[i][2] >= 1 /\ (written'[i][2] <= offered'[written'[i][1]] \/ Claimed(i)')
    OBVIOUS
  <2>1. CASE i \in 1..m
    BY <1>4, <1>7, <2>1
  <2>2. CASE i = m + 1
    <3>1. offered[p] \in Nat /\ offered[p] + 1 >= 1
      BY <1>1
    <3>2. written'[i][2] >= 1
      BY <1>2, <1>3, <2>2, <3>1
    <3> QED
      BY <1>8, <2>2, <3>2
  <2> QED
    BY <1>0, <2>1, <2>2
<1> QED
  BY <1>5, <1>9, <1>10 DEF Numbered

LEMMA SlotsClaim ==
  ASSUME SlotsAll, NEW p \in Producers, Claim(p)
  PROVE  SlotsAll'
<1> DEFINE k == me[p].pos
<1>1. /\ RingTypes /\ SlotWriter(p) /\ p \in Threads /\ head \in Nat /\ Len(written) \in Nat
      /\ offered[p] \in Nat /\ HeadWritten /\ SlotsInv
  BY SlotFacts, Roles
<1>2. me[p].at = "claim" /\ kind = "HPRing" /\ RingTypes' /\ p \in Writers
  BY <1>1, ClaimDoes, WriterFacts
<1>3. me[p].n = 1 /\ k \in Nat /\ k <= head /\ (head = k => seq[Slot(k)] = k)
  BY <1>1, <1>2 DEF SlotWriter
<1>4. CASE /\ Local
           /\ Moved(p, "writeAgain", me[p].op, me[p].want, me[p].pos, me[p].far, me[p].n, <<>>)
  <2>1. me'[p].at = "writeAgain" /\ me'[p].pos = k /\ me'[p].n = 1 /\ head' = head /\ kind' = kind
    BY <1>3, <1>4 DEF Moved, Local
  <2>2. SlotWriter(p)'
    <3> HIDE DEF k
    <3> QED
      BY <1>2, <1>3, <2>1 DEF SlotWriter, Storing
  <2> QED
    BY <1>2, <1>4, <2>1, <2>2, SlotsLocalWriter DEF Moved, Storing
<1>5. CASE /\ head = me[p].pos /\ head' = head + 1 /\ written' = Append(written, Value(p, 1))
           /\ Moved(p, "fill", me[p].op, me[p].want, me[p].pos, me[p].far, me[p].n, <<>>)
           /\ UNCHANGED <<kind, tail, slot, seq, writeLock, readLock, offered, got>>
  <2>1. Value(p, 1) \in Producers \X Nat /\ Value(p, 1)' = Value(p, 1)
    BY <1>1, <1>5 DEF Value
  <2>2. Longer /\ Len(written') = Len(written) + 1 /\ written'[Len(written) + 1] = Value(p, 1)
    BY <1>1, <1>5, <2>1, Grown
  <2>3. Len(written) = head /\ seq[Slot(k)] = k /\ k = head
    BY <1>1, <1>2, <1>3, <1>5 DEF HeadWritten
  <2>4. Len(written') \in Nat /\ Len(written') = head' /\ head' \in Nat /\ head <= head'
    BY <1>1, <1>5, <2>2, <2>3
  <2>5. EverySlot'
    BY <1>5, <2>2, <2>4, SlotsKept
  <2>6. ReadOnce'
    BY <1>5, <2>2, <2>4, ReadOnceKept
  <2>7. HeadWritten'
    BY <2>4 DEF HeadWritten
  <2>8. me'[p].at = "fill" /\ me'[p].pos = k /\ me'[p].n = 1
    BY <1>3, <1>5 DEF Moved
  <2>9. \A j : Slot(j)' = Slot(j)
    BY DEF Slot
  <2>10. k < Len(written') /\ written'[k + 1] = Value(p, 1) /\ k <= head'
    BY <1>1, <1>5, <2>2, <2>3, <2>4
  <2>11. SlotWriter(p)'
    <3> HIDE DEF k
    <3> QED
      BY <1>2, <1>3, <1>5, <2>1, <2>3, <2>8, <2>9, <2>10 DEF SlotWriter, Storing
  <2>12. \A q \in Producers : q # p /\ me[q].at \in Storing => me[q].pos # me'[p].pos
    <3> SUFFICES ASSUME NEW q \in Producers, me[q].at \in Storing, me[q].pos = k PROVE FALSE
      BY <2>8
    <3>1. k < Len(written)
      BY <1>2, SlotFacts DEF SlotWriter
    <3> QED
      BY <1>1, <2>3, <3>1
  <2>13. SlotsInv'
    BY <1>2, <1>5, <2>2, <2>4, <2>5, <2>6, <2>7, <2>11, <2>12, SlotsProducer DEF Moved, Storing
  <2>14. Numbered'
    BY <1>2, <1>5, <2>8, NumberedClaim DEF Moved
  <2>15. Slotted'
    BY <1>5 DEF SlotsAll, Slotted
  <2> QED
    BY <1>2, <2>13, <2>14, <2>15 DEF SlotsAll
<1> QED
  BY <1>1, <1>4, <1>5, ClaimDoes

\* Storing into a slot that is free.
LEMMA SlotsStores ==
  ASSUME SlotsAll, NEW p \in Producers, me[p].at \in {"fill", "filling"},
         NEW value, slot' = [slot EXCEPT ![FillSlot(p)] = value],
         me'[p].at \in Storing, me'[p].pos = me[p].pos, me'[p].n = me[p].n,
         me'[p].at = "publish" => value = Value(p, 1),
         \A u \in Threads : u # p => me'[u] = me[u],
         UNCHANGED <<kind, head, tail, seq, writeLock, readLock, offered, written, got>>, RingTypes'
  PROVE  SlotsAll'
<1> DEFINE k == me[p].pos
<1>1. /\ RingTypes /\ Numbered /\ SlotsInv /\ SlotWriter(p) /\ p \in Threads /\ head \in Nat
      /\ Len(written) \in Nat /\ slot \in [SlotIndex -> Samples] /\ seq \in [SlotIndex -> Nat] /\ HeadWritten
  BY SlotFacts, Roles
<1>2. me[p].at \in Storing /\ p \in Writers
  BY <1>1, WriterFacts DEF Storing
<1>3. /\ me[p].n = 1 /\ k \in Nat /\ k <= head /\ seq[Slot(k)] = k /\ (kind = "SlotRing" => k = head)
      /\ kind = "HPRing" => k < Len(written) /\ written[k + 1] = Value(p, 1)
      /\ kind = "SlotRing" => k = Len(written)
  BY <1>1, <1>2 DEF SlotWriter, Storing
<1>4. FillSlot(p) = Slot(k) /\ Slot(k) \in SlotIndex
  <2>1. Len(me[p].out) = 0
    BY <1>1, <1>3, InPlace
  <2>2. me[p].pos + Len(me[p].out) = k
    BY <1>3, <2>1
  <2>3. k \in Int
    BY <1>3
  <2> QED
    BY <2>2, <2>3, SlotType DEF FillSlot
<1> HIDE DEF k
<1>5. FreeFor(Slot(k), seq[Slot(k)])
  BY <1>3, SlotIsFree
<1>6. \A s \in SlotIndex : slot'[s] = slot[s] \/ FreeFor(s, seq[s])
  BY <1>1, <1>4, <1>5
<1>7. Longer
  BY <1>1, LongerWhenSame
<1>8. EverySlot'
  BY <1>1, <1>6, <1>7, SlotsKept
<1>9. ReadOnce'
  BY <1>1, <1>7, ReadOnceKept
<1>10. HeadWritten'
  <2>1. \A q \in Producers : q # p => me'[q] = me[q]
    BY Roles
  <2>2. (\A q \in Producers : me'[q].at # "advance") => \A q \in Producers : me[q].at # "advance"
    BY <1>2, <2>1 DEF Storing
  <2> QED
    BY <1>1, <2>2 DEF HeadWritten
<1>11. (\A j : Slot(j)' = Slot(j)) /\ Value(p, 1)' = Value(p, 1) /\ me'[p].pos = k
  BY DEF Slot, Value, k
<1>12. SlotWriter(p)'
  <2>1. me'[p].at = "publish" => slot'[Slot(k)] = Value(p, 1)
    BY <1>1, <1>4
  <2> QED
    BY <1>3, <1>11, <2>1 DEF SlotWriter, Storing
<1>13. \A q \in Producers : q # p /\ me[q].at \in Storing => me[q].pos # me'[p].pos
  BY <1>1, <1>2 DEF SlotsInv, WritersApart
<1>14. \A s \in SlotIndex : s # Slot(me[p].pos) => slot'[s] = slot[s]
  BY <1>1, <1>4 DEF k
<1>15. SlotsInv'
  BY <1>1, <1>2, <1>7, <1>8, <1>9, <1>10, <1>12, <1>13, <1>14, SlotsProducer
<1>16. \A q \in Producers : kind = "HPRing" /\ me[q].at \in Storing
         => me'[q].at \in Storing /\ me'[q].pos = me[q].pos
  BY Roles
<1>17. Numbered'
  BY <1>1, <1>16, NumberedLocal DEF RingTypes
<1>18. Slotted'
  BY DEF SlotsAll, Slotted
<1> QED
  BY <1>15, <1>17, <1>18 DEF SlotsAll

LEMMA SlotsFill ==
  ASSUME SlotsAll, NEW p \in Producers, Fill(p)
  PROVE  SlotsAll'
<1>1. RingTypes /\ p \in Threads
  BY SlotFacts, Roles
<1>2. /\ me[p].at = "fill" /\ RingTypes'
      /\ Moved(p, "filling", me[p].op, me[p].want, me[p].pos, me[p].far, me[p].n, me[p].out)
      /\ slot' = [slot EXCEPT ![FillSlot(p)] = Torn]
      /\ UNCHANGED <<kind, head, tail, seq, writeLock, readLock, offered, written, got>>
  BY <1>1, FillDoes
<1> QED
  BY <1>2, SlotsStores DEF Moved, Storing

LEMMA SlotsFilled ==
  ASSUME SlotsAll, NEW p \in Producers, Filled(p)
  PROVE  SlotsAll'
<1> DEFINE value == Value(p, Len(me[p].out) + 1)
<1>1. RingTypes /\ p \in Threads /\ SlotWriter(p)
  BY SlotFacts, Roles
<1>2. /\ me[p].at = "filling" /\ RingTypes' /\ Len(me[p].out) < me[p].n
      /\ slot' = [slot EXCEPT ![FillSlot(p)] = value]
      /\ Moved(p, IF Len(me[p].out) + 1 < me[p].n THEN "fill" ELSE "publish",
               me[p].op, me[p].want, me[p].pos, me[p].far, me[p].n, Append(me[p].out, value))
      /\ UNCHANGED <<kind, head, tail, seq, writeLock, readLock, offered, written, got>>
  BY <1>1, FilledDoes
<1>3. value = Value(p, 1)
  <2>1. me[p].n = 1 /\ Len(me[p].out) \in Nat
    BY <1>1, InPlace DEF SlotWriter
  <2>2. Len(me[p].out) + 1 = 1
    BY <1>2, <2>1
  <2> QED
    BY <2>2
<1>4. me'[p].at \in Storing
  BY <1>2 DEF Moved, Storing
<1> HIDE DEF value
<1> QED
  BY <1>2, <1>3, <1>4, SlotsStores DEF Moved

\* Publishing: the slot is given the number that says it holds the sample.
LEMMA NumberedPublish ==
  ASSUME SlotsAll, NEW p \in Producers, me[p].at = "publish", kind' = kind,
         offered' = [offered EXCEPT ![p] = offered[p] + 1],
         \A u \in Threads : u # p => me'[u] = me[u],
         \/ kind = "HPRing" /\ written' = written
         \/ kind = "SlotRing" /\ written' = Append(written, Value(p, 1))
  PROVE  Numbered'
<1>0. PICK m \in Nat : m = Len(written)
  BY SlotFacts
<1>1. /\ RingTypes /\ Numbered /\ SlotWriter(p) /\ offered \in [Producers -> Nat]
      /\ written \in Seq(Producers \X Nat)
  BY SlotFacts DEF RingTypes
<1>2. Value(p, 1) \in Producers \X Nat /\ Value(p, 1)[1] = p /\ Value(p, 1)[2] = offered[p] + 1
      /\ offered[p] \in Nat /\ offered[p] + 1 >= 1
  BY <1>1 DEF Value
<1>3. DOMAIN written = 1..m /\ \A i \in 1..m : written[i][1] \in Producers /\ written[i][2] \in Nat
  BY <1>0, <1>1
<1>4. \A q \in Producers : offered'[q] = IF q = p THEN offered[p] + 1 ELSE offered[q]
  BY <1>1
<1>5. ASSUME NEW i \in 1..m
      PROVE  written[i][2] >= 1 /\ (written[i][2] <= offered'[written[i][1]]
               \/ (kind = "HPRing" /\ written' = written /\ Claimed(i)'))
  <2>1. written[i][2] >= 1 /\ (written[i][2] <= offered[written[i][1]] \/ Claimed(i))
    BY <1>1, <1>3 DEF Numbered
  <2>2. ASSUME written[i][2] <= offered[written[i][1]] PROVE written[i][2] <= offered'[written[i][1]]
    <3>1. offered[written[i][1]] \in Nat /\ written[i][2] \in Nat /\ written[i][1] \in Producers
      BY <1>1, <1>3
    <3>2. offered[written[i][1]] <= offered'[written[i][1]]
      BY <1>2, <1>4, <3>1
    <3>3. offered'[written[i][1]] \in Nat
      BY <1>2, <1>4, <3>1
    <3> DEFINE a == written[i][2]
               b == offered[written[i][1]]
               d == offered'[written[i][1]]
    <3> HIDE DEF a, b, d
    <3>4. a \in Nat /\ b \in Nat /\ d \in Nat /\ a <= b /\ b <= d
      BY <2>2, <3>1, <3>2, <3>3 DEF a, b, d
    <3>5. a <= d
      BY ONLY <3>4
    <3> QED
      BY <3>5 DEF a, d
  <2>3. ASSUME Claimed(i), written[i][1] = p PROVE written[i][2] <= offered'[written[i][1]]
    <3>1. written[i][2] = offered[p] + 1
      BY <2>3 DEF Claimed
    <3>2. offered'[written[i][1]] = offered[p] + 1 /\ offered[p] + 1 <= offered[p] + 1
      BY <1>2, <1>4, <2>3
    <3> QED
      BY <3>1, <3>2
  <2>4. ASSUME Claimed(i), written[i][1] # p PROVE kind = "HPRing" /\ written' = written /\ Claimed(i)'
    <3>1. me'[written[i][1]] = me[written[i][1]] /\ offered'[written[i][1]] = offered[written[i][1]]
      BY <1>3, <1>4, <2>4, Roles
    <3>2. kind = "HPRing" /\ written' = written
      BY <2>4 DEF Claimed
    <3> QED
      BY <2>4, <3>1, <3>2 DEF Claimed, Storing
  <2> QED
    BY <2>1, <2>2, <2>3, <2>4
<1>6. CASE kind = "HPRing" /\ written' = written
  <2>1. InProducersOrder'
    BY <1>1, <1>6 DEF Numbered, InProducersOrder
  <2>2. \A i \in DOMAIN written' :
          written'[i][2] >= 1 /\ (written'[i][2] <= offered'[written'[i][1]] \/ Claimed(i)')
    BY <1>3, <1>5, <1>6
  <2> QED
    BY <2>1, <2>2 DEF Numbered
<1>7. CASE kind = "SlotRing" /\ written' = Append(written, Value(p, 1))
  <2> DEFINE value == Value(p, 1)
  <2> HIDE DEF value
  <2>1. Longer /\ Len(written') = m + 1 /\ written'[m + 1] = value
    BY <1>0, <1>1, <1>2, <1>7, Grown DEF value
  <2>2. \A i \in 1..m : written'[i] = written[i]
    BY <1>0, <2>1 DEF Longer
  <2>3. DOMAIN written' = 1..(m + 1)
    <3> DEFINE S == Producers \X Nat
    <3>1. written \in Seq(S) /\ value \in S /\ written' = Append(written, value)
      BY <1>1, <1>2, <1>7 DEF value
    <3> HIDE DEF S
    <3> QED
      BY <1>0, <3>1
  <2>4. \A i \in 1..m : written[i][1] = p => written[i][2] < offered[p] + 1
    <3> SUFFICES ASSUME NEW i \in 1..m, written[i][1] = p PROVE written[i][2] < offered[p] + 1
      OBVIOUS
    <3>1. written[i][2] <= offered[p] /\ written[i][2] \in Nat
      BY <1>1, <1>3, <1>7 DEF Numbered, Claimed
    <3> QED
      BY <1>2, <3>1
  <2>5. InProducersOrder'
    <3> SUFFICES ASSUME NEW i \in 1..(m + 1), NEW j \in 1..(m + 1), i < j,
                        written'[i][1] = written'[j][1]
                 PROVE  written'[i][2] < written'[j][2]
      BY <2>3 DEF InProducersOrder
    <3>1. i \in 1..m /\ written'[i] = written[i]
      BY <1>0, <2>2
    <3>2. CASE j \in 1..m
      <4>1. written'[j] = written[j]
        BY <2>2, <3>2
      <4> QED
        BY <1>1, <1>3, <3>1, <3>2, <4>1 DEF Numbered, InProducersOrder
    <3>3. CASE j = m + 1
      <4>1. value[1] = p /\ value[2] = offered[p] + 1 /\ written'[j] = value
        BY <1>2, <2>1, <3>3 DEF value
      <4>2. written[i][2] < offered[p] + 1
        BY <2>4, <3>1, <4>1
      <4> QED
        BY <3>1, <4>1, <4>2
    <3> QED
      BY <1>0, <3>2, <3>3
  <2>6. \A i \in DOMAIN written' :
          written'[i][2] >= 1 /\ (written'[i][2] <= offered'[written'[i][1]] \/ Claimed(i)')
    <3> SUFFICES ASSUME NEW i \in 1..(m + 1)
                 PROVE  written'[i][2] >= 1 /\ written'[i][2] <= offered'[written'[i][1]]
      BY <2>3
    <3>1. CASE i \in 1..m
      BY <1>5, <1>7, <2>2, <3>1
    <3>2. CASE i = m + 1
      <4>1. value[1] = p /\ value[2] = offered[p] + 1 /\ written'[i] = value
        BY <1>2, <2>1, <3>2 DEF value
      <4>2. offered'[p] = offered[p] + 1 /\ offered[p] + 1 <= offered[p] + 1
        BY <1>2, <1>4
      <4> QED
        BY <1>2, <4>1, <4>2
    <3> QED
      BY <1>0, <3>1, <3>2
  <2> QED
    BY <2>5, <2>6 DEF Numbered
<1> QED
  BY <1>6, <1>7

\* What each slot's number says, before a step and after.
LEMMA SlotSays ==
  ASSUME SlotsAll, NEW s \in SlotIndex
  PROVE  \E j \in Nat : (seq[s] = j /\ FreeFor(s, j)) \/ (seq[s] = j + 1 /\ Holds(s, j))
<1>1. EverySlot /\ seq[s] \in Nat
  BY SlotFacts
<1>2. CASE FreeFor(s, seq[s])
  BY <1>1, <1>2
<1>3. CASE seq[s] > 0 /\ Holds(s, seq[s] - 1)
  <2>1. seq[s] - 1 \in Nat /\ seq[s] = (seq[s] - 1) + 1
    BY <1>1, <1>3
  <2> QED
    BY <1>3, <2>1
<1> QED
  BY <1>1, <1>2, <1>3 DEF EverySlot

LEMMA SlotSaysNext ==
  ASSUME \A s \in SlotIndex : \E j \in Nat :
           (seq'[s] = j /\ FreeFor(s, j)') \/ (seq'[s] = j + 1 /\ Holds(s, j)')
  PROVE  EverySlot'
<1> SUFFICES ASSUME NEW s \in SlotIndex
             PROVE  FreeFor(s, seq[s])' \/ (seq'[s] > 0 /\ Holds(s, seq[s] - 1)')
  BY DEF EverySlot, SlotIndex
<1>1. PICK j \in Nat : (seq'[s] = j /\ FreeFor(s, j)') \/ (seq'[s] = j + 1 /\ Holds(s, j)')
  OBVIOUS
<1>2. CASE seq'[s] = j /\ FreeFor(s, j)'
  BY <1>2 DEF FreeFor
<1>3. CASE seq'[s] = j + 1 /\ Holds(s, j)'
  <2>1. seq'[s] - 1 = j /\ seq'[s] > 0
    BY <1>3
  <2> QED
    BY <1>3, <2>1 DEF Holds
<1> QED
  BY <1>1, <1>2, <1>3

LEMMA SlotsPublished ==
  ASSUME SlotsAll, NEW k \in Nat, seq[Slot(k)] = k, slot[Slot(k)] = written'[k + 1],
         seq' = [seq EXCEPT ![Slot(k)] = k + 1], UNCHANGED <<slot, got>>,
         Longer, Len(written') \in Nat, k < Len(written')
  PROVE  EverySlot'
<1>1. Slot(k) \in SlotIndex /\ seq \in [SlotIndex -> Nat] /\ Len(written) \in Nat
  BY SlotFacts, SlotType
<1>2. \A s \in SlotIndex : seq'[s] = IF s = Slot(k) THEN k + 1 ELSE seq[s]
  BY <1>1
<1>3. (\A j : Unread(j)' <=> Unread(j)) /\ (\A j : Slot(j)' = Slot(j))
  BY DEF Unread, ReadAt, Slot
<1>4. Len(written) <= Len(written')
  BY DEF Longer
<1>5. ASSUME NEW s \in SlotIndex, s # Slot(k), NEW j \in Nat, seq[s] = j, FreeFor(s, j)
      PROVE  seq'[s] = j /\ FreeFor(s, j)'
  <2>1. j < Len(written') + Capacity
    BY <1>1, <1>4, <1>5, RingsAssumption DEF FreeFor
  <2> QED
    BY <1>2, <1>3, <1>5, <2>1 DEF FreeFor
<1>6. ASSUME NEW s \in SlotIndex, s # Slot(k), NEW j \in Nat, seq[s] = j + 1, Holds(s, j)
      PROVE  seq'[s] = j + 1 /\ Holds(s, j)'
  <2>1. j + 1 \in 1..Len(written) /\ j < Len(written')
    BY <1>1, <1>4, <1>6 DEF Holds
  <2>2. slot'[s] = written'[j + 1]
    BY <1>6, <2>1 DEF Holds, Longer
  <2> QED
    BY <1>2, <1>3, <1>6, <2>1, <2>2 DEF Holds
<1>7. seq'[Slot(k)] = k + 1 /\ Holds(Slot(k), k)'
  <2>1. Unread(k)
    BY SlotIsFree DEF FreeFor
  <2> QED
    BY <1>1, <1>2, <1>3, <2>1 DEF Holds
<1>8. ASSUME NEW s \in SlotIndex
      PROVE  \E j \in Nat : (seq'[s] = j /\ FreeFor(s, j)') \/ (seq'[s] = j + 1 /\ Holds(s, j)')
  <2>1. CASE s = Slot(k)
    BY <1>7, <2>1
  <2>2. CASE s # Slot(k)
    BY <1>5, <1>6, <2>2, SlotSays
  <2> QED
    BY <2>1, <2>2
<1> QED
  BY <1>8, SlotSaysNext

LEMMA SlotsPublish ==
  ASSUME SlotsAll, NEW p \in Producers, PublishSeq(p)
  PROVE  SlotsAll'
<1>1. /\ RingTypes /\ SlotsInv /\ SlotWriter(p) /\ p \in Threads /\ head \in Nat /\ HeadWritten
      /\ Len(written) \in Nat /\ slot \in [SlotIndex -> Samples] /\ seq \in [SlotIndex -> Nat]
      /\ offered \in [Producers -> Nat]
  BY SlotFacts, Roles DEF RingTypes
<1>2. me[p].at = "publish" /\ me[p].at \in Storing /\ p \in Writers
  BY <1>1, WriterFacts DEF PublishSeq, At, Storing
<1>3. PICK k \in Nat : k = me[p].pos
  BY <1>1, <1>2 DEF SlotWriter
<1>4. /\ me[p].n = 1 /\ k <= head /\ seq[Slot(k)] = k /\ (kind = "SlotRing" => k = head)
      /\ kind = "HPRing" => k < Len(written) /\ written[k + 1] = Value(p, 1)
      /\ kind = "SlotRing" => k = Len(written)
      /\ slot[Slot(k)] = Value(p, 1)
  BY <1>1, <1>2, <1>3 DEF SlotWriter, Storing
<1>5. /\ RingTypes'
      /\ seq' = [seq EXCEPT ![Slot(k)] = k + 1]
      /\ offered' = [offered EXCEPT ![p] = offered[p] + 1]
      /\ \/ kind = "HPRing" /\ Moved(p, "idle", "none", 0, 0, 0, 1, <<>>) /\ written' = written
         \/ /\ kind = "SlotRing" /\ written' = Append(written, Value(p, 1))
            /\ Moved(p, "advance", me[p].op, me[p].want, me[p].pos, me[p].far, me[p].n, me[p].out)
      /\ UNCHANGED <<kind, head, tail, slot, writeLock, readLock, got>>
  BY <1>1, <1>3, PublishSeqDoes
<1>6. \A u \in Threads : u # p => me'[u] = me[u]
  BY <1>5 DEF Moved
<1>7. Value(p, 1) \in Producers \X Nat
  BY <1>1 DEF Value
<1>8. /\ Longer /\ Len(written') \in Nat
      /\ k < Len(written') /\ written'[k + 1] = Value(p, 1)
      /\ kind = "SlotRing" => Len(written') = k + 1
  <2>1. CASE kind = "HPRing" /\ written' = written
    BY <1>1, <1>4, <2>1, LongerWhenSame
  <2>2. CASE kind = "SlotRing" /\ written' = Append(written, Value(p, 1))
    <3>1. Longer /\ Len(written') = Len(written) + 1 /\ written'[Len(written) + 1] = Value(p, 1)
      BY <1>1, <1>7, <2>2, Grown
    <3> QED
      BY <1>1, <1>4, <2>2, <3>1
  <2> QED
    BY <1>5, <2>1, <2>2
<1>9. EverySlot'
  BY <1>4, <1>5, <1>8, SlotsPublished
<1>10. ReadOnce'
  BY <1>5, <1>8, ReadOnceKept
<1>11. SlotWriter(p)' /\ HeadWritten' /\ me'[p].at \notin Storing
  <2>1. CASE kind = "HPRing" /\ Moved(p, "idle", "none", 0, 0, 0, 1, <<>>) /\ written' = written
    <3>1. me'[p].at = "idle" /\ me'[p].n = 1
      BY <2>1 DEF Moved
    <3>2. Len(written') = head'
      BY <1>1, <1>5, <2>1 DEF HeadWritten
    <3> QED
      BY <3>1, <3>2 DEF SlotWriter, HeadWritten, Storing
  <2>2. CASE /\ kind = "SlotRing"
             /\ Moved(p, "advance", me[p].op, me[p].want, me[p].pos, me[p].far, me[p].n, me[p].out)
    <3>1. me'[p].at = "advance" /\ me'[p].n = 1 /\ me'[p].pos = k /\ head' = head /\ kind' = kind
      BY <1>3, <1>4, <1>5, <2>2 DEF Moved
    <3> QED
      BY <1>4, <1>8, <2>2, <3>1 DEF SlotWriter, HeadWritten, Storing
  <2> QED
    BY <1>5, <2>1, <2>2
<1>12. \A s \in SlotIndex : s # Slot(me[p].pos) => seq'[s] = seq[s] /\ slot'[s] = slot[s]
  BY <1>1, <1>3, <1>5
<1>13. \A q \in Producers : q # p => offered'[q] = offered[q]
  BY <1>1, <1>5
<1>14. head' \in Nat /\ head <= head' /\ kind' = kind /\ tail' = tail
  BY <1>1, <1>5
<1>15. SlotsInv'
  BY <1>2, <1>6, <1>8, <1>9, <1>10, <1>11, <1>12, <1>13, <1>14, SlotsProducer
<1>16. Numbered'
  BY <1>2, <1>5, <1>6, NumberedPublish
<1>17. Slotted'
  BY <1>14 DEF SlotsAll, Slotted
<1> QED
  BY <1>5, <1>15, <1>16, <1>17 DEF SlotsAll

\* SlotRing stores head after that.
LEMMA SlotsAdvance ==
  ASSUME SlotsAll, NEW p \in Producers, Advance(p)
  PROVE  SlotsAll'
<1>1. /\ RingTypes /\ Numbered /\ SlotsInv /\ SlotWriter(p) /\ p \in Threads /\ head \in Nat
      /\ Len(written) \in Nat
  BY SlotFacts, Roles
<1>2. me[p].at = "advance" /\ p \in Writers
  BY <1>1, WriterFacts DEF Advance, At
<1>3. PICK k \in Nat : k = me[p].pos
  BY <1>1, <1>2 DEF SlotWriter
<1>4. /\ RingTypes' /\ head' = k + 1 /\ kind = "SlotRing"
      /\ Moved(p, "idle", "none", 0, 0, 0, 1, <<>>)
      /\ UNCHANGED <<kind, tail, slot, seq, writeLock, readLock, offered, written, got>>
  BY <1>1, <1>3, AdvanceDoes
<1>5. k = head /\ Len(written) = k + 1
  BY <1>1, <1>2, <1>3, <1>4 DEF SlotWriter
<1>6. me'[p].at = "idle" /\ me'[p].n = 1 /\ \A u \in Threads : u # p => me'[u] = me[u]
  BY <1>4 DEF Moved
<1>7. Longer
  BY <1>1, <1>4, LongerWhenSame
<1>8. EverySlot' /\ ReadOnce'
  BY <1>1, <1>4, <1>7, SlotsKept, ReadOnceKept
<1>9. HeadWritten'
  BY <1>4, <1>5 DEF HeadWritten
<1>10. SlotWriter(p)' /\ me'[p].at \notin Storing
  BY <1>6 DEF SlotWriter, Storing
<1>11. head' \in Nat /\ head <= head'
  BY <1>4, <1>5
<1>12. SlotsInv'
  BY <1>1, <1>2, <1>4, <1>6, <1>7, <1>8, <1>9, <1>10, <1>11, SlotsProducer
<1>13. \A q \in Producers : kind = "HPRing" /\ me[q].at \in Storing
         => me'[q].at \in Storing /\ me'[q].pos = me[q].pos
  BY <1>4
<1>14. Numbered'
  BY <1>1, <1>4, <1>13, NumberedLocal DEF RingTypes
<1>15. Slotted'
  BY <1>4 DEF SlotsAll, Slotted
<1> QED
  BY <1>4, <1>12, <1>14, <1>15 DEF SlotsAll

-------------------------------------------------------------------------------
\* The steps of a reader of such a ring.
LEMMA SlotsLocalReader ==
  ASSUME SlotsAll, NEW c \in Consumers, c \in Readers, Local, RingTypes',
         \A u \in Threads : u # c => me'[u] = me[u], SlotReader(c)',
         me'[c].at \in Taking => \A d \in Consumers : d # c /\ me[d].at \in Taking => me[d].pos # me'[c].pos
  PROVE  SlotsAll'
<1>1. /\ RingTypes /\ Numbered /\ SlotsInv /\ tail \in Nat /\ Len(written) \in Nat
  BY SlotFacts
<1>2. /\ kind' = kind /\ head' = head /\ tail' = tail /\ slot' = slot /\ seq' = seq
      /\ offered' = offered /\ written' = written /\ got' = got
  BY DEF Local
<1>3. Longer
  BY <1>1, <1>2, LongerWhenSame
<1>4. EverySlot' /\ ReadOnce'
  BY <1>1, <1>2, <1>3, SlotsKept, ReadOnceKept
<1>5. tail' \in Nat /\ tail <= tail'
  BY <1>1, <1>2
<1>6. SlotsInv'
  BY <1>1, <1>2, <1>4, <1>5, SlotsConsumer
<1>7. \A q \in Producers : me'[q] = me[q]
  BY Roles
<1>8. Numbered'
  BY <1>1, <1>2, <1>7, NumberedLocal DEF RingTypes
<1>9. Slotted'
  BY <1>2 DEF SlotsAll, Slotted
<1> QED
  BY <1>6, <1>8, <1>9 DEF SlotsAll

\* Loading tail, at a call or again.
LEMMA SlotsLoaded ==
  ASSUME SlotsAll, NEW c \in Consumers, c \in Readers, Local, RingTypes',
         NEW op, NEW size, Loaded(c, op, size)
  PROVE  SlotsAll'
<1>1. RingTypes /\ tail \in Nat /\ SlotReader(c) /\ Slotted
  BY SlotFacts DEF SlotsAll
<1>2. /\ me'[c].at = "loadFullSeq" /\ me'[c].pos = tail /\ me'[c].n = me[c].n /\ tail' = tail
      /\ \A u \in Threads : u # c => me'[u] = me[u]
  BY <1>1 DEF Loaded, Moved, Local
<1>3. me'[c].n = 1
  BY <1>1, <1>2 DEF SlotReader
<1>4. SlotReader(c)' /\ me'[c].at \notin Taking
  BY <1>1, <1>2, <1>3 DEF SlotReader, Taking
<1> QED
  BY <1>2, <1>4, SlotsLocalReader

LEMMA SlotsReadCall ==
  ASSUME SlotsAll, NEW c \in Consumers, ReadCall(c)
  PROVE  SlotsAll'
<1>1. RingTypes
  BY SlotFacts
<1>2. PICK size \in Nat \ {0} : Loaded(c, me[c].op, size)
  BY <1>1, ReadCallDoes
<1>3. Local /\ RingTypes' /\ c \in Readers /\ me[c].at = "idle"
  BY <1>1, ReadCallDoes
<1> QED
  BY <1>2, <1>3, SlotsLoaded

LEMMA SlotsReadAgain ==
  ASSUME SlotsAll, NEW c \in Consumers, ReadAgain(c)
  PROVE  SlotsAll'
<1>1. RingTypes
  BY SlotFacts
<1>2. Loaded(c, me[c].op, me[c].want) /\ Local /\ RingTypes' /\ me[c].at = "readAgain"
  BY <1>1, ReadAgainDoes
<1>3. c \in Readers
  BY <1>1, <1>2, ReaderFacts
<1> QED
  BY <1>2, <1>3, SlotsLoaded

LEMMA SlotsFindNothing ==
  ASSUME SlotsAll, NEW c \in Consumers, c \in Readers, FindNothing(c)
  PROVE  SlotsAll'
<1>1. RingTypes
  BY SlotFacts
<1>2. Moved(c, "idle", "none", 0, 0, 0, 1, <<>>) /\ Local /\ RingTypes'
  BY <1>1, FindNothingDoes
<1>3. me'[c].at = "idle" /\ me'[c].n = 1 /\ \A u \in Threads : u # c => me'[u] = me[u]
  BY <1>2 DEF Moved
<1>4. SlotReader(c)' /\ me'[c].at \notin Taking
  BY <1>3 DEF SlotReader, Taking
<1> QED
  BY <1>2, <1>3, <1>4, SlotsLocalReader

LEMMA SlotsLoadFullSeq ==
  ASSUME SlotsAll, NEW c \in Consumers, LoadFullSeq(c)
  PROVE  SlotsAll'
<1>1. RingTypes /\ SlotReader(c) /\ c \in Threads /\ tail \in Nat
  BY SlotFacts, Roles
<1>2. me[c].at = "loadFullSeq" /\ c \in Readers
  BY <1>1, LoadFullSeqDoes, ReaderFacts
<1>3. PICK k \in Nat : k = me[c].pos
  BY <1>1, <1>2 DEF SlotReader
<1>4. me[c].n = 1 /\ k <= tail /\ (kind = "SlotRing" => k = tail)
  BY <1>1, <1>2, <1>3 DEF SlotReader
<1>5. CASE FindNothing(c)
  BY <1>2, <1>5, SlotsFindNothing
<1>6. ASSUME NEW step \in {"claimRead", "copy", "readAgain"}, Local, RingTypes',
             step # "readAgain" => seq[Slot(k)] = k + 1, step = "copy" => kind = "SlotRing",
             step # "copy" => kind = "HPRing",
             Moved(c, step, me[c].op, me[c].want, me[c].pos, me[c].far, me[c].n, <<>>)
      PROVE  SlotsAll'
  <2>1. /\ me'[c].at = step /\ me'[c].pos = k /\ me'[c].n = 1 /\ tail' = tail /\ seq' = seq
        /\ kind' = kind /\ \A u \in Threads : u # c => me'[u] = me[u]
    BY <1>3, <1>4, <1>6 DEF Moved, Local
  <2>2. \A j : Slot(j)' = Slot(j)
    BY DEF Slot
  <2>3. SlotReader(c)'
    BY <1>4, <1>6, <2>1, <2>2 DEF SlotReader, Taking
  <2>4. me'[c].at \in Taking => \A d \in Consumers : d # c => me[d].at \notin Taking
    <3>1. me'[c].at \in Taking => kind = "SlotRing"
      BY <1>6, <2>1 DEF Taking
    <3>2. kind = "SlotRing" => \A d \in Consumers : d # c => me[d].at = "idle"
      BY <1>1, <1>2, SlotRingAlone
    <3> QED
      BY <3>1, <3>2 DEF Taking
  <2> QED
    BY <1>2, <1>6, <2>1, <2>3, <2>4, SlotsLocalReader
<1>7. CASE /\ \/ seq[Slot(me[c].pos)] = me[c].pos + 1 /\ kind = "HPRing"
                /\ Moved(c, "claimRead", me[c].op, me[c].want, me[c].pos, me[c].far, me[c].n, <<>>)
              \/ seq[Slot(me[c].pos)] = me[c].pos + 1 /\ kind = "SlotRing"
                /\ Moved(c, "copy", me[c].op, me[c].want, me[c].pos, me[c].far, me[c].n, <<>>)
              \/ kind = "HPRing"
                /\ Moved(c, "readAgain", me[c].op, me[c].want, me[c].pos, me[c].far, me[c].n, <<>>)
           /\ Local /\ RingTypes'
  BY <1>3, <1>6, <1>7
<1> QED
  BY <1>1, <1>5, <1>7, LoadFullSeqDoes

LEMMA SlotsClaimRead ==
  ASSUME SlotsAll, NEW c \in Consumers, ClaimRead(c)
  PROVE  SlotsAll'
<1>1. RingTypes /\ Numbered /\ SlotsInv /\ SlotReader(c) /\ c \in Threads /\ tail \in Nat /\ Len(written) \in Nat
  BY SlotFacts, Roles
<1>2. me[c].at = "claimRead" /\ kind = "HPRing" /\ RingTypes' /\ c \in Readers
  BY <1>1, ClaimReadDoes, ReaderFacts
<1>3. PICK k \in Nat : k = me[c].pos
  BY <1>1, <1>2 DEF SlotReader
<1>4. me[c].n = 1 /\ k <= tail /\ (tail = k => seq[Slot(k)] = k + 1)
  BY <1>1, <1>2, <1>3 DEF SlotReader
<1>5. \A j : Slot(j)' = Slot(j)
  BY DEF Slot
<1>6. CASE /\ Local
           /\ Moved(c, "readAgain", me[c].op, me[c].want, me[c].pos, me[c].far, me[c].n, <<>>)
  <2>1. /\ me'[c].at = "readAgain" /\ me'[c].pos = k /\ me'[c].n = 1 /\ tail' = tail /\ kind' = kind
        /\ \A u \in Threads : u # c => me'[u] = me[u]
    BY <1>3, <1>4, <1>6 DEF Moved, Local
  <2>2. SlotReader(c)' /\ me'[c].at \notin Taking
    BY <1>2, <1>4, <2>1 DEF SlotReader, Taking
  <2> QED
    BY <1>2, <1>6, <2>1, <2>2, SlotsLocalReader
<1>7. CASE /\ tail = me[c].pos /\ tail' = tail + 1
           /\ Moved(c, "copy", me[c].op, me[c].want, me[c].pos, me[c].far, me[c].n, <<>>)
           /\ UNCHANGED <<kind, head, slot, seq, writeLock, readLock, offered, written, got>>
  <2>1. /\ me'[c].at = "copy" /\ me'[c].pos = k /\ me'[c].n = 1 /\ k = tail
        /\ \A u \in Threads : u # c => me'[u] = me[u]
    BY <1>3, <1>4, <1>7 DEF Moved
  <2>2. k <= tail' /\ k < tail' /\ tail' \in Nat /\ tail <= tail' /\ seq'[Slot(k)] = k + 1
    BY <1>1, <1>4, <1>7, <2>1
  <2>3. SlotReader(c)'
    BY <1>2, <1>5, <1>7, <2>1, <2>2 DEF SlotReader, Taking
  <2>4. \A d \in Consumers : d # c /\ me[d].at \in Taking => me[d].pos # me'[c].pos
    <3> SUFFICES ASSUME NEW d \in Consumers, me[d].at \in Taking, me[d].pos = k PROVE FALSE
      BY <2>1
    <3>1. k < tail
      BY <1>2, SlotFacts DEF SlotReader
    <3> QED
      BY <1>1, <2>1, <3>1
  <2>5. Longer
    BY <1>1, <1>7, LongerWhenSame
  <2>6. EverySlot' /\ ReadOnce'
    BY <1>1, <1>7, <2>5, SlotsKept, ReadOnceKept
  <2>7. SlotsInv'
    BY <1>2, <1>7, <2>1, <2>2, <2>3, <2>4, <2>6, SlotsConsumer
  <2>8. \A q \in Producers : me'[q] = me[q]
    BY <2>1, Roles
  <2>9. Numbered'
    BY <1>1, <1>7, <2>8, NumberedLocal DEF RingTypes
  <2>10. Slotted'
    BY <1>7 DEF SlotsAll, Slotted
  <2> QED
    BY <1>2, <2>7, <2>9, <2>10 DEF SlotsAll
<1> QED
  BY <1>1, <1>6, <1>7, ClaimReadDoes

LEMMA SlotsCopy ==
  ASSUME SlotsAll, NEW c \in Consumers, Copy(c)
  PROVE  SlotsAll'
<1>1. /\ RingTypes /\ SlotsInv /\ SlotReader(c) /\ c \in Threads /\ tail \in Nat
      /\ kind \in {"HPRing", "SlotRing"} /\ c \notin Observers
  BY SlotFacts, Roles
<1>2. /\ me[c].at = "copy" /\ Len(me[c].out) < me[c].n
      /\ Moved(c, AfterCopy(c), me[c].op, me[c].want, me[c].pos, me[c].far, me[c].n, CopyMore(c))
      /\ Local /\ RingTypes'
  BY <1>1, CopyDoes
<1>3. c \in Readers /\ me[c].at \in Taking
  BY <1>1, <1>2, ReaderFacts DEF Taking
<1>4. PICK k \in Nat : k = me[c].pos
  BY <1>1, <1>2 DEF SlotReader
<1>5. /\ me[c].n = 1 /\ k <= tail /\ (kind = "SlotRing" => k = tail) /\ seq[Slot(k)] = k + 1
      /\ kind = "HPRing" => k < tail
  BY <1>1, <1>2, <1>4 DEF SlotReader, Taking
<1>6. Len(me[c].out) = 0 /\ me[c].out = <<>>
  BY <1>1, <1>2, <1>5, InPlace
<1>7. k < Len(written) /\ slot[Slot(k)] = written[k + 1]
  BY <1>5, SlotIsFull DEF Holds
<1>8. AfterCopy(c) = "release" /\ CopyMore(c) = <<written[k + 1]>>
  <2>1. AfterCopy(c) = "release"
    BY <1>1, <1>5, <1>6 DEF AfterCopy
  <2>2. me[c].pos + Len(me[c].out) = k
    BY <1>4, <1>6
  <2> QED
    BY <1>6, <1>7, <2>1, <2>2 DEF CopyMore, CopySlot
<1>9. /\ me'[c].at = "release" /\ me'[c].pos = k /\ me'[c].n = 1 /\ me'[c].out = <<written[k + 1]>>
      /\ tail' = tail /\ seq' = seq /\ kind' = kind /\ written' = written
      /\ \A u \in Threads : u # c => me'[u] = me[u]
  BY <1>2, <1>4, <1>5, <1>8 DEF Moved, Local
<1>10. \A j : Slot(j)' = Slot(j)
  BY DEF Slot
<1>11. SlotReader(c)'
  BY <1>5, <1>7, <1>9, <1>10 DEF SlotReader, Taking
<1>12. \A d \in Consumers : d # c /\ me[d].at \in Taking => me[d].pos # me'[c].pos
  BY <1>1, <1>3, <1>4, <1>9 DEF SlotsInv, ReadersApart
<1> QED
  BY <1>2, <1>3, <1>9, <1>11, <1>12, SlotsLocalReader

\* Releasing a slot: its sample is delivered, once, and it waits for the next lap.
LEMMA SlotDelivered ==
  ASSUME SlotsAll, NEW k \in Nat, NEW values \in Seq(Samples), Deliver(k, values),
         k < Len(written), values = <<written[k + 1]>>, Unread(k), written' = written
  PROVE  /\ \A j \in Nat : j # k => ReadAt(j + 1)' = ReadAt(j + 1)
         /\ ReadAt(k + 1)' = written[k + 1] /\ ReadOnce'
<1>1. RingTypes /\ ReadOnce /\ Len(written) \in Nat
  BY SlotFacts
<1>2. Len(values) = 1 /\ values[1] = written[k + 1]
  BY DEF Samples
<1>3. /\ got' \in Seq(Samples \cup {Twice})
      /\ \A j \in Nat : (j <= k \/ j > k + 1) => ReadAt(j)' = ReadAt(j)
      /\ \A j \in Nat : j > k /\ j <= k + 1 => ReadAt(j)' = IF ReadAt(j) = NoValue THEN values[j - k] ELSE Twice
  BY <1>1, <1>2, Delivered
<1>4. \A j \in Nat : j # k => ReadAt(j + 1)' = ReadAt(j + 1)
  <2> SUFFICES ASSUME NEW j \in Nat, j # k PROVE ReadAt(j + 1)' = ReadAt(j + 1)
    OBVIOUS
  <2>1. j + 1 \in Nat /\ (j + 1 <= k \/ j + 1 > k + 1)
    OBVIOUS
  <2> QED
    BY <1>3, <2>1
<1>5. ReadAt(k + 1)' = written[k + 1]
  <2>1. ReadAt(k + 1) = NoValue
    BY DEF Unread
  <2>2. k + 1 \in Nat /\ k + 1 > k /\ k + 1 <= k + 1 /\ (k + 1) - k = 1
    OBVIOUS
  <2> QED
    BY <1>2, <1>3, <2>1, <2>2
<1>6. ReadOnce'
  <2> SUFFICES ASSUME NEW i \in DOMAIN got', got'[i] # NoValue
               PROVE  i <= Len(written) /\ got'[i] = written[i]
    BY DEF ReadOnce, NoValue
  <2>1. i \in Nat /\ i >= 1 /\ ReadAt(i)' = got'[i]
    BY <1>3 DEF ReadAt
  <2>2. CASE i = k + 1
    BY <1>1, <1>5, <2>1, <2>2
  <2>3. CASE i # k + 1
    <3>1. ReadAt(i) = got'[i]
      BY <1>3, <2>1, <2>3
    <3>2. i \in DOMAIN got /\ got[i] = got'[i]
      BY <3>1 DEF ReadAt
    <3> QED
      BY <1>1, <3>2 DEF ReadOnce
  <2> QED
    BY <2>2, <2>3
<1> QED
  BY <1>4, <1>5, <1>6

LEMMA SlotsReleased ==
  ASSUME SlotsAll, NEW k \in Nat, k < Len(written), UNCHANGED <<slot, written>>,
         seq' = [seq EXCEPT ![Slot(k)] = k + Capacity], Unread(k),
         \A j \in Nat : j # k => ReadAt(j + 1)' = ReadAt(j + 1)
  PROVE  EverySlot'
<1>1. Slot(k) \in SlotIndex /\ seq \in [SlotIndex -> Nat] /\ Len(written) \in Nat /\ k \in Int
  BY SlotFacts, SlotType
<1>2. k + Capacity \in Nat /\ k + Capacity > k /\ Slot(k + Capacity) = Slot(k)
      /\ k + Capacity < Len(written) + Capacity
  BY <1>1, RingsAssumption, SlotLap
<1>3. \A s \in SlotIndex : seq'[s] = IF s = Slot(k) THEN k + Capacity ELSE seq[s]
  BY <1>1, <1>2
<1>4. \A j : Slot(j)' = Slot(j)
  BY DEF Slot
<1>5. ASSUME NEW m \in Nat, Unread(m), Slot(m) # Slot(k) PROVE Unread(m)'
  <2> SUFFICES ASSUME NEW j \in Nat, j >= m, Slot(j) = Slot(m) PROVE ReadAt(j + 1)' = NoValue
    BY <1>4 DEF Unread, NoValue
  <2>1. j # k
    BY <1>5
  <2>2. ReadAt(j + 1) = NoValue
    BY <1>5 DEF Unread
  <2> QED
    BY <2>1, <2>2
<1>6. Unread(k + Capacity)'
  <2> SUFFICES ASSUME NEW j \in Nat, j >= k + Capacity, Slot(j) = Slot(k + Capacity)
               PROVE  ReadAt(j + 1)' = NoValue
    BY <1>4 DEF Unread, NoValue
  <2>1. j # k /\ j >= k /\ Slot(j) = Slot(k)
    BY <1>2
  <2>2. ReadAt(j + 1) = NoValue
    BY <2>1 DEF Unread
  <2> QED
    BY <2>1, <2>2
<1>7. ASSUME NEW s \in SlotIndex, s # Slot(k), NEW j \in Nat, seq[s] = j, FreeFor(s, j)
      PROVE  seq'[s] = j /\ FreeFor(s, j)'
  <2>1. Slot(j) = s /\ j < Len(written) + Capacity /\ Unread(j)
    BY <1>7 DEF FreeFor
  <2>2. Unread(j)'
    BY <1>5, <1>7, <2>1
  <2> QED
    BY <1>3, <1>4, <1>7, <2>1, <2>2 DEF FreeFor
<1>8. ASSUME NEW s \in SlotIndex, s # Slot(k), NEW j \in Nat, seq[s] = j + 1, Holds(s, j)
      PROVE  seq'[s] = j + 1 /\ Holds(s, j)'
  <2>1. Slot(j) = s /\ j < Len(written) /\ Unread(j) /\ slot[s] = written[j + 1]
    BY <1>8 DEF Holds
  <2>2. Unread(j)'
    BY <1>5, <1>8, <2>1
  <2> QED
    BY <1>3, <1>4, <1>8, <2>1, <2>2 DEF Holds
<1>9. seq'[Slot(k)] = k + Capacity /\ FreeFor(Slot(k), k + Capacity)'
  BY <1>1, <1>2, <1>3, <1>4, <1>6 DEF FreeFor
<1>10. ASSUME NEW s \in SlotIndex
       PROVE  \E j \in Nat : (seq'[s] = j /\ FreeFor(s, j)') \/ (seq'[s] = j + 1 /\ Holds(s, j)')
  <2>1. CASE s = Slot(k)
    BY <1>2, <1>9, <2>1
  <2>2. CASE s # Slot(k)
    BY <1>7, <1>8, <2>2, SlotSays
  <2> QED
    BY <2>1, <2>2
<1> QED
  BY <1>10, SlotSaysNext

LEMMA SlotsRelease ==
  ASSUME SlotsAll, NEW c \in Consumers, ReleaseSlot(c)
  PROVE  SlotsAll'
<1>1. /\ RingTypes /\ Numbered /\ SlotsInv /\ SlotReader(c) /\ c \in Threads /\ tail \in Nat
      /\ Len(written) \in Nat /\ seq \in [SlotIndex -> Nat]
  BY SlotFacts, Roles
<1>2. me[c].at = "release" /\ me[c].at \in Taking /\ c \in Readers
  BY <1>1, ReaderFacts DEF ReleaseSlot, At, Taking
<1>3. PICK k \in Nat : k = me[c].pos
  BY <1>1, <1>2 DEF SlotReader
<1>4. /\ me[c].n = 1 /\ k <= tail /\ (kind = "SlotRing" => k = tail) /\ seq[Slot(k)] = k + 1
      /\ k < Len(written) /\ me[c].out = <<written[k + 1]>>
  BY <1>1, <1>2, <1>3 DEF SlotReader, Taking
<1>5. /\ RingTypes' /\ me[c].out \in Seq(Samples)
      /\ seq' = [seq EXCEPT ![Slot(k)] = k + Capacity] /\ Deliver(k, me[c].out)
      /\ \/ kind = "HPRing" /\ Moved(c, "idle", "none", 0, 0, 0, 1, <<>>)
         \/ /\ kind = "SlotRing"
            /\ Moved(c, "advanceRead", me[c].op, me[c].want, me[c].pos, me[c].far, me[c].n, me[c].out)
      /\ UNCHANGED <<kind, head, tail, slot, writeLock, readLock, offered, written>>
  BY <1>1, <1>3, ReleaseSlotDoes
<1>6. Unread(k)
  BY <1>4, SlotIsFull DEF Holds
<1>7. (\A j \in Nat : j # k => ReadAt(j + 1)' = ReadAt(j + 1)) /\ ReadOnce'
  BY <1>4, <1>5, <1>6, SlotDelivered
<1>8. EverySlot'
  BY <1>4, <1>5, <1>6, <1>7, SlotsReleased
<1>9. \A u \in Threads : u # c => me'[u] = me[u]
  BY <1>5 DEF Moved
<1>10. SlotReader(c)' /\ me'[c].at \notin Taking
  <2>1. CASE Moved(c, "idle", "none", 0, 0, 0, 1, <<>>)
    <3>1. me'[c].at = "idle" /\ me'[c].n = 1
      BY <2>1 DEF Moved
    <3> QED
      BY <3>1 DEF SlotReader, Taking
  <2>2. CASE Moved(c, "advanceRead", me[c].op, me[c].want, me[c].pos, me[c].far, me[c].n, me[c].out)
    <3>1. me'[c].at = "advanceRead" /\ me'[c].n = 1 /\ me'[c].pos = k /\ tail' = tail /\ kind' = kind
      BY <1>3, <1>4, <1>5, <2>2 DEF Moved
    <3> QED
      BY <1>4, <3>1 DEF SlotReader, Taking
  <2> QED
    BY <1>5, <2>1, <2>2
<1>11. \A s \in SlotIndex : s # Slot(me[c].pos) => seq'[s] = seq[s]
  BY <1>1, <1>3, <1>5
<1>12. tail' \in Nat /\ tail <= tail'
  BY <1>1, <1>5
<1>13. SlotsInv'
  BY <1>2, <1>5, <1>7, <1>8, <1>9, <1>10, <1>11, <1>12, SlotsConsumer
<1>14. \A q \in Producers : me'[q] = me[q]
  BY <1>9, Roles
<1>15. Numbered'
  BY <1>1, <1>5, <1>14, NumberedLocal DEF RingTypes
<1>16. Slotted'
  BY <1>5 DEF SlotsAll, Slotted
<1> QED
  BY <1>5, <1>13, <1>15, <1>16 DEF SlotsAll

\* SlotRing stores tail after that.
LEMMA SlotsAdvanceRead ==
  ASSUME SlotsAll, NEW c \in Consumers, AdvanceRead(c)
  PROVE  SlotsAll'
<1>1. /\ RingTypes /\ Numbered /\ SlotsInv /\ SlotReader(c) /\ c \in Threads /\ tail \in Nat
      /\ Len(written) \in Nat
  BY SlotFacts, Roles
<1>2. me[c].at = "advanceRead" /\ c \in Readers
  BY <1>1, ReaderFacts DEF AdvanceRead, At
<1>3. PICK k \in Nat : k = me[c].pos
  BY <1>1, <1>2 DEF SlotReader
<1>4. /\ RingTypes' /\ tail' = k + 1 /\ kind = "SlotRing"
      /\ Moved(c, "idle", "none", 0, 0, 0, 1, <<>>)
      /\ UNCHANGED <<kind, head, slot, seq, writeLock, readLock, offered, written, got>>
  BY <1>1, <1>3, AdvanceReadDoes
<1>5. k = tail
  BY <1>1, <1>2, <1>3, <1>4 DEF SlotReader
<1>6. me'[c].at = "idle" /\ me'[c].n = 1 /\ \A u \in Threads : u # c => me'[u] = me[u]
  BY <1>4 DEF Moved
<1>7. Longer
  BY <1>1, <1>4, LongerWhenSame
<1>8. EverySlot' /\ ReadOnce'
  BY <1>1, <1>4, <1>7, SlotsKept, ReadOnceKept
<1>9. SlotReader(c)' /\ me'[c].at \notin Taking
  BY <1>6 DEF SlotReader, Taking
<1>10. tail' \in Nat /\ tail <= tail'
  BY <1>4, <1>5
<1>11. SlotsInv'
  BY <1>2, <1>4, <1>6, <1>8, <1>9, <1>10, SlotsConsumer
<1>12. \A q \in Producers : me'[q] = me[q]
  BY <1>6, Roles
<1>13. Numbered'
  BY <1>1, <1>4, <1>12, NumberedLocal DEF RingTypes
<1>14. Slotted'
  BY <1>4 DEF SlotsAll, Slotted
<1> QED
  BY <1>4, <1>11, <1>13, <1>14 DEF SlotsAll

LEMMA SlotsSteps ==
  ASSUME SlotsAll, RingNext
  PROVE  SlotsAll'
<1>1. RingTypes /\ Slotted /\ kind \in {"HPRing", "SlotRing"}
  BY SlotFacts DEF SlotsAll
<1>2. ASSUME NEW p \in Producers, WriteCall(p) \/ Write(p) PROVE SlotsAll'
  <2>1. CASE LoadTail(p)
    BY <1>1, <2>1, LoadTailDoes DEF Plain
  <2>2. CASE PublishHead(p)
    BY <1>1, <2>2 DEF PublishHead
  <2> QED
    BY <1>2, <2>1, <2>2, SlotsWriteCall, SlotsWriteAgain, SlotsLoadSeq, SlotsClaim, SlotsFill,
       SlotsFilled, SlotsPublish, SlotsAdvance DEF Write
<1>3. ASSUME NEW c \in Consumers, ReadCall(c) \/ Read(c) PROVE SlotsAll'
  <2>1. me[c].at \in ReadSteps
    BY <1>1, ReaderFacts
  <2>2. me[c].at # "loadOwnTail" /\ me[c].at # "checkHead"
    BY <1>1, <2>1 DEF ReadSteps
  <2>3. ~LoadOwnTail(c) /\ ~CheckHead(c) /\ ~ReleaseTail(c)
    BY <1>1, <2>2 DEF LoadOwnTail, CheckHead, ReleaseTail, At
  <2> QED
    BY <1>3, <2>3, SlotsReadCall, SlotsReadAgain, SlotsLoadFullSeq, SlotsClaimRead, SlotsCopy,
       SlotsRelease, SlotsAdvanceRead DEF Read
<1>4. ASSUME NEW x \in Observers PROVE ~PeekCall(x) /\ ~Peek(x)
  <2>1. me[x].at = "idle"
    BY <1>1, PeekerFacts DEF PeekSteps
  <2> QED
    BY <1>1, <2>1 DEF PeekCall, Peek, PeekAgain, PeekTail, Copy, PeekCheckHead, PeekCheckTail,
       PeekReturn, At
<1>5. ~Clear
  BY <1>1 DEF Clear
<1> QED
  BY <1>2, <1>3, <1>4, <1>5 DEF RingNext

-------------------------------------------------------------------------------
\* The invariant holds initially, and every step keeps it.
LEMMA RingStarts == RingInit => RingInv
<1> SUFFICES ASSUME RingInit PROVE RingInv
  OBVIOUS
<1>1. Idle \in Locals /\ Idle.at = "idle" /\ Idle.n = 1 /\ Idle.out = <<>>
  BY DEF Idle, Locals, Steps
<1>2. \A t \in Threads : me[t] = Idle
  BY DEF RingInit
<1>3. RingTypes
  <2>1. /\ kind \in AllKinds /\ head = 0 /\ tail = 0
        /\ writeLock \in Producers \cup {NoThread} /\ readLock \in Consumers \cup {NoThread}
        /\ written = <<>> /\ got = <<>>
    BY RingsAssumption DEF RingInit
  <2>2. slot \in [SlotIndex -> Samples] /\ seq \in [SlotIndex -> Nat] /\ offered \in [Producers -> Nat]
    BY RingsAssumption DEF RingInit, SlotIndex, Samples
  <2>3. me \in [Threads -> Locals]
    BY <1>1 DEF RingInit
  <2>4. "idle" \in WriteSteps /\ "idle" \in ReadSteps /\ "idle" \in PeekSteps
    BY DEF WriteSteps, ReadSteps, PeekSteps
  <2>5. \A t \in Threads : OutFits(t)
    BY <1>1, <1>2 DEF OutFits, Fits
  <2>6. head \in Nat /\ tail \in Nat /\ written \in Seq(Producers \X Nat) /\ got \in Seq(Samples \cup {Twice})
    BY <2>1
  <2>7. \A t \in Threads : me[t].at = "idle"
    BY <1>1, <1>2
  <2> QED
    BY <2>1, <2>2, <2>3, <2>4, <2>5, <2>6, <2>7, Roles DEF RingTypes
<1>4. Numbered
  BY DEF RingInit, Numbered, InProducersOrder
<1>5. written = <<>> /\ got = <<>> /\ head = 0 /\ tail = 0 /\ \A k : ReadAt(k) = NoValue
  BY DEF RingInit, ReadAt
<1>6. SlotsInv
  <2>1. EverySlot
    <3> SUFFICES ASSUME NEW s \in SlotIndex PROVE FreeFor(s, seq[s])
      BY DEF EverySlot
    <3>1. seq[s] = s /\ Slot(s) = s /\ s < 0 + Capacity
      BY RingsAssumption, SMT DEF RingInit, SlotIndex, Slot
    <3>2. Len(written) = 0
      BY <1>5
    <3> QED
      BY <1>5, <3>1, <3>2 DEF FreeFor, Unread
  <2>2. ReadOnce /\ HeadWritten
    BY <1>5 DEF ReadOnce, HeadWritten
  <2>3. \A p \in Producers : me[p].at = "idle" /\ me[p].n = 1
    BY <1>1, <1>2, Roles
  <2>4. \A c \in Consumers : me[c].at = "idle" /\ me[c].n = 1
    BY <1>1, <1>2, Roles
  <2> QED
    BY <2>1, <2>2, <2>3, <2>4
    DEF SlotsInv, WritersApart, ReadersApart, SlotWriter, SlotReader, Storing, Taking
<1>7. PlainInv
  <2>1. /\ head = Len(written) /\ tail = Len(got) /\ tail <= head /\ head <= tail + Capacity
        /\ \A k \in DOMAIN got : got[k] = written[k]
        /\ \A k \in Nat : tail <= k /\ k < head => slot[Slot(k)] = written[k + 1]
    BY <1>5, RingsAssumption
  <2>2. /\ \A p \in Producers : me[p].at = "idle"
        /\ \A c \in Consumers : me[c].at = "idle"
        /\ \A x \in Observers : me[x].at = "idle"
    BY <1>1, <1>2, Roles
  <2> QED
    BY <2>1, <2>2 DEF PlainInv, PlainWriter, PlainReader, PlainPeeker, Storing
<1> QED
  BY <1>3, <1>4, <1>6, <1>7 DEF RingInv

LEMMA RingStep ==
  ASSUME RingInv, kind # "HPLinkedQueue", RingNext
  PROVE  RingInv'
<1>1. CASE Slotted
  <2>1. SlotsAll'
    BY <1>1, SlotsSteps DEF RingInv, SlotsAll
  <2> QED
    BY <2>1 DEF SlotsAll, RingInv, Plain
<1>2. CASE Plain
  <2>1. PlainAll'
    BY <1>2, PlainSteps DEF RingInv, PlainAll
  <2> QED
    BY <2>1 DEF PlainAll, RingInv, Plain
<1> QED
  BY <1>1, <1>2 DEF Plain

LEMMA RingRests ==
  ASSUME RingInv, UNCHANGED vars
  PROVE  RingInv'
<1>1. UNCHANGED <<kind, head, tail, slot, seq, writeLock, readLock, me, offered, written, got>>
  BY DEF vars, shared, slots, locks, history
<1>2. RingTypes'
  BY <1>1 DEF RingInv, RingTypes, SlotIndex, Locals, Samples, WriteSteps, ReadSteps, PeekSteps,
    Writers, Readers, OutFits, Fits
<1>3. Numbered'
  BY <1>1 DEF RingInv, Numbered, InProducersOrder, Claimed, Storing
<1>4. Slotted' = Slotted /\ Plain' = Plain
  BY <1>1 DEF Slotted, Plain
<1>5. SlotsInv' = SlotsInv
  BY <1>1 DEF SlotsInv, EverySlot, FreeFor, Holds, Unread, ReadAt, Slot, ReadOnce, HeadWritten,
    WritersApart, ReadersApart, SlotWriter, SlotReader, Storing, Taking, Value, SlotIndex
<1>6. PlainInv' = PlainInv
  BY <1>1 DEF PlainInv, PlainWriter, PlainReader, PlainPeeker, Whole, StillWhole, Slot, Storing, Value
<1> QED
  BY <1>2, <1>3, <1>4, <1>5, <1>6 DEF RingInv

-------------------------------------------------------------------------------
\* What the invariant says of order.
LEMMA ShowsReadOnce ==
  ASSUME RingInv
  PROVE  ReadOnce
<1>1. CASE Slotted
  BY <1>1 DEF RingInv, SlotsInv
<1>2. CASE Plain
  <2>1. got \in Seq(Samples \cup {Twice}) /\ Len(got) = tail /\ tail <= head /\ head = Len(written)
        /\ head \in Nat /\ tail \in Nat
    BY <1>2 DEF RingInv, PlainInv, RingTypes
  <2>2. \A k \in DOMAIN got : k <= Len(written)
    BY <2>1
  <2> QED
    BY <1>2, <2>2 DEF RingInv, PlainInv, ReadOnce
<1> QED
  BY <1>1, <1>2 DEF Plain

LEMMA ShowsTypes ==
  ASSUME RingInv
  PROVE  RingTypeOK
<1>1. RingTypes /\ head \in Nat /\ Len(written) \in Nat
  BY DEF RingInv, RingTypes
<1>2. Len(written) <= head + 1
  <2>1. CASE Plain
    BY <1>1, <2>1 DEF RingInv, PlainInv
  <2>2. CASE Slotted
    <3>1. SlotsAll
      BY <2>2 DEF RingInv, SlotsAll
    <3>2. CASE kind = "HPRing" \/ \A p \in Producers : me[p].at # "advance"
      BY <1>1, <3>1, <3>2, SlotFacts DEF HeadWritten
    <3>3. ASSUME NEW p \in Producers, me[p].at = "advance" PROVE Len(written) <= head + 1
      <4>1. me[p].pos \in Nat /\ me[p].pos <= head /\ Len(written) = me[p].pos + 1
        BY <3>1, <3>3, SlotFacts DEF SlotWriter
      <4> QED
        BY <1>1, <4>1
    <3> QED
      BY <3>2, <3>3
  <2> QED
    BY <2>1, <2>2 DEF Plain
<1>3. ASSUME NEW t \in Threads PROVE Len(me[t].out) <= me[t].n
  <2>1. Fits(me[t].at, me[t].n, me[t].out) /\ Len(me[t].out) \in Nat /\ me[t].n \in Nat \ {0}
    BY <1>1, InPlace DEF RingTypes, OutFits
  <2>2. me[t].out = <<>> => Len(me[t].out) = 0
    OBVIOUS
  <2> QED
    BY <2>1, <2>2 DEF Fits
<1> QED
  BY <1>1, <1>2, <1>3 DEF RingTypeOK, RingTypes

LEMMA ShowsStoresApart ==
  ASSUME RingInv
  PROVE  StoresApart
<1> SUFFICES ASSUME NEW p \in Producers, NEW q \in Producers, p # q,
                    me[p].at = "filling", me[q].at = "filling"
             PROVE  FillSlot(p) # FillSlot(q)
  BY DEF StoresApart, At
<1>1. CASE Plain
  BY <1>1, OneWriter DEF RingInv
<1>2. CASE Slotted
  <2>1. SlotsAll /\ RingTypes
    BY <1>2 DEF RingInv, SlotsAll
  <2>2. ASSUME NEW w \in Producers, me[w].at = "filling"
        PROVE  FillSlot(w) = Slot(me[w].pos) /\ seq[Slot(me[w].pos)] = me[w].pos
    <3>1. me[w].n = 1 /\ seq[Slot(me[w].pos)] = me[w].pos
      BY <2>1, <2>2, SlotFacts DEF SlotWriter, Storing
    <3>2. Len(me[w].out) = 0 /\ me[w].pos \in Int
      BY <2>1, <2>2, <3>1, InPlace, Roles
    <3>3. me[w].pos + Len(me[w].out) = me[w].pos
      BY <3>2
    <3> QED
      BY <3>1, <3>3 DEF FillSlot
  <2>3. me[p].pos # me[q].pos
    BY <2>1, SlotFacts DEF SlotsInv, WritersApart, Storing
  <2> QED
    BY <2>2, <2>3
<1> QED
  BY <1>1, <1>2 DEF Plain

LEMMA ShowsRefusals ==
  ASSUME RingInv
  PROVE  RefusesOnlyWhenFull
<1> SUFFICES ASSUME NEW p \in Producers, FullFor(p)
             PROVE  me[p].pos >= Capacity /\ ReadAt(me[p].pos - Capacity + 1) = NoValue
  BY DEF RefusesOnlyWhenFull, NoValue
<1>1. RingTypes /\ p \in Threads /\ me[p].at \in WriteSteps /\ Capacity \in Nat \ {0}
  BY WriterFacts, RingsAssumption DEF RingInv
<1>2. CASE Plain
  <2>1. me[p].at = "loadTail" /\ me[p].pos - tail = Capacity
    BY <1>1, <1>2 DEF FullFor, At, WriteSteps, Plain, Slotted
  <2>2. me[p].pos = head /\ head \in Nat /\ tail \in Nat /\ tail = Len(got) /\ got \in Seq(Samples \cup {Twice})
    BY <1>2, <2>1 DEF RingInv, RingTypes, PlainInv, PlainWriter
  <2>3. me[p].pos >= Capacity /\ me[p].pos - Capacity + 1 = tail + 1
    BY <1>1, <2>1, <2>2
  <2>4. tail + 1 \notin DOMAIN got
    BY <2>2
  <2> QED
    BY <2>3, <2>4 DEF ReadAt
<1>3. CASE Slotted
  <2>1. SlotsAll /\ me[p].at = "loadSeq" /\ p \in Writers
    BY <1>1, <1>3, WriterFacts DEF RingInv, SlotsAll, FullFor, At, WriteSteps, Slotted
  <2>2. PICK k \in Nat : k = me[p].pos
    BY <2>1, SlotFacts DEF SlotWriter
  <2>3. (kind = "SlotRing" => k = head /\ Len(written) = head) /\ Slot(k) \in SlotIndex /\ k \in Int
    <3>1. kind = "SlotRing" => k = head
      BY <2>1, <2>2, SlotFacts DEF SlotWriter
    <3>2. kind = "SlotRing" => Len(written) = head
      BY <2>1, SlotRingHead
    <3>3. k \in Int
      BY <2>2
    <3> QED
      BY <3>1, <3>2, <3>3, SlotType
  <2>4. seq[Slot(k)] < k \/ (kind = "SlotRing" /\ seq[Slot(k)] # k)
    BY <2>1, <2>2 DEF FullFor, At
  <2>5. PICK j \in Nat : \/ seq[Slot(k)] = j /\ FreeFor(Slot(k), j)
                         \/ seq[Slot(k)] = j + 1 /\ Holds(Slot(k), j)
    BY <2>1, <2>3, SlotSays
  <2>6. Slot(j) = Slot(k) /\ Unread(j) /\ j \in Int
    BY <2>5 DEF FreeFor, Holds
  <2>7. j < k
    <3>1. CASE seq[Slot(k)] < k
      BY <2>5, <3>1
    <3>2. CASE kind = "SlotRing" /\ seq[Slot(k)] # k
      <4> SUFFICES ASSUME j >= k PROVE FALSE
        OBVIOUS
      <4>1. Len(written) = k
        BY <2>3, <3>2
      <4>2. CASE seq[Slot(k)] = j + 1 /\ Holds(Slot(k), j)
        BY <4>1, <4>2 DEF Holds
      <4>3. CASE seq[Slot(k)] = j /\ FreeFor(Slot(k), j)
        <5>1. k < j /\ j < k + Capacity
          BY <3>2, <4>1, <4>3 DEF FreeFor
        <5> QED
          BY <2>3, <2>6, <5>1, SlotApart
      <4> QED
        BY <2>5, <4>2, <4>3
    <3> QED
      BY <2>4, <3>1, <3>2
  <2>8. j + Capacity <= k
    BY <2>3, <2>6, <2>7, SlotSame
  <2>9. k - Capacity \in Nat /\ k - Capacity >= j /\ (k - Capacity) + Capacity = k
    BY <1>1, <2>8
  <2>10. Slot(k - Capacity) = Slot(j)
    <3>1. k - Capacity \in Int
      BY <2>9
    <3>2. Slot((k - Capacity) + Capacity) = Slot(k - Capacity)
      BY <3>1, SlotLap
    <3> QED
      BY <2>6, <2>9, <3>2
  <2>11. ReadAt((k - Capacity) + 1) = NoValue
    BY <2>6, <2>9, <2>10 DEF Unread
  <2>12. k >= Capacity
    BY <1>1, <2>9
  <2> QED
    BY <2>2, <2>11, <2>12
<1> QED
  BY <1>2, <1>3 DEF Plain

LEMMA ShowsWhole ==
  ASSUME RingInv
  PROVE  PeekIsWhole
<1> SUFFICES ASSUME NEW x \in Observers, NEW k \in 1..me[x].n, me[x].at = "peeked",
                    me[x].op = "Peek" \/ tail < me[x].pos + k
             PROVE  me[x].pos + k \in DOMAIN written /\ me[x].out[k] = written[me[x].pos + k]
  BY DEF PeekIsWhole, At
<1>1. RingTypes /\ x \in Threads /\ me[x].at \in PeekSteps /\ head \in Nat /\ tail \in Nat
  BY PeekerFacts DEF RingInv, RingTypes
<1>2. Plain
  BY <1>1 DEF PeekSteps, Plain, Slotted
<1>3. PlainInv /\ PlainPeeker(x) /\ head = Len(written)
  BY <1>2 DEF RingInv, PlainInv
<1>4. /\ me[x].n \in Nat \ {0} /\ me[x].pos \in Int /\ me[x].far \in Nat /\ Len(me[x].out) = me[x].n
      /\ me[x].op \in {"none", "Peek", "PeekLatest"}
  BY <1>1, InPlace, LocalType DEF RingTypes
<1>5. me[x].far <= head /\ me[x].op # "none" /\ me[x].pos + me[x].n <= me[x].far
  BY <1>3, <1>4 DEF PlainPeeker
<1>6. me[x].pos + k > 0 /\ me[x].out[k] = written[me[x].pos + k]
  <2>1. CASE me[x].op = "Peek"
    <3>1. me[x].pos >= 0 /\ Whole(x)
      BY <1>3, <2>1 DEF PlainPeeker
    <3> QED
      BY <1>4, <3>1 DEF Whole
  <2>2. CASE tail < me[x].pos + k
    <3>1. StillWhole(x)
      BY <1>3, <1>5 DEF PlainPeeker
    <3> QED
      BY <1>1, <1>4, <2>2, <3>1 DEF StillWhole
  <2> QED
    BY <2>1, <2>2
<1>7. me[x].pos + k \in DOMAIN written
  <2>1. written \in Seq(Producers \X Nat) /\ k \in 1..me[x].n
    BY <1>1 DEF RingTypes
  <2>2. me[x].pos + k \in 1..head
    <3>1. /\ me[x].pos \in Int /\ me[x].n \in Nat /\ me[x].far \in Int /\ head \in Int
          /\ k \in 1..me[x].n /\ 0 < me[x].pos + k /\ me[x].n <= me[x].n
          /\ me[x].pos + me[x].n <= me[x].far /\ me[x].far <= head /\ 0 \in Nat
      BY <1>1, <1>4, <1>5, <1>6
    <3> QED
      BY ONLY <3>1, StillBelow
  <2> QED
    BY <1>3, <2>1, <2>2
<1> QED
  BY <1>6, <1>7

-------------------------------------------------------------------------------
(* When a ring says that it is empty.  In HPRing a position that a reader has*)
(* claimed had its sample, and one that a writer has claimed has it unless   *)
(* the writer is still storing it: the numbers of the slots only grow.  In   *)
(* SlotRing the positions below Taken, and no others, have been read, and the*)
(* slots of those above hold what is written there.                          *)
HPTurns ==
  /\ tail <= head
  /\ \A i \in Nat : i < tail => seq[Slot(i)] > i
  /\ \A i \in Nat : i < head => seq[Slot(i)] > i \/ BeingStored(i)
Taken == IF me[LeadReader].at = "advanceRead" THEN tail + 1 ELSE tail
SlotTurns ==
  /\ \A i \in Nat : ReadAt(i + 1) # NoValue <=> i < Taken
  /\ \A i \in Nat : Taken <= i /\ i < Len(written) => seq[Slot(i)] = i + 1
TurnsInv == (kind = "HPRing" => HPTurns) /\ (kind = "SlotRing" => SlotTurns)

\* HPRing: the numbers grow, the positions move one at a time, and a writer that
\* no longer stores has set its slot's number.
LEMMA TurnsMove ==
  ASSUME RingTypes, RingTypes', HPTurns, NEW h \in Nat, h = head, \A s \in SlotIndex : seq'[s] >= seq[s],
         tail' = tail \/ (tail' = tail + 1 /\ tail < head /\ seq[Slot(tail)] > tail),
         head' = head \/ (head' = head + 1 /\ BeingStored(h)'),
         \A i \in Nat : BeingStored(i) => seq'[Slot(i)] > i \/ BeingStored(i)'
  PROVE  HPTurns'
<1>1. head \in Nat /\ tail \in Nat /\ seq \in [SlotIndex -> Nat] /\ seq' \in [SlotIndex -> Nat]
  BY DEF RingTypes, SlotIndex
<1>2. tail' <= head'
  BY <1>1 DEF HPTurns
<1>3. ASSUME NEW i \in Nat, i < tail' PROVE seq'[Slot(i)] > i
  <2>1. seq[Slot(i)] > i
    BY <1>1, <1>3 DEF HPTurns
  <2>2. i \in Int
    OBVIOUS
  <2> QED
    BY <1>1, <2>1, <2>2, SlotType
<1>4. ASSUME NEW i \in Nat, i < head' PROVE seq'[Slot(i)] > i \/ BeingStored(i)'
  <2>1. CASE i < head
    <3>1. seq[Slot(i)] > i \/ BeingStored(i)
      BY <2>1 DEF HPTurns
    <3>2. i \in Int
      OBVIOUS
    <3>3. CASE seq[Slot(i)] > i
      BY <1>1, <3>2, <3>3, SlotType
    <3> QED
      BY <3>1, <3>3
  <2>2. CASE ~(i < head)
    <3>1. i = h
      BY <1>1, <1>4, <2>2
    <3> QED
      BY <1>1, <1>4, <3>1
  <2> QED
    BY <2>1, <2>2
<1>5. \A k : Slot(k)' = Slot(k)
  BY DEF Slot
<1> QED
  BY <1>2, <1>3, <1>4, <1>5 DEF HPTurns

\* A step that moves no position, number or sample, and no thread into or out of
\* storing or to or from the end of a read.
LEMMA TurnsLocal ==
  ASSUME RingTypes, RingTypes', TurnsInv, NEW t \in Threads,
         UNCHANGED <<kind, tail, seq, written, got>>, kind = "HPRing" => head' = head,
         \A u \in Threads : u # t => me'[u] = me[u],
         t \in Producers /\ me[t].at \in Storing => me'[t].at \in Storing /\ me'[t].pos = me[t].pos,
         t = LeadReader => me[t].at # "advanceRead" /\ me'[t].at # "advanceRead"
  PROVE  TurnsInv'
<1>1. CASE kind = "HPRing"
  <2>1. HPTurns /\ seq \in [SlotIndex -> Nat] /\ kind' = kind /\ head' = head
    BY <1>1 DEF TurnsInv, RingTypes
  <2>2. \A i \in Nat : BeingStored(i) => BeingStored(i)'
    BY Roles DEF BeingStored, Storing
  <2>3. \A s \in SlotIndex : seq'[s] >= seq[s]
    BY <2>1
  <2>4. HPTurns'
    BY <2>1, <2>2, <2>3, TurnsMove DEF RingTypes
  <2> QED
    BY <1>1, <2>1, <2>4 DEF TurnsInv
<1>2. CASE kind = "SlotRing"
  <2>1. LeadReader \in Threads
    BY RingsAssumption, Roles
  <2>2. Taken' = Taken
    BY <2>1 DEF Taken
  <2>3. (\A k : Slot(k)' = Slot(k)) /\ (\A k : ReadAt(k)' = ReadAt(k))
    BY DEF Slot, ReadAt
  <2>4. SlotTurns'
    BY <1>2, <2>2, <2>3 DEF TurnsInv, SlotTurns
  <2> QED
    BY <1>2, <2>4 DEF TurnsInv
<1> QED
  BY <1>1, <1>2 DEF TurnsInv

\* Claim: the position the writer adds is one it is storing into.
LEMMA TurnsClaim ==
  ASSUME SlotsAll, TurnsInv, NEW p \in Producers, Claim(p)
  PROVE  TurnsInv'
<1>1. RingTypes /\ p \in Threads
  BY SlotFacts, Roles
<1>2. me[p].at = "claim" /\ kind = "HPRing" /\ RingTypes'
  BY <1>1, ClaimDoes
<1>3. CASE /\ head = me[p].pos /\ head' = head + 1
           /\ Moved(p, "fill", me[p].op, me[p].want, me[p].pos, me[p].far, me[p].n, me[p].out)
           /\ UNCHANGED <<kind, tail, slot, seq, writeLock, readLock, offered, got>>
  <2> DEFINE h == me[p].pos
  <2>1. /\ me'[p].at = "fill" /\ me'[p].pos = h /\ h = head /\ h \in Nat /\ \A u \in Threads : u # p => me'[u] = me[u]
        /\ tail' = tail /\ seq' = seq /\ kind' = kind /\ seq \in [SlotIndex -> Nat]
    BY <1>1, <1>3 DEF Moved, RingTypes
  <2>2. \A i : i = h => BeingStored(i)'
    BY <2>1 DEF BeingStored
  <2>3. \A i \in Nat : BeingStored(i) => BeingStored(i)'
    BY <1>2, <2>1, Roles DEF BeingStored
  <2>4. \A s \in SlotIndex : seq'[s] >= seq[s]
    BY <2>1
  <2>5. PICK i \in Nat : i = head /\ i = h
    BY <2>1
  <2>6. BeingStored(i)'
    BY <2>2, <2>5
  <2>7. HPTurns'
    BY <1>1, <1>2, <1>3, <2>1, <2>3, <2>4, <2>5, <2>6, TurnsMove DEF TurnsInv
  <2> QED
    BY <1>2, <2>1, <2>7 DEF TurnsInv
<1>4. CASE Local /\ Moved(p, "writeAgain", me[p].op, me[p].want, me[p].pos, me[p].far, me[p].n, me[p].out)
  <2>1. p # LeadReader /\ me[p].at \notin Storing
    BY <1>2, RingsAssumption DEF Storing
  <2> QED
    BY <1>1, <1>2, <1>4, <2>1, TurnsLocal DEF Local, Moved
<1> QED
  BY <1>1, <1>3, <1>4, ClaimDoes

\* PublishSeq: the writer sets its slot's number and stores no more.
LEMMA TurnsPublish ==
  ASSUME SlotsAll, TurnsInv, NEW p \in Producers, PublishSeq(p)
  PROVE  TurnsInv'
<1> DEFINE k == me[p].pos
<1>1. /\ RingTypes /\ p \in Threads /\ SlotWriter(p) /\ me[p].at = "publish" /\ WritersApart
      /\ head \in Nat /\ tail \in Nat /\ seq \in [SlotIndex -> Nat]
  BY SlotFacts, Roles DEF SlotsInv, PublishSeq, At
<1>2. k \in Nat /\ k \in Int /\ seq[Slot(k)] = k /\ (kind = "SlotRing" => k = Len(written))
  BY <1>1 DEF SlotWriter, Storing
<1>3. /\ RingTypes' /\ seq' = [seq EXCEPT ![Slot(k)] = k + 1]
      /\ UNCHANGED <<kind, head, tail, got>>
      /\ \/ kind = "HPRing" /\ Moved(p, "idle", "none", 0, 0, 0, 1, <<>>) /\ written' = written
         \/ /\ kind = "SlotRing" /\ written' = Append(written, Value(p, 1))
            /\ Moved(p, "advance", me[p].op, me[p].want, me[p].pos, me[p].far, me[p].n, me[p].out)
  BY <1>1, <1>2, PublishSeqDoes
<1>4. Slot(k) \in SlotIndex /\ \A u \in Threads : u # p => me'[u] = me[u]
  BY <1>2, <1>3, SlotType DEF Moved
<1> HIDE DEF k
<1>5. CASE kind = "HPRing"
  <2>1. \A s \in SlotIndex : seq'[s] >= seq[s]
    BY <1>1, <1>2, <1>3, <1>4
  <2>2. ASSUME NEW i \in Nat, BeingStored(i) PROVE seq'[Slot(i)] > i \/ BeingStored(i)'
    <3>1. PICK q \in Producers : me[q].at \in {"fill", "filling", "publish"} /\ me[q].pos = i
      BY <2>2 DEF BeingStored
    <3>2. CASE q = p
      <4>1. i = k
        BY <3>1, <3>2 DEF k
      <4> QED
        BY <1>1, <1>2, <1>3, <1>4, <4>1
    <3>3. CASE q # p
      <4>1. me'[q] = me[q]
        BY <1>4, <3>3, Roles
      <4> QED
        BY <3>1, <4>1 DEF BeingStored
    <3> QED
      BY <3>2, <3>3
  <2>3. HPTurns'
    BY <1>1, <1>3, <1>5, <2>1, <2>2, TurnsMove DEF TurnsInv
  <2> QED
    BY <1>3, <1>5, <2>3 DEF TurnsInv
<1>6. CASE kind = "SlotRing"
  <2>1. SlotTurns /\ written' = Append(written, Value(p, 1)) /\ kind' = kind
    BY <1>3, <1>5, <1>6 DEF TurnsInv
  <2>2. Len(written') = Len(written) + 1 /\ Len(written) \in Nat /\ k = Len(written)
    BY <1>1, <1>2, <1>6, <2>1 DEF RingTypes
  <2>3. Taken' = Taken
    <3>1. me'[LeadReader] = me[LeadReader]
      BY <1>4, RingsAssumption, Roles
    <3> QED
      BY <1>3, <3>1 DEF Taken
  <2>4. (\A j : Slot(j)' = Slot(j)) /\ (\A j : ReadAt(j)' = ReadAt(j))
    BY <1>3 DEF Slot, ReadAt
  <2>5. ASSUME NEW i \in Nat, Taken <= i, i < Len(written') PROVE seq'[Slot(i)] = i + 1
    <3>1. i \in Int
      OBVIOUS
    <3>2. Slot(i) \in SlotIndex
      BY <3>1, SlotType
    <3>3. CASE i = k
      BY <1>1, <1>3, <1>4, <3>3
    <3>4. CASE i # k
      <4>1. i < Len(written)
        BY <2>2, <2>5, <3>4
      <4>2. seq[Slot(i)] = i + 1
        BY <2>1, <2>5, <4>1 DEF SlotTurns
      <4>3. Slot(i) # Slot(k)
        <5>1. ASSUME Slot(i) = Slot(k) PROVE FALSE
          <6>1. k = i + 1
            BY <1>2, <4>2, <5>1
          <6> QED
            BY <3>1, <5>1, <6>1, SlotNext
        <5> QED
          BY <5>1
      <4> QED
        BY <1>1, <1>3, <1>4, <3>2, <4>2, <4>3
    <3> QED
      BY <3>3, <3>4
  <2>6. SlotTurns'
    BY <2>1, <2>3, <2>4, <2>5 DEF SlotTurns
  <2> QED
    BY <1>6, <2>1, <2>6 DEF TurnsInv
<1> QED
  BY <1>3, <1>5, <1>6

\* ClaimRead: the position the reader claims has its sample.
LEMMA TurnsClaimRead ==
  ASSUME SlotsAll, TurnsInv, NEW c \in Consumers, ClaimRead(c)
  PROVE  TurnsInv'
<1>1. RingTypes /\ c \in Threads /\ SlotReader(c) /\ HeadWritten /\ c \notin Producers
  BY SlotFacts, Roles
<1>2. me[c].at = "claimRead" /\ kind = "HPRing" /\ RingTypes'
  BY <1>1, ClaimReadDoes
<1>3. CASE /\ tail = me[c].pos /\ tail' = tail + 1
           /\ Moved(c, "copy", me[c].op, me[c].want, me[c].pos, me[c].far, me[c].n, <<>>)
           /\ UNCHANGED <<kind, head, slot, seq, writeLock, readLock, offered, written, got>>
  <2>1. /\ \A u \in Threads : u # c => me'[u] = me[u]
        /\ head' = head /\ seq' = seq /\ kind' = kind /\ seq \in [SlotIndex -> Nat]
        /\ head \in Nat /\ tail \in Nat
    BY <1>1, <1>3 DEF Moved, RingTypes
  <2>2. seq[Slot(tail)] = tail + 1
    BY <1>1, <1>2, <1>3 DEF SlotReader
  <2>3. tail < head
    BY <1>1, <1>2, <2>1, <2>2, SlotIsFull DEF Holds, HeadWritten
  <2>4. \A i \in Nat : BeingStored(i) => BeingStored(i)'
    BY <1>1, <2>1, Roles DEF BeingStored
  <2>5. (\A s \in SlotIndex : seq'[s] >= seq[s]) /\ seq[Slot(tail)] > tail
    BY <2>1, <2>2
  <2>6. HPTurns'
    BY <1>1, <1>2, <1>3, <2>1, <2>3, <2>4, <2>5, TurnsMove DEF TurnsInv
  <2> QED
    BY <1>2, <2>1, <2>6 DEF TurnsInv
<1>4. CASE Local /\ Moved(c, "readAgain", me[c].op, me[c].want, me[c].pos, me[c].far, me[c].n, <<>>)
  BY <1>1, <1>2, <1>4, TurnsLocal DEF Local, Moved
<1> QED
  BY <1>1, <1>3, <1>4, ClaimReadDoes

\* ReleaseSlot: the reader sets its slot's number for the next lap, and in
\* SlotRing its position is the next one read.
LEMMA TurnsRelease ==
  ASSUME SlotsAll, TurnsInv, NEW c \in Consumers, ReleaseSlot(c)
  PROVE  TurnsInv'
<1>1. /\ RingTypes /\ Numbered /\ c \in Threads /\ SlotReader(c) /\ me[c].at = "release" /\ c \notin Producers
      /\ head \in Nat /\ tail \in Nat /\ seq \in [SlotIndex -> Nat] /\ Capacity \in Nat \ {0, 1}
  BY SlotFacts, Roles, RingsAssumption DEF ReleaseSlot, At
<1>2. PICK k \in Nat :
      /\ k = me[c].pos /\ k \in Int /\ seq[Slot(k)] = k + 1 /\ (kind = "SlotRing" => k = tail)
      /\ k < Len(written) /\ me[c].out = <<written[k + 1]>>
  BY <1>1 DEF SlotReader, Taking
<1>3. /\ RingTypes' /\ seq' = [seq EXCEPT ![Slot(k)] = k + Capacity] /\ me[c].out \in Seq(Samples)
      /\ Deliver(k, me[c].out) /\ UNCHANGED <<kind, head, tail, written>>
      /\ \/ kind = "HPRing" /\ Moved(c, "idle", "none", 0, 0, 0, 1, <<>>)
         \/ /\ kind = "SlotRing"
            /\ Moved(c, "advanceRead", me[c].op, me[c].want, me[c].pos, me[c].far, me[c].n, me[c].out)
  BY <1>1, <1>2, ReleaseSlotDoes
<1>4. Slot(k) \in SlotIndex /\ \A u \in Threads : u # c => me'[u] = me[u]
  BY <1>2, <1>3, SlotType DEF Moved
<1>5. CASE kind = "HPRing"
  <2>1. \A s \in SlotIndex : seq'[s] >= seq[s]
    BY <1>1, <1>2, <1>3, <1>4
  <2>2. \A i \in Nat : BeingStored(i) => BeingStored(i)'
    BY <1>1, <1>4, Roles DEF BeingStored
  <2>3. HPTurns'
    BY <1>1, <1>3, <1>5, <2>1, <2>2, TurnsMove DEF TurnsInv
  <2> QED
    BY <1>3, <1>5, <2>3 DEF TurnsInv
<1>6. CASE kind = "SlotRing"
  <2>1. SlotTurns /\ kind' = kind /\ me'[c].at = "advanceRead"
    BY <1>1, <1>3, <1>6 DEF TurnsInv, Moved
  <2>2. c = LeadReader
    BY <1>1, <1>6, ReaderFacts DEF Readers
  <2>3. Taken = k /\ Taken' = k + 1
    BY <1>1, <1>2, <1>3, <1>6, <2>1, <2>2 DEF Taken
  <2>4. Unread(k)
    BY <1>2, SlotIsFull DEF Holds
  <2>5. /\ \A j \in Nat : j # k => ReadAt(j + 1)' = ReadAt(j + 1)
        /\ ReadAt(k + 1)' = written[k + 1]
    BY <1>2, <1>3, <2>4, SlotDelivered
  <2>6. written[k + 1] # NoValue
    <3>1. k + 1 \in DOMAIN written
      BY <1>1, <1>2 DEF RingTypes
    <3>2. written[k + 1][2] >= 1
      BY <1>1, <3>1 DEF Numbered
    <3> QED
      BY <3>2 DEF NoValue
  <2>7. ASSUME NEW i \in Nat PROVE ReadAt(i + 1)' # NoValue <=> i < k + 1
    <3>1. CASE i = k
      BY <1>2, <2>5, <2>6, <3>1
    <3>2. CASE i # k
      <4>1. ReadAt(i + 1)' = ReadAt(i + 1)
        BY <2>5, <3>2
      <4>2. ReadAt(i + 1) # NoValue <=> i < k
        BY <2>1, <2>3 DEF SlotTurns
      <4>3. i < k <=> i < k + 1
        BY <1>2, <3>2
      <4> QED
        BY <4>1, <4>2, <4>3
    <3> QED
      BY <3>1, <3>2
  <2>8. ASSUME NEW i \in Nat, k + 1 <= i, i < Len(written) PROVE seq'[Slot(i)] = i + 1
    <3>1. i \in Int /\ k <= i /\ i # k
      BY <1>2, <2>8
    <3>2. Slot(i) \in SlotIndex
      BY <3>1, SlotType
    <3>3. seq[Slot(i)] = i + 1
      BY <2>1, <2>3, <2>8, <3>1 DEF SlotTurns
    <3>4. Slot(i) # Slot(k)
      BY <1>2, <3>1, <3>3
    <3> QED
      BY <1>1, <1>3, <1>4, <3>2, <3>3, <3>4
  <2>9. NoValue' = NoValue /\ \A j : Slot(j)' = Slot(j)
    BY DEF NoValue, Slot
  <2>10. SlotTurns'
    BY <1>3, <2>3, <2>7, <2>8, <2>9 DEF SlotTurns
  <2> QED
    BY <1>6, <2>1, <2>10 DEF TurnsInv
<1> QED
  BY <1>3, <1>5, <1>6

\* AdvanceRead: the position moves past the one that was read.
LEMMA TurnsAdvanceRead ==
  ASSUME SlotsAll, TurnsInv, NEW c \in Consumers, AdvanceRead(c)
  PROVE  TurnsInv'
<1>1. RingTypes /\ c \in Threads /\ SlotReader(c) /\ me[c].at = "advanceRead" /\ tail \in Nat
  BY SlotFacts, Roles DEF AdvanceRead, At
<1>2. me[c].pos \in Nat
  BY <1>1 DEF SlotReader
<1>3. /\ kind = "SlotRing" /\ tail' = me[c].pos + 1 /\ Moved(c, "idle", "none", 0, 0, 0, 1, <<>>)
      /\ UNCHANGED <<kind, seq, written, got>>
  BY <1>1, <1>2, AdvanceReadDoes
<1>4. c = LeadReader /\ me[c].pos = tail /\ me'[c].at = "idle"
  BY <1>1, <1>3, ReaderFacts DEF Readers, SlotReader, Moved
<1>5. Taken' = Taken
  BY <1>1, <1>3, <1>4 DEF Taken
<1>6. (\A j : Slot(j)' = Slot(j)) /\ (\A j : ReadAt(j)' = ReadAt(j))
  BY <1>3 DEF Slot, ReadAt
<1> QED
  BY <1>3, <1>5, <1>6 DEF TurnsInv, SlotTurns

LEMMA TurnsStep ==
  ASSUME RingInv, TurnsInv, kind # "HPLinkedQueue", RingNext
  PROVE  TurnsInv'
<1>1. CASE Plain
  <2>1. Plain'
    BY <1>1, PlainSteps DEF RingInv, PlainAll
  <2> QED
    BY <2>1 DEF Plain, Slotted, TurnsInv
<1>2. CASE Slotted
  <2>1. SlotsAll /\ RingTypes /\ kind \in {"HPRing", "SlotRing"}
    BY <1>2, SlotFacts DEF RingInv, SlotsAll
  <2>2. SlotsAll' /\ RingTypes'
    BY <2>1, SlotsSteps DEF SlotsAll
  <2>3. ASSUME NEW p \in Producers, WriteCall(p) \/ Write(p) PROVE TurnsInv'
    <3>1. p \in Threads /\ p # LeadReader /\ me[p].pos \in Int
      BY <2>1, WriterFacts, RingsAssumption
    <3>2. ASSUME NEW at, NEW op, NEW want, NEW pos, NEW far, NEW n, NEW out, Local,
                 Moved(p, at, op, want, pos, far, n, out), me[p].at \notin Storing
          PROVE  TurnsInv'
      BY <2>1, <2>2, <3>1, <3>2, TurnsLocal DEF Local, Moved
    <3>3. CASE WriteCall(p)
      BY <2>1, <3>2, <3>3, WriteCallDoes DEF Storing
    <3>4. CASE WriteAgain(p)
      BY <2>1, <3>2, <3>4, WriteAgainDoes DEF Storing
    <3>5. CASE LoadSeq(p)
      BY <2>1, <3>2, <3>5, LoadSeqDoes, RefuseDoes DEF Storing
    <3>6. CASE Fill(p) \/ Filled(p)
      <4>1. /\ me'[p].at \in Storing /\ me'[p].pos = me[p].pos
            /\ \A u \in Threads : u # p => me'[u] = me[u]
            /\ UNCHANGED <<kind, head, tail, seq, written, got>>
        BY <2>1, <3>6, FillDoes, FilledDoes DEF Storing, Moved
      <4> QED
        BY <2>1, <2>2, <3>1, <4>1, TurnsLocal
    <3>7. CASE Advance(p)
      <4>1. me[p].at = "advance" /\ me[p].pos \in Nat
        BY <2>1, <3>7, SlotFacts DEF Advance, At, SlotWriter
      <4>2. kind = "SlotRing" /\ UNCHANGED <<kind, tail, seq, written, got>>
            /\ \A u \in Threads : u # p => me'[u] = me[u]
        BY <2>1, <3>7, <4>1, AdvanceDoes DEF Moved
      <4> QED
        BY <2>1, <2>2, <3>1, <4>1, <4>2, TurnsLocal DEF Storing
    <3>8. ~LoadTail(p) /\ ~PublishHead(p)
      BY <1>2, <2>1, LoadTailDoes DEF Plain, PublishHead
    <3> QED
      BY <2>1, <2>3, <3>3, <3>4, <3>5, <3>6, <3>7, <3>8, TurnsClaim, TurnsPublish DEF Write
  <2>4. ASSUME NEW c \in Consumers, ReadCall(c) \/ Read(c) PROVE TurnsInv'
    <3>1. c \in Threads /\ c \notin Producers /\ me[c].at \in ReadSteps
      BY <2>1, ReaderFacts, Roles
    <3>2. ASSUME NEW at, NEW op, NEW want, NEW pos, NEW far, NEW n, NEW out, Local, at # "advanceRead",
                 Moved(c, at, op, want, pos, far, n, out), me[c].at # "advanceRead"
          PROVE  TurnsInv'
      BY <2>1, <2>2, <3>1, <3>2, TurnsLocal DEF Local, Moved
    <3>3. CASE ReadCall(c)
      BY <1>2, <2>1, <3>2, <3>3, ReadCallDoes DEF Loaded
    <3>4. CASE ReadAgain(c)
      BY <1>2, <2>1, <3>2, <3>4, ReadAgainDoes DEF Loaded
    <3>5. CASE LoadFullSeq(c)
      BY <2>1, <3>2, <3>5, LoadFullSeqDoes, FindNothingDoes
    <3>6. CASE Copy(c)
      <4>1. AfterCopy(c) # "advanceRead"
        BY DEF AfterCopy
      <4> QED
        BY <2>1, <3>1, <3>2, <3>6, <4>1, CopyDoes
    <3>7. ~LoadOwnTail(c) /\ ~CheckHead(c) /\ ~ReleaseTail(c)
      BY <1>2, <2>1, <3>1 DEF LoadOwnTail, CheckHead, ReleaseTail, At, ReadSteps
    <3> QED
      BY <2>1, <2>4, <3>3, <3>4, <3>5, <3>6, <3>7, TurnsClaimRead, TurnsRelease, TurnsAdvanceRead DEF Read
  <2>5. ASSUME NEW x \in Observers PROVE ~PeekCall(x) /\ ~Peek(x)
    <3>1. me[x].at = "idle"
      BY <2>1, PeekerFacts DEF PeekSteps
    <3> QED
      BY <2>1, <3>1 DEF PeekCall, Peek, PeekAgain, PeekTail, Copy, PeekCheckHead, PeekCheckTail,
         PeekReturn, At
  <2>6. ~Clear
    BY <2>1 DEF Clear
  <2> QED
    BY <2>3, <2>4, <2>5, <2>6 DEF RingNext
<1> QED
  BY <1>1, <1>2 DEF Plain

LEMMA TurnsStart == RingInit => TurnsInv
<1> SUFFICES ASSUME RingInit PROVE TurnsInv
  OBVIOUS
<1>1. head = 0 /\ tail = 0 /\ Len(written) = 0 /\ \A k : ReadAt(k) = NoValue
  BY DEF RingInit, ReadAt
<1>2. LeadReader \in Threads /\ me[LeadReader].at # "advanceRead"
  BY RingsAssumption, Roles DEF RingInit, Idle
<1>3. HPTurns
  BY <1>1 DEF HPTurns
<1>4. SlotTurns
  BY <1>1, <1>2 DEF SlotTurns, Taken
<1> QED
  BY <1>3, <1>4 DEF TurnsInv

LEMMA TurnsRest ==
  ASSUME TurnsInv, UNCHANGED vars
  PROVE  TurnsInv'
<1>1. UNCHANGED <<kind, head, tail, seq, me, written, got>>
  BY DEF vars, shared, slots, history
<1> QED
  BY <1>1 DEF TurnsInv, HPTurns, SlotTurns, Taken, BeingStored, ReadAt, Slot

\* A reader that finds nothing.
LEMMA ShowsEmpty ==
  ASSUME RingInv, TurnsInv
  PROVE  EmptyOnlyWhenRead
<1> SUFFICES ASSUME NEW t \in Consumers \cup Observers, FindsNothing(t)
    PROVE  IF kind = "HPRing" THEN me[t].pos = tail /\ (head = tail \/ BeingStored(tail))
           ELSE \A k \in 1..(IF Slotted THEN Len(written) ELSE me[t].far) : ReadAt(k) # NoValue
  BY DEF EmptyOnlyWhenRead
<1>1. /\ RingTypes /\ t \in Threads /\ me[t].far \in Nat /\ me[t].pos \in Int
      /\ head \in Nat /\ tail \in Nat /\ seq \in [SlotIndex -> Nat]
  BY Roles, InPlace DEF RingInv, RingTypes
<1>2. CASE Plain
  <2>1. me[t].at # "loadFullSeq"
    BY <1>1, <1>2, ReaderFacts, PeekerFacts DEF ReadSteps, PeekSteps, Plain, Slotted
  <2>2. PlainInv /\ Numbered /\ me[t].far = tail
    BY <1>2, <2>1 DEF RingInv, FindsNothing, At
  <2>3. ASSUME NEW k \in 1..tail PROVE ReadAt(k) # NoValue
    <3>1. Len(got) = tail /\ tail <= Len(written) /\ got \in Seq(Samples \cup {Twice})
          /\ written \in Seq(Producers \X Nat)
      BY <1>1, <2>2 DEF PlainInv, RingTypes
    <3>2. k \in DOMAIN got /\ k \in DOMAIN written
      BY <1>1, <3>1
    <3>3. ReadAt(k) = written[k] /\ written[k][2] >= 1
      BY <2>2, <3>2 DEF PlainInv, ReadAt, Numbered
    <3> QED
      BY <3>3 DEF NoValue
  <2> QED
    BY <1>2, <2>2, <2>3 DEF Plain, Slotted
<1>3. CASE Slotted
  <2>1. SlotsAll /\ kind \in {"HPRing", "SlotRing"}
    BY <1>3, SlotFacts DEF RingInv, SlotsAll
  <2>2. t \in Consumers /\ me[t].at = "loadFullSeq" /\ NotStored(t)
    BY <1>1, <2>1, ReaderFacts, PeekerFacts DEF FindsNothing, At, ReadSteps, PeekSteps
  <2>3. me[t].pos \in Nat /\ me[t].pos <= tail /\ (kind = "SlotRing" => me[t].pos = tail)
    BY <2>1, <2>2, SlotFacts DEF SlotReader
  <2>4. CASE kind = "HPRing"
    <3>1. HPTurns /\ seq[Slot(me[t].pos)] < me[t].pos + 1
      BY <2>2, <2>4 DEF TurnsInv, NotStored
    <3>2. Slot(me[t].pos) \in SlotIndex
      BY <1>1, SlotType
    <3>3. ~(seq[Slot(me[t].pos)] > me[t].pos)
      BY <1>1, <3>1, <3>2
    <3>4. me[t].pos = tail
      BY <1>1, <2>3, <3>1, <3>3 DEF HPTurns
    <3>5. head = tail \/ tail < head
      BY <1>1, <3>1 DEF HPTurns
    <3>6. tail < head => BeingStored(tail)
      BY <1>1, <3>1, <3>3, <3>4 DEF HPTurns
    <3> QED
      BY <2>4, <3>4, <3>5, <3>6
  <2>5. CASE kind = "SlotRing"
    <3>1. SlotTurns /\ seq[Slot(tail)] # tail + 1
      <4>1. Slot(tail) \in SlotIndex
        BY <1>1, SlotType
      <4> QED
        BY <1>1, <2>2, <2>3, <2>5, <4>1 DEF TurnsInv, NotStored
    <3>2. t = LeadReader
      BY <1>1, <2>2, <2>5, ReaderFacts DEF Readers
    <3>3. Taken = tail
      BY <2>2, <3>2 DEF Taken
    <3>4. Len(written) <= tail /\ Len(written) \in Nat
      BY <1>1, <3>1, <3>3 DEF SlotTurns, RingTypes
    <3>5. ASSUME NEW k \in 1..Len(written) PROVE ReadAt(k) # NoValue
      <4>1. k - 1 \in Nat /\ k - 1 < Taken /\ (k - 1) + 1 = k
        BY <1>1, <3>3, <3>4
      <4> QED
        BY <3>1, <4>1 DEF SlotTurns
    <3> QED
      BY <1>3, <2>5, <3>5
  <2> QED
    BY <2>1, <2>4, <2>5
<1> QED
  BY <1>2, <1>3 DEF Plain

-------------------------------------------------------------------------------
(* Every ring's invariant, and the queue's, hold in every state of what the  *)
(* runs check, whichever structure is in use: slot numbers, positions and    *)
(* what each thread has loaded or copied agree.                              *)
THEOREM LockFreeInvariant == LFSpec => [](RingInv /\ QueueInv)
<1>1. LFInit => RingInv /\ QueueInv
  BY RingStarts, InitQueueInv DEF LFInit
<1>2. RingInv /\ QueueInv /\ [LFNext]_<<vars, qvars>> => (RingInv /\ QueueInv)'
  <2> SUFFICES ASSUME RingInv, QueueInv, [LFNext]_<<vars, qvars>> PROVE (RingInv /\ QueueInv)'
    OBVIOUS
  <2>1. CASE kind # Queue /\ RingNext /\ UNCHANGED qvars
    <3>1. RingInv'
      BY <2>1, RingStep DEF Queue
    <3>2. QueueInv'
      BY <2>1, QueueStep
    <3> QED
      BY <3>1, <3>2
  <2>2. CASE kind = Queue /\ QNext /\ UNCHANGED vars
    BY <2>2, RingRests, QueueStep
  <2>3. CASE UNCHANGED <<vars, qvars>>
    BY <2>3, RingRests, QueueStep
  <2> QED
    BY <2>1, <2>2, <2>3 DEF LFNext
<1> QED
  BY <1>1, <1>2, PTL DEF LFSpec

\* And so does what is known of the rings that say they are empty.
LEMMA TurnsInvariant == LFSpec => []TurnsInv
<1>1. LFInit => TurnsInv
  BY TurnsStart DEF LFInit
<1>2. RingInv /\ TurnsInv /\ [LFNext]_<<vars, qvars>> => TurnsInv'
  <2> SUFFICES ASSUME RingInv, TurnsInv, [LFNext]_<<vars, qvars>> PROVE TurnsInv'
    OBVIOUS
  <2>1. CASE kind # Queue /\ RingNext
    BY <2>1, TurnsStep DEF Queue
  <2>2. CASE UNCHANGED vars
    BY <2>2, TurnsRest
  <2> QED
    BY <2>1, <2>2 DEF LFNext
<1> QED
  BY <1>1, <1>2, LockFreeInvariant, PTL DEF LFSpec

(* Whatever is read at a position is what was written there, whole, and it is*)
(* read once; a producer's samples keep their order; no two producers store  *)
(* into one slot; a writer is refused by a full ring only; a reader finds    *)
(* nothing only when all that was published has been read (in HPRing, when   *)
(* the oldest sample nobody has claimed is not complete); what was peeked is *)
(* what was published, except where PeekLatest copied a sample that a reader *)
(* has released; and the queue keeps its order: for any number of threads,   *)
(* any capacity and any batch size.                                          *)
THEOREM LockFreeInOrder == LFSpec => []InOrder
<1>1. RingInv /\ QueueInv /\ TurnsInv => InOrder
  <2> SUFFICES ASSUME RingInv, QueueInv, TurnsInv PROVE InOrder
    OBVIOUS
  <2>1. InProducersOrder
    BY DEF RingInv, Numbered
  <2>2. RingInOrder
    BY <2>1, ShowsTypes, ShowsReadOnce, ShowsStoresApart, ShowsRefusals, ShowsEmpty DEF RingInOrder
  <2> QED
    BY <2>2, ShowsWhole, QueueShows DEF InOrder
<1> QED
  BY <1>1, LockFreeInvariant, TurnsInvariant, PTL
===============================================================================
