------------------------------ MODULE LinkedQueue ------------------------------
(* HPLinkedQueue of internal/lockfree/hazards.go: a linked list between head *)
(* and tail, where a thread that finds tail lagging moves it along.  An      *)
(* action is one access to shared memory.                                    *)
(*                                                                           *)
(* A node is the number of its Enqueue; the garbage collector reuses no node *)
(* that a thread still refers to, so no two nodes are confused.  retireNode  *)
(* keeps dequeued nodes in a list until it is scanned; since no thread ever  *)
(* sets a hazard pointer, a scan empties the list.                           *)
EXTENDS Integers, Sequences, FiniteSets

CONSTANTS
  Enqueuers, Dequeuers,
  MaxNodes,    \* bound: nodes each enqueuer makes in a behaviour
  MaxRetired   \* nodes retired before a scan, 256 in the program

ASSUME QueueAssumption ==
  /\ MaxNodes \in [Enqueuers -> Nat] /\ MaxRetired \in Nat \ {0}
  /\ IsFiniteSet(Enqueuers) /\ IsFiniteSet(Dequeuers) /\ Enqueuers \cap Dequeuers = {}

VARIABLES
  qhead, qtail, link,            \* the list: first (dummy) node, last one, next pointers
  retired,                       \* retiredList of the hazard domain
  enqueueCount, dequeueCount,
  my,                            \* what each thread is doing
  made,                          \* nodes each enqueuer has made
  linked,                        \* history: nodes in the order they were linked
  taken                          \* history: values dequeued, in order

list   == <<qhead, qtail, link>>
counts == <<enqueueCount, dequeueCount, retired>>
qvars  == <<list, counts, my, made, linked, taken>>

QThreads == Enqueuers \cup Dequeuers
Dummy == <<"dummy", 0>>
Nil   == <<"nil", 0>>
Node(e) == <<e, made[e]>>
Nodes == {Dummy} \cup UNION {{e} \X (1..MaxNodes[e]) : e \in Enqueuers}

(* A thread's step and its copies of head, tail and a next pointer.          *)
Resting == [at |-> "idle", head |-> Nil, tail |-> Nil, next |-> Nil]

QInit ==
  /\ qhead = Dummy /\ qtail = Dummy /\ link = [x \in Nodes |-> Nil]
  /\ retired = <<>> /\ enqueueCount = 0 /\ dequeueCount = 0
  /\ my = [t \in QThreads |-> Resting] /\ made = [e \in Enqueuers |-> 0]
  /\ linked = <<>> /\ taken = <<>>

Does(t, step)    == my[t].at = step
Then(t, step)    == my' = [my EXCEPT ![t].at = step]
(* From here the thread looks at the list afresh, or is done.                *)
Afresh(t, step)  == my' = [my EXCEPT ![t] = [Resting EXCEPT !.at = step]]

-------------------------------------------------------------------------------
Enqueue(e) ==
  /\ Does(e, "idle") /\ made[e] < MaxNodes[e]
  /\ made' = [made EXCEPT ![e] = @ + 1] /\ Afresh(e, "loadTail")
  /\ UNCHANGED <<list, counts, linked, taken>>

LoadQTail(t) ==
  /\ Does(t, "loadTail") /\ my' = [my EXCEPT ![t].tail = qtail, ![t].at = "loadNext"]
  /\ UNCHANGED <<list, counts, made, linked, taken>>

LoadNext(t) ==
  /\ Does(t, "loadNext")
  /\ my' = [my EXCEPT ![t].next = link[IF t \in Enqueuers THEN my[t].tail ELSE my[t].head],
                      ![t].at = "check"]
  /\ UNCHANGED <<list, counts, made, linked, taken>>

CheckTail(e) ==
  /\ Does(e, "check") /\ e \in Enqueuers
  /\ IF qtail # my[e].tail THEN Afresh(e, "loadTail")
     ELSE Then(e, IF my[e].next = Nil THEN "link" ELSE "help")
  /\ UNCHANGED <<list, counts, made, linked, taken>>

(* A slip for a mutant: the node is stored, whatever is there.               *)
LinkStored(e) ==
  /\ Does(e, "link") /\ link' = [link EXCEPT ![my[e].tail] = Node(e)]
  /\ linked' = Append(linked, Node(e)) /\ Then(e, "swing")
  /\ UNCHANGED <<qhead, qtail, counts, made, taken>>

Link(e) ==
  /\ Does(e, "link")
  /\ \/ /\ link[my[e].tail] = Nil /\ link' = [link EXCEPT ![my[e].tail] = Node(e)]
        /\ linked' = Append(linked, Node(e)) /\ Then(e, "swing")
     \/ link[my[e].tail] # Nil /\ Afresh(e, "loadTail") /\ UNCHANGED <<link, linked>>
  /\ UNCHANGED <<qhead, qtail, counts, made, taken>>

(* Tail is moved on from the node that was seen, if it is still there: to the*)
(* enqueuer's own node, or to the successor of a tail that lags.             *)
Swing(e) ==
  /\ Does(e, "swing") /\ Afresh(e, "count")
  /\ qtail' = IF qtail = my[e].tail THEN Node(e) ELSE qtail
  /\ UNCHANGED <<qhead, link, counts, made, linked, taken>>

Help(t) ==
  /\ Does(t, "help") /\ Afresh(t, IF t \in Enqueuers THEN "loadTail" ELSE "loadHead")
  /\ qtail' = IF qtail = my[t].tail THEN my[t].next ELSE qtail
  /\ UNCHANGED <<qhead, link, counts, made, linked, taken>>

CountEnqueue(e) ==
  /\ Does(e, "count") /\ e \in Enqueuers
  /\ enqueueCount' = enqueueCount + 1 /\ Afresh(e, "idle")
  /\ UNCHANGED <<list, dequeueCount, retired, made, linked, taken>>

-------------------------------------------------------------------------------
Dequeue(d) ==
  /\ Does(d, "idle") /\ Afresh(d, "loadHead")
  /\ UNCHANGED <<list, counts, made, linked, taken>>

LoadHead(d) ==
  /\ Does(d, "loadHead") /\ my' = [my EXCEPT ![d].head = qhead, ![d].at = "loadTail"]
  /\ UNCHANGED <<list, counts, made, linked, taken>>

(* An empty queue ends the call; a tail that lags is moved along.            *)
CheckQHead(d) ==
  /\ Does(d, "check") /\ d \in Dequeuers
  /\ IF qhead # my[d].head THEN Afresh(d, "loadHead")
     ELSE IF my[d].head # my[d].tail THEN Then(d, "take")
     ELSE IF my[d].next # Nil THEN Then(d, "help") ELSE Afresh(d, "idle")
  /\ UNCHANGED <<list, counts, made, linked, taken>>

Take(d) ==
  /\ Does(d, "take")
  /\ \/ /\ qhead = my[d].head /\ qhead' = my[d].next
        /\ taken' = Append(taken, my[d].next) /\ Then(d, "retire")
     \/ qhead # my[d].head /\ Afresh(d, "loadHead") /\ UNCHANGED <<qhead, taken>>
  /\ UNCHANGED <<qtail, link, counts, made, linked>>

(* retireNode with its scan.                                                 *)
Retire(d) ==
  /\ Does(d, "retire") /\ Afresh(d, "count")
  /\ retired' = IF Len(retired) + 1 >= MaxRetired THEN <<>> ELSE Append(retired, my[d].head)
  /\ UNCHANGED <<list, enqueueCount, dequeueCount, made, linked, taken>>

CountDequeue(d) ==
  /\ Does(d, "count") /\ d \in Dequeuers
  /\ dequeueCount' = dequeueCount + 1 /\ Afresh(d, "idle")
  /\ UNCHANGED <<list, enqueueCount, retired, made, linked, taken>>

EnqueueStep(e) ==
  \/ LoadQTail(e) \/ LoadNext(e) \/ CheckTail(e) \/ Link(e) \/ Swing(e) \/ Help(e)
  \/ CountEnqueue(e)
DequeueStep(d) ==
  \/ LoadHead(d) \/ LoadQTail(d) \/ LoadNext(d) \/ CheckQHead(d) \/ Take(d) \/ Help(d)
  \/ Retire(d) \/ CountDequeue(d)

QNext ==
  \/ \E e \in Enqueuers : Enqueue(e) \/ EnqueueStep(e)
  \/ \E d \in Dequeuers : Dequeue(d) \/ DequeueStep(d)

-------------------------------------------------------------------------------
QAt(set, step) == Cardinality({t \in set : Does(t, step)})
QTypeOK ==
  /\ {qhead, qtail} \subseteq Nodes /\ link \in [Nodes -> Nodes \cup {Nil}]
  /\ Len(retired) < MaxRetired

(* Values leave in the order in which their nodes were linked.               *)
QInOrder ==
  /\ Len(taken) <= Len(linked) /\ \A i \in DOMAIN taken : taken[i] = linked[i]
  /\ \A i, j \in DOMAIN linked : i # j => linked[i] # linked[j]

(* Tail is the last node or the one before it, and never behind head.        *)
Place(x) == IF x = Dummy THEN 0 ELSE CHOOSE i \in DOMAIN linked : linked[i] = x
TailKeepsUp ==
  /\ Place(qhead) = Len(taken) /\ Place(qhead) <= Place(qtail)
  /\ Len(linked) - 1 <= Place(qtail)

(* A dequeuer about to find the queue empty is right.                        *)
EmptyIsEmpty ==
  \A d \in Dequeuers :
    Does(d, "loadNext") /\ link[my[d].head] = Nil => Len(taken) = Len(linked)

(* The counters lag behind the list by the calls that are about to count, so *)
(* that ApproxCount is off by no more than the calls under way.              *)
CountsFollow ==
  /\ Len(linked) = enqueueCount + QAt(Enqueuers, "swing") + QAt(Enqueuers, "count")
  /\ Len(taken) = dequeueCount + QAt(Dequeuers, "retire") + QAt(Dequeuers, "count")

QueueInOrder == QTypeOK /\ QInOrder /\ TailKeepsUp /\ EmptyIsEmpty /\ CountsFollow

(* All that is linked has been dequeued.                                     *)
QueueDrained == Len(taken) = Len(linked)
===============================================================================
