------------------------------ MODULE MCLockFree ------------------------------
(* LockFreeRings and LinkedQueue for TLC: in each behaviour one of the six    *)
(* structures is used, the others rest.                                       *)
EXTENDS LockFreeRings, LinkedQueue

CONSTANTS p1, p2, c1, c2, o

NodesOfEach == [e \in Enqueuers |-> IF e = p1 THEN 2 ELSE 1]

Queue == "HPLinkedQueue"
LFInit == RingInit /\ QInit
LFNext ==
  \/ kind # Queue /\ RingNext /\ UNCHANGED qvars
  \/ kind = Queue /\ QNext /\ UNCHANGED vars

(* A thread inside an operation goes on, and consumers go on calling.         *)
LFFairness ==
  /\ \A p \in Producers : WF_<<vars, qvars>>(kind # Queue /\ Write(p) /\ UNCHANGED qvars)
  /\ \A c \in Consumers : WF_<<vars, qvars>>(kind # Queue /\ (ReadCall(c) \/ Read(c)) /\ UNCHANGED qvars)
  /\ \A e \in Enqueuers : WF_<<vars, qvars>>(kind = Queue /\ EnqueueStep(e) /\ UNCHANGED vars)
  /\ \A d \in Dequeuers :
       WF_<<vars, qvars>>(kind = Queue /\ (Dequeue(d) \/ DequeueStep(d)) /\ UNCHANGED vars)
LFSpec == LFInit /\ [][LFNext]_<<vars, qvars>> /\ LFFairness

(* Every structure hands over what it is given, each producer's samples in   *)
(* its order and each sample once.  A ring refuses a sample only when it is  *)
(* full.  SlotRing, SeqLockRing, MPSeqRing and AtomicRing say that they are  *)
(* empty only when everything published (to the last three, before they      *)
(* loaded head) has been read, and the linked queue when it was at some      *)
(* moment of the call; HPRing promises less: it says so also when a writer is*)
(* still storing the oldest sample, however many later ones are complete.    *)
(* Peek returns what is published; PeekLatest does where no reader has       *)
(* released the sample before it returns.                                    *)
InOrder == RingInOrder /\ PeekIsWhole /\ QueueInOrder

(* What has been handed in comes out: since no more than MaxWrites samples    *)
(* are handed in, each of them does if all are out again and again.           *)
EverythingDelivered == []<>(RingDrained /\ QueueDrained)
===============================================================================
