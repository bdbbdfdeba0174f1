-------------------------- MODULE DoublyLinkedList --------------------------
(***************************************************************************)
(* The intrusive list of src/include/cache/node.h at the level of its      *)
(* pointers.  A node is named by the key it holds (an LRUCache has at most *)
(* one node per key), the sentinels head_ and tail_ are HeadSentinel and   *)
(* TailSentinel, and nullptr is Null.  A list is a record of the next and  *)
(* prev fields of every node and sentinel and the size_ counter; every     *)
(* operator performs the pointer assignments of the code one after the     *)
(* other, in the code's order.                                             *)
(***************************************************************************)
EXTENDS Naturals, Sequences, FiniteSets

CONSTANT Nodes

HeadSentinel == "head_"
TailSentinel == "tail_"
Null == "null"

Slots == Nodes \cup {HeadSentinel, TailSentinel}

\* DoublyLinkedList(): head_->next = tail_, tail_->prev = head_; a Node is
\* constructed with both pointers null.
EmptyList ==
    [next |-> [n \in Slots |-> IF n = HeadSentinel THEN TailSentinel ELSE Null],
     prev |-> [n \in Slots |-> IF n = TailSentinel THEN HeadSentinel ELSE Null],
     size |-> 0]

\* Mutant: head_->next->prev = node left out.
PushFrontNoBackLink(l, n) ==
    LET l1 == [l  EXCEPT !.next[n] = l.next[HeadSentinel]]
        l2 == [l1 EXCEPT !.prev[n] = HeadSentinel]
        l3 == [l2 EXCEPT !.next[HeadSentinel] = n]
    IN  [l3 EXCEPT !.size = @ + 1]

\* push_front: node->next = head_->next; node->prev = head_;
\* head_->next->prev = node; head_->next = node; ++size_.
PushFront(l, n) ==
    LET l1 == [l  EXCEPT !.next[n] = l.next[HeadSentinel]]
        l2 == [l1 EXCEPT !.prev[n] = HeadSentinel]
        l3 == [l2 EXCEPT !.prev[l2.next[HeadSentinel]] = n]
        l4 == [l3 EXCEPT !.next[HeadSentinel] = n]
    IN  [l4 EXCEPT !.size = @ + 1]

\* detach: node->prev->next = node->next; node->next->prev = node->prev;
\* both of node's pointers to null; --size_.
Detach(l, n) ==
    LET l1 == [l  EXCEPT !.next[l.prev[n]] = l.next[n]]
        l2 == [l1 EXCEPT !.prev[l1.next[n]] = l1.prev[n]]
        l3 == [l2 EXCEPT !.prev[n] = Null, !.next[n] = Null]
    IN  [l3 EXCEPT !.size = @ - 1]

\* pop_back: nullptr when size_ is 0, else tail_->prev, detached.
PopBack(l) ==
    IF l.size = 0 THEN [list |-> l, node |-> Null]
    ELSE [list |-> Detach(l, l.prev[TailSentinel]), node |-> l.prev[TailSentinel]]

\* move_to_front: detach, then push_front.
MoveToFront(l, n) == PushFront(Detach(l, n), n)

\* The nodes met following next from n until tail_ (the loop of
\* LRUCache::dirty_entries), at most fuel of them.  A null pointer or a
\* sentinel met on the way ends the walk and is its last element: the code
\* would dereference it.
RECURSIVE WalkNext(_, _, _)
WalkNext(l, n, fuel) ==
    IF n = TailSentinel \/ fuel = 0 THEN <<>>
    ELSE <<n>> \o (IF n \in Nodes THEN WalkNext(l, l.next[n], fuel - 1) ELSE <<>>)

\* The same walk following prev from n until head_.
RECURSIVE WalkPrev(_, _, _)
WalkPrev(l, n, fuel) ==
    IF n = HeadSentinel \/ fuel = 0 THEN <<>>
    ELSE <<n>> \o (IF n \in Nodes THEN WalkPrev(l, l.prev[n], fuel - 1) ELSE <<>>)

\* head_->next ... tail_->prev, MRU first.
Forward(l) == WalkNext(l, l.next[HeadSentinel], Cardinality(Nodes) + 1)

\* tail_->prev ... head_->next, LRU first.
Backward(l) == WalkPrev(l, l.prev[TailSentinel], Cardinality(Nodes) + 1)

=============================================================================
