------------------------------- MODULE PQueue -------------------------------
(***************************************************************************)
(* The priority queue of pqueue/pqueue.c: a binary heap d[1 .. size] whose *)
(* elements know their position.  A queue is a record q of the heap q.d, a *)
(* sequence, and of the positions q.pos; pri gives an element's priority,  *)
(* the smallest one comes first.                                           *)
(***************************************************************************)
EXTENDS Integers, Sequences, FiniteSets, FiniteSetsExt

Left(i) == 2 * i
Parent(i) == i \div 2

\* The first m places after path[0] are on the way; which step each one is.
OnWay(path, m, j) == \E k \in 0 .. m : path[k] = j
StepOf(path, m) == [j \in {path[k] : k \in 0 .. m} |-> CHOOSE k \in 0 .. m : path[k] = j]

\* The element at path[0] goes to path[m], and each one on the way there takes
\* the place before it; they are told their positions.
Carried(q, path, m) ==
  [j \in DOMAIN q.d |-> IF ~ OnWay(path, m, j) THEN q.d[j]
                        ELSE IF StepOf(path, m)[j] = m THEN q.d[path[0]]
                        ELSE q.d[path[StepOf(path, m)[j] + 1]]]
Moved(q, path, m) ==
  LET new == Carried(q, path, m)
      way == {path[k] : k \in 0 .. m}
  IN [d |-> new,
      pos |-> [x \in DOMAIN q.pos |->
                 IF \E j \in way : new[j] = x THEN CHOOSE j \in way : new[j] = x
                 ELSE q.pos[x]]]

\* The places from i up to the root, and then 0.
PathUp(q, i) ==
  LET path[k \in 0 .. Len(q.d)] == IF k = 0 THEN i ELSE Parent(path[k - 1])
  IN path

\* The element at place i moves up past its ancestors of a larger priority.
BubbleUp(q, pri, i) ==
  LET path == PathUp(q, i)
  IN Moved(q, path, Min({k \in 0 .. Len(q.d) - 1 :
       path[k + 1] = 0 \/ pri[q.d[path[k + 1]]] <= pri[q.d[i]]}))

\* The child with the smaller priority, the left one if they are equal.
MaxChild(q, pri, i) ==
  IF Left(i) > Len(q.d) THEN 0
  ELSE IF Left(i) < Len(q.d) /\ pri[q.d[Left(i)]] > pri[q.d[Left(i) + 1]]
  THEN Left(i) + 1 ELSE Left(i)

\* The places from i down, by the children with the smaller priority, and then 0.
PathDown(q, pri, i) ==
  LET path[k \in 0 .. Len(q.d)] ==
        IF k = 0 THEN i ELSE IF path[k - 1] = 0 THEN 0 ELSE MaxChild(q, pri, path[k - 1])
  IN path

\* The element at place i moves down past children of a smaller priority.
PercolateDown(q, pri, i) ==
  LET path == PathDown(q, pri, i)
  IN Moved(q, path, Min({k \in 0 .. Len(q.d) - 1 :
       path[k + 1] = 0 \/ pri[q.d[i]] <= pri[q.d[path[k + 1]]]}))

Insert(q, pri, x) ==
  BubbleUp([q EXCEPT !.d = Append(@, x)], pri, Len(q.d) + 1)

\* Faulty: an element whose priority fell is sifted as if it had risen.
BugChangePriority(q, pri, new, x) ==
  PercolateDown(q, [pri EXCEPT ![x] = new], q.pos[x])

\* pri is the priorities before x gets the priority new.
ChangePriority(q, pri, new, x) ==
  LET pri2 == [pri EXCEPT ![x] = new] IN
  IF pri[x] > new THEN BubbleUp(q, pri2, q.pos[x]) ELSE PercolateDown(q, pri2, q.pos[x])

Peek(q) == q.d[1]

\* The first element leaves; its position is left as it was.
Pop(q, pri) ==
  LET n == Len(q.d)
      rest == SubSeq(q.d, 1, n - 1)
  IN IF n = 1 THEN [q EXCEPT !.d = <<>>]
     ELSE PercolateDown([q EXCEPT !.d = [rest EXCEPT ![1] = q.d[n]]], pri, 1)

\* pqueue_is_valid, and every element knows where it is.
IsValid(q, pri) ==
  /\ \A i \in DOMAIN q.d : i > 1 => pri[q.d[Parent(i)]] <= pri[q.d[i]]
  /\ \A i \in DOMAIN q.d : q.pos[q.d[i]] = i
=============================================================================
