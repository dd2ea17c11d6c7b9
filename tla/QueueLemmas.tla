----------------------------- MODULE QueueLemmas -----------------------------
(***************************************************************************)
(* What the queue operations of the scheduler and of the waiting lists do  *)
(* to membership (In) and to the absence of duplicates.                    *)
(***************************************************************************)
EXTENDS Scheduler, TLAPS

(* Committing r at the back of a queue adds r and nothing else. *)
LEMMA AppendIn ==
  ASSUME NEW S, NEW q \in Seq(S), NEW r \in S
  PROVE  /\ Append(q, r) \in Seq(S)
         /\ \A x : In(Append(q, r), x) <=> In(q, x) \/ x = r
         /\ NoDuplicates(q) /\ ~In(q, r) => NoDuplicates(Append(q, r))
<1>1. /\ Append(q, r) \in Seq(S)
      /\ Len(Append(q, r)) = Len(q) + 1
      /\ Len(q) \in Nat
      /\ \A i \in 1 .. Len(q) : Append(q, r)[i] = q[i]
      /\ Append(q, r)[Len(q) + 1] = r
  OBVIOUS
<1>2. ASSUME NEW x PROVE In(Append(q, r), x) <=> In(q, x) \/ x = r
  <2>1. In(q, x) => In(Append(q, r), x)
    BY <1>1 DEF In
  <2>2. x = r => In(Append(q, r), x)
    BY <1>1 DEF In
  <2>3. In(Append(q, r), x) => In(q, x) \/ x = r
    BY <1>1 DEF In
  <2> QED BY <2>1, <2>2, <2>3
<1>3. NoDuplicates(q) /\ ~In(q, r) => NoDuplicates(Append(q, r))
  BY <1>1 DEF In, NoDuplicates
<1> QED BY <1>1, <1>2, <1>3

(* Taking the head off a queue removes that element and nothing else. *)
LEMMA TailIn ==
  ASSUME NEW S, NEW q \in Seq(S), q # <<>>
  PROVE  /\ Head(q) \in S
         /\ Tail(q) \in Seq(S)
         /\ \A x : In(q, x) <=> In(Tail(q), x) \/ x = Head(q)
         /\ NoDuplicates(q) => NoDuplicates(Tail(q)) /\ ~In(Tail(q), Head(q))
<1>1. /\ Len(q) \in Nat \ {0}
      /\ Head(q) \in S
      /\ Head(q) = q[1]
      /\ Tail(q) \in Seq(S)
      /\ Len(Tail(q)) = Len(q) - 1
      /\ \A i \in 1 .. Len(q) - 1 : Tail(q)[i] = q[i + 1]
  OBVIOUS
<1>2. ASSUME NEW x PROVE In(q, x) <=> In(Tail(q), x) \/ x = Head(q)
  <2>1. In(Tail(q), x) => In(q, x)
    BY <1>1 DEF In
  <2>2. x = Head(q) => In(q, x)
    BY <1>1 DEF In
  <2>3. ASSUME In(q, x) PROVE In(Tail(q), x) \/ x = Head(q)
    <3>1. PICK i \in 1 .. Len(q) : q[i] = x
      BY <2>3 DEF In
    <3>2. CASE i = 1
      BY <3>1, <3>2, <1>1
    <3>3. CASE i # 1
      <4>1. i - 1 \in 1 .. Len(q) - 1 /\ Tail(q)[i - 1] = x
        BY <3>1, <3>3, <1>1
      <4> QED BY <4>1, <1>1 DEF In
    <3> QED BY <3>2, <3>3
  <2> QED BY <2>1, <2>2, <2>3
<1>3. ASSUME NoDuplicates(q)
      PROVE  NoDuplicates(Tail(q)) /\ ~In(Tail(q), Head(q))
  <2>1. NoDuplicates(Tail(q))
    BY <1>1, <1>3 DEF NoDuplicates
  <2>2. ~In(Tail(q), Head(q))
    BY <1>1, <1>3 DEF NoDuplicates, In
  <2> QED BY <2>1, <2>2
<1> QED BY <1>1, <1>2, <1>3

(* Appending a whole list, as signalAll does, adds exactly its members. *)
LEMMA ConcatIn ==
  ASSUME NEW S, NEW q \in Seq(S), NEW p \in Seq(S)
  PROVE  /\ q \o p \in Seq(S)
         /\ \A x : In(q \o p, x) <=> In(q, x) \/ In(p, x)
         /\ NoDuplicates(q) /\ NoDuplicates(p) /\ (\A x : ~(In(q, x) /\ In(p, x)))
              => NoDuplicates(q \o p)
<1>1. /\ q \o p \in Seq(S)
      /\ Len(q) \in Nat /\ Len(p) \in Nat
      /\ Len(q \o p) = Len(q) + Len(p)
      /\ \A i \in 1 .. Len(q) + Len(p) :
           (q \o p)[i] = IF i <= Len(q) THEN q[i] ELSE p[i - Len(q)]
  OBVIOUS
<1>2. ASSUME NEW x PROVE In(q \o p, x) <=> In(q, x) \/ In(p, x)
  <2>1. In(q, x) => In(q \o p, x)
    BY <1>1 DEF In
  <2>2. ASSUME In(p, x) PROVE In(q \o p, x)
    <3>1. PICK i \in 1 .. Len(p) : p[i] = x
      BY <2>2 DEF In
    <3>2. /\ Len(q) + i \in 1 .. Len(q) + Len(p)
          /\ (q \o p)[Len(q) + i] = x
      BY <3>1, <1>1
    <3> QED BY <3>2, <1>1 DEF In
  <2>3. In(q \o p, x) => In(q, x) \/ In(p, x)
    BY <1>1 DEF In
  <2> QED BY <2>1, <2>2, <2>3
<1>3. ASSUME NoDuplicates(q), NoDuplicates(p), \A x : ~(In(q, x) /\ In(p, x)),
             NEW i \in 1 .. Len(q \o p), NEW j \in 1 .. Len(q \o p),
             (q \o p)[i] = (q \o p)[j]
      PROVE  i = j
  <2>1. CASE i <= Len(q) /\ j <= Len(q)
    BY <1>1, <1>3, <2>1 DEF NoDuplicates
  <2>2. CASE i > Len(q) /\ j > Len(q)
    <3>1. /\ i - Len(q) \in 1 .. Len(p) /\ j - Len(q) \in 1 .. Len(p)
          /\ p[i - Len(q)] = p[j - Len(q)]
      BY <1>1, <1>3, <2>2
    <3>2. i - Len(q) = j - Len(q)
      BY <3>1, <1>3 DEF NoDuplicates
    <3> QED BY <3>2, <1>1
  <2>3. CASE i <= Len(q) /\ j > Len(q)
    <3>1. In(q, q[i]) /\ In(p, p[j - Len(q)]) /\ q[i] = p[j - Len(q)]
      BY <1>1, <1>3, <2>3 DEF In
    <3> QED BY <3>1, <1>3
  <2>4. CASE i > Len(q) /\ j <= Len(q)
    <3>1. In(q, q[j]) /\ In(p, p[i - Len(q)]) /\ q[j] = p[i - Len(q)]
      BY <1>1, <1>3, <2>4 DEF In
    <3> QED BY <3>1, <1>3
  <2> QED BY <2>1, <2>2, <2>3, <2>4, <1>1
<1> QED BY <1>1, <1>2, <1>3 DEF NoDuplicates
=============================================================================
