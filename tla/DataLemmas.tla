------------------------------ MODULE DataLemmas ------------------------------
(***************************************************************************)
(* Facts about the data of the models, for the proofs about their          *)
(* components: what push, pop and erase do to a queue and to those that    *)
(* wait in it, the least element of a set of natural numbers, and how the  *)
(* sum of a function over a finite set changes when the function does.     *)
(***************************************************************************)
EXTENDS WaitQueue, SequencesExt, SequenceTheorems, FiniteSetTheorems, WellFoundedInduction,
        Integers, TLAPS

(* An empty queue has no elements.                                         *)
LEMMA ToSetEmpty == ToSet(<<>>) = {}
  BY DEF ToSet

(* A queue's elements are of the queue's type.                             *)
LEMMA ToSetType ==
  ASSUME NEW S, NEW s \in Seq(S)
  PROVE  ToSet(s) \subseteq S
  BY DEF ToSet

(* push() adds one element at the end.                                     *)
LEMMA ToSetAppend ==
  ASSUME NEW S, NEW s \in Seq(S), NEW e \in S
  PROVE  /\ Append(s, e) \in Seq(S)
         /\ ToSet(Append(s, e)) = ToSet(s) \cup {e}
<1>1. /\ Append(s, e) \in Seq(S) /\ Len(Append(s, e)) = Len(s) + 1 /\ Len(s) \in Nat
      /\ DOMAIN Append(s, e) = 1..(Len(s) + 1) /\ DOMAIN s = 1..Len(s)
  OBVIOUS
<1>2. ToSet(Append(s, e)) \subseteq ToSet(s) \cup {e}
  BY <1>1 DEF ToSet
<1>3. ToSet(s) \cup {e} \subseteq ToSet(Append(s, e))
  <2>1. ASSUME NEW i \in DOMAIN s PROVE s[i] = Append(s, e)[i] /\ i \in DOMAIN Append(s, e)
    BY <1>1
  <2>2. e = Append(s, e)[Len(s) + 1] /\ Len(s) + 1 \in DOMAIN Append(s, e)
    BY <1>1
  <2> QED BY <2>1, <2>2 DEF ToSet
<1> QED BY <1>1, <1>2, <1>3

(* front() and pop() split off the first element.                          *)
LEMMA ToSetTail ==
  ASSUME NEW S, NEW s \in Seq(S), s # <<>>
  PROVE  /\ Tail(s) \in Seq(S)
         /\ Head(s) \in S
         /\ ToSet(s) = ToSet(Tail(s)) \cup {Head(s)}
<1>1. /\ Tail(s) \in Seq(S) /\ Head(s) \in S
      /\ Len(s) \in Nat \ {0} /\ DOMAIN s = 1..Len(s) /\ DOMAIN Tail(s) = 1..(Len(s) - 1)
      /\ Head(s) = s[1]
      /\ \A i \in 1..(Len(s) - 1) : Tail(s)[i] = s[i+1]
  OBVIOUS
<1>2. ASSUME NEW e \in ToSet(s), e # Head(s) PROVE e \in ToSet(Tail(s))
  <2>1. PICK i \in DOMAIN s : e = s[i]
    BY DEF ToSet
  <2>2. i \in 2..Len(s)
    BY <1>1, <1>2, <2>1
  <2>3. i - 1 \in DOMAIN Tail(s) /\ Tail(s)[i - 1] = s[(i - 1) + 1] /\ (i - 1) + 1 = i
    BY <1>1, <2>2
  <2> QED BY <2>1, <2>3 DEF ToSet
<1>3. ASSUME NEW e \in ToSet(Tail(s)) PROVE e \in ToSet(s)
  <2>1. PICK i \in DOMAIN Tail(s) : e = Tail(s)[i]
    BY DEF ToSet
  <2>2. i + 1 \in DOMAIN s /\ e = s[i + 1]
    BY <1>1, <2>1
  <2> QED BY <2>2 DEF ToSet
<1>4. Head(s) \in ToSet(s)
  <2>1. 1 \in DOMAIN s
    BY <1>1
  <2> QED BY <1>1, <2>1 DEF ToSet
<1> QED BY <1>1, <1>2, <1>3, <1>4

(* push() of an element that is not in the queue keeps it free of          *)
(* duplicates.                                                             *)
LEMMA InjectiveAppend ==
  ASSUME NEW S, NEW s \in Seq(S), NEW e \in S, IsInjective(s), e \notin ToSet(s)
  PROVE  IsInjective(Append(s, e))
<1>1. /\ Len(s) \in Nat /\ DOMAIN s = 1..Len(s) /\ DOMAIN Append(s, e) = 1..(Len(s) + 1)
      /\ \A i \in 1..Len(s) : Append(s, e)[i] = s[i]
      /\ Append(s, e)[Len(s) + 1] = e
  OBVIOUS
<1>2. \A i \in DOMAIN s : s[i] # e
  BY DEF ToSet
<1>3. \A i, j \in DOMAIN s : s[i] = s[j] => i = j
  BY DEF IsInjective
<1> QED BY <1>1, <1>2, <1>3 DEF IsInjective

(* pop() keeps it free of duplicates, and the element that left is gone.   *)
LEMMA InjectiveTail ==
  ASSUME NEW S, NEW s \in Seq(S), s # <<>>, IsInjective(s)
  PROVE  IsInjective(Tail(s)) /\ Head(s) \notin ToSet(Tail(s))
<1>1. /\ Len(s) \in Nat \ {0} /\ DOMAIN s = 1..Len(s) /\ DOMAIN Tail(s) = 1..(Len(s) - 1)
      /\ Head(s) = s[1]
      /\ \A i \in 1..(Len(s) - 1) : Tail(s)[i] = s[i+1]
  OBVIOUS
<1>2. \A i, j \in DOMAIN s : s[i] = s[j] => i = j
  BY DEF IsInjective
<1>3. IsInjective(Tail(s))
  BY <1>1, <1>2 DEF IsInjective
<1>4. \A i \in DOMAIN Tail(s) : Tail(s)[i] # Head(s)
  BY <1>1, <1>2
<1> QED BY <1>3, <1>4 DEF ToSet

(* back() and pop_back() split off the last element.                       *)
LEMMA ToSetFront ==
  ASSUME NEW S, NEW s \in Seq(S), s # <<>>
  PROVE  /\ Front(s) \in Seq(S) /\ Len(Front(s)) = Len(s) - 1
         /\ Last(s) \in S
         /\ ToSet(s) = ToSet(Front(s)) \cup {Last(s)}
         /\ IsInjective(s) => IsInjective(Front(s)) /\ Last(s) \notin ToSet(Front(s))
<1> DEFINE f == Front(s)
<1>1. /\ Len(s) \in Nat \ {0} /\ DOMAIN s = 1..Len(s)
      /\ \A i \in 1..Len(s) : s[i] \in S
  OBVIOUS
<1>2. /\ f \in Seq(S) /\ Len(f) = Len(s) - 1
      /\ \A i \in 1..(Len(s) - 1) : f[i] = s[i]
  BY <1>1 DEF Front
<1> HIDE DEF f
<1>3. DOMAIN f = 1..(Len(s) - 1)
  BY <1>2
<1>4. Last(s) = s[Len(s)]
  BY DEF Last
<1>5. ToSet(s) \subseteq ToSet(f) \cup {Last(s)}
  <2> SUFFICES ASSUME NEW i \in 1..Len(s), i # Len(s) PROVE s[i] \in ToSet(f)
    BY <1>1, <1>4 DEF ToSet
  <2> QED BY <1>1, <1>2, <1>3 DEF ToSet
<1>6. ToSet(f) \cup {Last(s)} \subseteq ToSet(s)
  BY <1>1, <1>2, <1>3, <1>4 DEF ToSet
<1>7. ASSUME IsInjective(s) PROVE IsInjective(f) /\ Last(s) \notin ToSet(f)
  <2>1. \A i, j \in 1..Len(s) : s[i] = s[j] => i = j
    BY <1>1, <1>7 DEF IsInjective
  <2>2. \A i \in DOMAIN f : f[i] # Last(s)
    BY <1>1, <1>2, <1>3, <1>4, <2>1
  <2> QED BY <1>1, <1>2, <1>3, <2>1, <2>2 DEF IsInjective, ToSet
<1> QED BY <1>1, <1>2, <1>4, <1>5, <1>6, <1>7 DEF f

(* erase() leaves the others where they are or moves them up by one.       *)
LEMMA ErasePoints ==
  ASSUME NEW S, NEW s \in Seq(S), NEW i \in 1..Len(s)
  PROVE  /\ RemoveAt(s, i) \in Seq(S) /\ Len(RemoveAt(s, i)) = Len(s) - 1
         /\ \A j \in 1..(Len(s) - 1) : RemoveAt(s, i)[j] = IF j < i THEN s[j] ELSE s[j + 1]
<1> DEFINE r == RemoveAt(s, i)
           front == SubSeq(s, 1, i - 1)
           back  == SubSeq(s, i + 1, Len(s))
<1>1. Len(s) \in Nat /\ i \in 1..Len(s)
  OBVIOUS
<1>2. /\ front \in Seq(S) /\ Len(front) = i - 1
      /\ \A j \in 1..(i - 1) : front[j] = s[j]
  BY <1>1
<1>3. /\ back \in Seq(S) /\ Len(back) = Len(s) - i
      /\ \A j \in 1..(Len(s) - i) : back[j] = s[i + j]
  BY <1>1
<1>4. r = front \o back
  BY DEF RemoveAt
<1> HIDE DEF front, back, r
<1>5. r \in Seq(S) /\ Len(r) = Len(front) + Len(back)
  BY <1>2, <1>3, <1>4, ConcatProperties
<1>6. \A j \in 1..Len(r) :
        r[j] = IF j <= Len(front) THEN front[j] ELSE back[j - Len(front)]
  BY <1>2, <1>3, <1>4, ConcatProperties
<1>7. ASSUME NEW j \in 1..(Len(s) - 1)
      PROVE  r[j] = IF j < i THEN s[j] ELSE s[j + 1]
  <2>0. /\ j \in 1..Len(r)
        /\ r[j] = IF j <= Len(front) THEN front[j] ELSE back[j - Len(front)]
    BY <1>1, <1>2, <1>3, <1>5, <1>6
  <2>1. CASE j < i
    BY <1>1, <1>2, <2>0, <2>1
  <2>2. CASE j >= i
    <3>1. /\ j - Len(front) \in 1..(Len(s) - i) /\ i + (j - Len(front)) = j + 1
          /\ ~(j <= Len(front))
      BY <1>1, <1>2, <2>2
    <3>2. r[j] = back[j - Len(front)]
      BY <2>0, <3>1
    <3>3. back[j - Len(front)] = s[j + 1]
      BY <1>3, <3>1
    <3> QED BY <1>1, <2>2, <3>2, <3>3
  <2> QED BY <1>1, <2>1, <2>2
<1> QED BY <1>1, <1>2, <1>3, <1>5, <1>7 DEF r

(* erase() of the last element, and of an earlier one, of a longer queue.  *)
LEMMA EraseAppended ==
  ASSUME NEW S, NEW s \in Seq(S), NEW e \in S
  PROVE  /\ Len(s) + 1 \in 1..Len(Append(s, e)) /\ Append(s, e)[Len(s) + 1] = e
         /\ RemoveAt(Append(s, e), Len(s) + 1) = s
         /\ \A i \in 1..Len(s) :
              /\ i \in 1..Len(Append(s, e)) /\ Append(s, e)[i] = s[i]
              /\ RemoveAt(Append(s, e), i) = Append(RemoveAt(s, i), e)
<1> DEFINE t == Append(s, e)
<1>1. /\ Len(s) \in Nat /\ t \in Seq(S) /\ Len(t) = Len(s) + 1 /\ t[Len(s) + 1] = e
      /\ \A j \in 1..Len(s) : t[j] = s[j]
  OBVIOUS
<1> HIDE DEF t
<1>2. \A i \in 1..Len(t) :
        /\ RemoveAt(t, i) \in Seq(S) /\ Len(RemoveAt(t, i)) = Len(s)
        /\ \A j \in 1..Len(s) : RemoveAt(t, i)[j] = IF j < i THEN t[j] ELSE t[j + 1]
  <2> SUFFICES ASSUME NEW i \in 1..Len(t)
               PROVE  /\ RemoveAt(t, i) \in Seq(S) /\ Len(RemoveAt(t, i)) = Len(s)
                      /\ \A j \in 1..Len(s) : RemoveAt(t, i)[j] = IF j < i THEN t[j] ELSE t[j + 1]
    OBVIOUS
  <2>1. /\ RemoveAt(t, i) \in Seq(S) /\ Len(RemoveAt(t, i)) = Len(t) - 1
        /\ \A j \in 1..(Len(t) - 1) : RemoveAt(t, i)[j] = IF j < i THEN t[j] ELSE t[j + 1]
    BY <1>1, ErasePoints
  <2> QED BY <1>1, <2>1
<1>3. Len(s) + 1 \in 1..Len(t) /\ \A i \in 1..Len(s) : i \in 1..Len(t)
  BY <1>1
<1>4. RemoveAt(t, Len(s) + 1) = s
  <2> DEFINE r == RemoveAt(t, Len(s) + 1)
  <2>1. r \in Seq(S) /\ Len(r) = Len(s) /\ \A j \in 1..Len(s) : r[j] = s[j]
    BY <1>1, <1>2, <1>3
  <2> HIDE DEF r
  <2>2. r = s
    BY <1>1, <2>1, SeqEqual
  <2> QED BY <2>2 DEF r
<1>5. ASSUME NEW i \in 1..Len(s)
      PROVE  RemoveAt(t, i) = Append(RemoveAt(s, i), e)
  <2> DEFINE r == RemoveAt(t, i)
             u == RemoveAt(s, i)
             v == Append(u, e)
  <2>1. /\ r \in Seq(S) /\ Len(r) = Len(s)
        /\ \A j \in 1..Len(s) : r[j] = IF j < i THEN t[j] ELSE t[j + 1]
    BY <1>2, <1>3
  <2>2. /\ u \in Seq(S) /\ Len(u) = Len(s) - 1
        /\ \A j \in 1..(Len(s) - 1) : u[j] = IF j < i THEN s[j] ELSE s[j + 1]
    BY ErasePoints
  <2> HIDE DEF r, u
  <2>3. /\ v \in Seq(S) /\ Len(v) = Len(s) /\ v[Len(s)] = e
        /\ \A j \in 1..(Len(s) - 1) : v[j] = u[j]
    BY <1>1, <2>2
  <2> HIDE DEF v
  <2>4. ASSUME NEW j \in 1..Len(s) PROVE r[j] = v[j]
    <3>1. CASE j = Len(s)
      BY <1>1, <2>1, <2>3, <3>1
    <3>2. CASE j \in 1..(Len(s) - 1)
      <4>1. j + 1 \in 1..Len(s) /\ j \in 1..Len(s)
        BY <1>1, <3>2
      <4> QED BY <1>1, <2>1, <2>2, <2>3, <3>2, <4>1
    <3> QED BY <1>1, <3>1, <3>2
  <2>5. r = v
    BY <2>1, <2>3, <2>4, SeqEqual
  <2> QED BY <2>5 DEF r, u, v
<1> QED BY <1>1, <1>3, <1>4, <1>5 DEF t

(* erase(): without the element at one position.                           *)
LEMMA EraseIsSubqueue ==
  ASSUME NEW S, NEW s \in Seq(S), NEW i \in DOMAIN s, IsInjective(s)
  PROVE  /\ RemoveAt(s, i) \in Seq(S)
         /\ IsInjective(RemoveAt(s, i))
         /\ ToSet(RemoveAt(s, i)) = ToSet(s) \ {s[i]}
<1> DEFINE r == RemoveAt(s, i)
<1>1. /\ Len(s) \in Nat /\ DOMAIN s = 1..Len(s) /\ i \in 1..Len(s)
      /\ \A j \in DOMAIN s : s[j] \in S
  OBVIOUS
<1>4. /\ r \in Seq(S) /\ Len(r) = Len(s) - 1 /\ DOMAIN r = 1..(Len(s) - 1)
      /\ \A j \in 1..(Len(s) - 1) : r[j] = IF j < i THEN s[j] ELSE s[j + 1]
  <2>1. /\ r \in Seq(S) /\ Len(r) = Len(s) - 1
        /\ \A j \in 1..(Len(s) - 1) : r[j] = IF j < i THEN s[j] ELSE s[j + 1]
    BY <1>1, ErasePoints
  <2> HIDE DEF r
  <2> QED BY <1>1, <2>1
<1> HIDE DEF r
<1>5. \A j, k \in DOMAIN s : s[j] = s[k] => j = k
  BY DEF IsInjective
<1>6. IsInjective(r)
  <2> DEFINE at(j) == IF j < i THEN j ELSE j + 1
  <2>1. ASSUME NEW j \in DOMAIN r PROVE at(j) \in DOMAIN s /\ r[j] = s[at(j)]
    BY <1>1, <1>4
  <2>2. ASSUME NEW j \in DOMAIN r, NEW k \in DOMAIN r, at(j) = at(k) PROVE j = k
    BY <1>1, <1>4, <2>2
  <2> HIDE DEF at
  <2>3. ASSUME NEW j \in DOMAIN r, NEW k \in DOMAIN r, r[j] = r[k] PROVE j = k
    <3>1. at(j) = at(k)
      BY <1>5, <2>1, <2>3
    <3> QED BY <2>2, <3>1
  <2> QED BY <2>3 DEF IsInjective
<1>7. ASSUME NEW e \in ToSet(r) PROVE e \in ToSet(s) \ {s[i]}
  <2>1. PICK j \in DOMAIN r : e = r[j]
    BY <1>7 DEF ToSet
  <2>2. PICK k \in DOMAIN s : k # i /\ e = s[k]
    BY <1>1, <1>4, <2>1
  <2> QED BY <1>5, <2>2 DEF ToSet
<1>8. ASSUME NEW e \in ToSet(s) \ {s[i]} PROVE e \in ToSet(r)
  <2>1. PICK j \in DOMAIN s : e = s[j] /\ j # i
    BY <1>8 DEF ToSet
  <2>2. CASE j < i
    BY <1>1, <1>4, <2>1, <2>2 DEF ToSet
  <2>3. CASE j > i
    <3>1. j - 1 \in DOMAIN r /\ r[j - 1] = s[j]
      BY <1>1, <1>4, <2>1, <2>3
    <3> QED BY <2>1, <3>1 DEF ToSet
  <2> QED BY <1>1, <2>1, <2>2, <2>3
<1> QED BY <1>4, <1>6, <1>7, <1>8 DEF r

(* An element put in front of a queue.                                     *)
LEMMA ToSetPrepend ==
  ASSUME NEW S, NEW s \in Seq(S), NEW e \in S
  PROVE  /\ <<e>> \o s \in Seq(S)
         /\ ToSet(<<e>> \o s) = ToSet(s) \cup {e}
         /\ IsInjective(s) /\ e \notin ToSet(s) => IsInjective(<<e>> \o s)
<1> DEFINE u == <<e>> \o s
<1>1. /\ u \in Seq(S) /\ DOMAIN u = 1..(Len(s) + 1) /\ DOMAIN s = 1..Len(s)
      /\ Len(s) \in Nat /\ u[1] = e
      /\ \A i \in 2..(Len(s) + 1) : u[i] = s[i - 1]
  OBVIOUS
<1> HIDE DEF u
<1>2. ToSet(u) = ToSet(s) \cup {e}
  <2>1. ASSUME NEW i \in DOMAIN u PROVE u[i] \in ToSet(s) \cup {e}
    <3>1. CASE i = 1
      BY <1>1, <3>1
    <3>2. CASE i # 1
      <4>1. i \in 2..(Len(s) + 1) /\ i - 1 \in DOMAIN s
        BY <1>1, <2>1, <3>2
      <4> QED BY <1>1, <4>1 DEF ToSet
    <3> QED BY <3>1, <3>2
  <2>2. ASSUME NEW i \in DOMAIN s PROVE s[i] \in ToSet(u)
    <3>1. i + 1 \in 2..(Len(s) + 1) /\ i + 1 \in DOMAIN u /\ (i + 1) - 1 = i
      BY <1>1, <2>2
    <3>2. u[i + 1] = s[i]
      BY <1>1, <3>1
    <3> QED BY <3>1, <3>2 DEF ToSet
  <2>3. e \in ToSet(u)
    <3>1. 1 \in DOMAIN u
      BY <1>1
    <3> QED BY <1>1, <3>1 DEF ToSet
  <2> QED BY <2>1, <2>2, <2>3 DEF ToSet
<1>3. ASSUME IsInjective(s), e \notin ToSet(s) PROVE IsInjective(u)
  <2>1. ASSUME NEW i \in DOMAIN u, NEW j \in DOMAIN u, u[i] = u[j] PROVE i = j
    <3>1. ASSUME NEW k \in 2..(Len(s) + 1)
          PROVE  k - 1 \in DOMAIN s /\ u[k] = s[k - 1] /\ u[k] # e
      <4>1. k - 1 \in 1..Len(s)
        BY <1>1
      <4>2. k - 1 \in DOMAIN s /\ u[k] = s[k - 1]
        BY <1>1, <4>1
      <4>3. u[k] \in ToSet(s)
        BY <4>2 DEF ToSet
      <4> QED BY <1>3, <4>2, <4>3
    <3>2. CASE i = 1 \/ j = 1
      <4>1. u[1] = e
        BY <1>1
      <4>2. ASSUME NEW k \in DOMAIN u, k # 1 PROVE u[k] # e
        <5>1. k \in 2..(Len(s) + 1)
          BY <1>1, <4>2
        <5> QED BY <3>1, <5>1
      <4> QED BY <2>1, <3>2, <4>1, <4>2
    <3>3. CASE i # 1 /\ j # 1
      <4>1. i \in 2..(Len(s) + 1) /\ j \in 2..(Len(s) + 1)
        BY <1>1, <2>1, <3>3
      <4>2. s[i - 1] = s[j - 1] /\ i - 1 \in DOMAIN s /\ j - 1 \in DOMAIN s
        BY <1>1, <2>1, <3>1, <4>1
      <4>3. i - 1 = j - 1
        BY <1>3, <4>2 DEF IsInjective
      <4> QED BY <4>1, <4>3
    <3> QED BY <3>2, <3>3
  <2> QED BY <2>1 DEF IsInjective
<1> QED BY <1>1, <1>2, <1>3 DEF u

-----------------------------------------------------------------------------
(* Two queues one after the other hold what either holds.                  *)
LEMMA ToSetConcat ==
  ASSUME NEW S, NEW s \in Seq(S), NEW t \in Seq(S)
  PROVE  s \o t \in Seq(S) /\ ToSet(s \o t) = ToSet(s) \cup ToSet(t)
<1>1. /\ Len(s) \in Nat /\ DOMAIN s = 1..Len(s) /\ Len(t) \in Nat /\ DOMAIN t = 1..Len(t)
      /\ s \o t \in Seq(S) /\ DOMAIN (s \o t) = 1..(Len(s) + Len(t))
      /\ \A i \in 1..(Len(s) + Len(t)) :
           (s \o t)[i] = IF i <= Len(s) THEN s[i] ELSE t[i - Len(s)]
  BY ConcatProperties, LenProperties
<1> DEFINE u == s \o t
<1> HIDE DEF u
<1>2. ASSUME NEW e \in ToSet(u) PROVE e \in ToSet(s) \cup ToSet(t)
  <2>1. PICK i \in DOMAIN u : e = u[i]
    BY DEF ToSet
  <2>2. CASE i <= Len(s)
    <3>1. i \in DOMAIN s /\ e = s[i]
      BY <1>1, <2>1, <2>2 DEF u
    <3> QED BY <3>1 DEF ToSet
  <2>3. CASE ~(i <= Len(s))
    <3>1. i - Len(s) \in DOMAIN t /\ e = t[i - Len(s)]
      BY <1>1, <2>1, <2>3 DEF u
    <3> QED BY <3>1 DEF ToSet
  <2> QED BY <2>2, <2>3
<1>3. ASSUME NEW e \in ToSet(s) PROVE e \in ToSet(u)
  <2>1. PICK i \in DOMAIN s : e = s[i]
    BY DEF ToSet
  <2>2. i \in DOMAIN u /\ u[i] = e
    BY <1>1, <2>1 DEF u
  <2> QED BY <2>2 DEF ToSet
<1>4. ASSUME NEW e \in ToSet(t) PROVE e \in ToSet(u)
  <2>1. PICK i \in DOMAIN t : e = t[i]
    BY DEF ToSet
  <2>2. i + Len(s) \in DOMAIN u /\ u[i + Len(s)] = t[(i + Len(s)) - Len(s)]
        /\ (i + Len(s)) - Len(s) = i
    BY <1>1, <2>1 DEF u
  <2> QED BY <2>1, <2>2 DEF ToSet
<1> QED BY <1>1, <1>2, <1>3, <1>4 DEF u

(* push() on the second of two queues is a push() on both.                 *)
LEMMA ConcatAppend ==
  ASSUME NEW S, NEW s \in Seq(S), NEW t \in Seq(S), NEW e \in S
  PROVE  s \o Append(t, e) = Append(s \o t, e)
  OBVIOUS

(* push() of at most one element.                                          *)
LEMMA PushAtMostOne ==
  ASSUME NEW S, NEW s \in Seq(S), NEW T, NEW t,
         (T = {} /\ t = <<>>) \/ (\E e \in S : T = {e} /\ t = <<e>>)
  PROVE  /\ t \in Seq(S) /\ s \o t \in Seq(S)
         /\ ToSet(s \o t) = ToSet(s) \cup T
         /\ IsInjective(s) /\ T \cap ToSet(s) = {} => IsInjective(s \o t)
<1>1. ASSUME NEW e \in S, T = {e}, t = <<e>>
      PROVE  /\ t \in Seq(S) /\ s \o t \in Seq(S)
             /\ ToSet(s \o t) = ToSet(s) \cup T
             /\ IsInjective(s) /\ T \cap ToSet(s) = {} => IsInjective(s \o t)
  <2>1. s \o t = Append(s, e) /\ t \in Seq(S)
    BY <1>1, AppendIsConcat
  <2>2. IsInjective(s) /\ e \notin ToSet(s) => IsInjective(Append(s, e))
    BY InjectiveAppend
  <2>3. Append(s, e) \in Seq(S) /\ ToSet(Append(s, e)) = ToSet(s) \cup {e}
    BY ToSetAppend
  <2> QED BY <1>1, <2>1, <2>2, <2>3
<1>2. CASE T = {} /\ t = <<>>
  <2>1. s \o t = s /\ t \in Seq(S)
    BY <1>2, ConcatEmptySeq
  <2> QED BY <1>2, <2>1
<1> QED BY <1>1, <1>2

(* Two lists at the end of a queue's second part are at its end.           *)
LEMMA ConcatThree ==
  ASSUME NEW S, NEW q \in Seq(S), NEW r \in Seq(S), NEW a \in Seq(S), NEW b \in Seq(S)
  PROVE  /\ (r \o a) \o b \in Seq(S)
         /\ q \o ((r \o a) \o b) = ((q \o r) \o a) \o b
<1>1. r \o a \in Seq(S) /\ (r \o a) \o b \in Seq(S)
  BY ConcatProperties
<1>2. (q \o r) \o a = q \o (r \o a)
  BY ConcatAssociative
<1>3. ASSUME NEW t \in Seq(S) PROVE (q \o t) \o b = q \o (t \o b)
  BY ConcatAssociative, SMTT(60)
<1>4. (q \o (r \o a)) \o b = q \o ((r \o a) \o b)
  BY <1>1, <1>3
<1> QED BY <1>1, <1>2, <1>4

(* pop() on the first of two queues is a pop() on both.                    *)
LEMMA ConcatTail ==
  ASSUME NEW S, NEW s \in Seq(S), NEW t \in Seq(S), s # <<>>
  PROVE  /\ s \o t # <<>> /\ Head(s \o t) = Head(s)
         /\ Tail(s) \o t = Tail(s \o t)
  OBVIOUS

-----------------------------------------------------------------------------
(* Every set of natural numbers has a least element.                       *)
LEMMA LeastNatural ==
  ASSUME NEW T \in SUBSET Nat, T # {}
  PROVE  \E x \in T : \A y \in T : x <= y
<1> DEFINE R == {ss \in Nat \X Nat : ss[1] < ss[2]}
<1>1. IsWellFoundedOn(R, Nat)
  BY NatLessThanWellFounded DEF OpToRel
<1>2. \A x, y \in Nat : <<y, x>> \in R <=> y < x
  OBVIOUS
<1> HIDE DEF R
<1>3. PICK x \in T : \A y \in T : ~ (<<y, x>> \in R)
  BY <1>1, WFMin
<1>4. ASSUME NEW y \in T PROVE x <= y
  <2>1. x \in Nat /\ y \in Nat
    OBVIOUS
  <2>2. ~(y < x)
    BY <1>2, <1>3, <2>1
  <2> QED BY <2>1, <2>2
<1> QED BY <1>4

(* Min returns it.                                                         *)
LEMMA MinIsLeast ==
  ASSUME NEW T \in SUBSET Nat, T # {}
  PROVE  Min(T) \in T /\ \A y \in T : Min(T) <= y
  BY LeastNatural DEF Min

-----------------------------------------------------------------------------
(* F[i] is what remains of the first i elements of q.                      *)
Remains(F, q, gone, name) ==
  /\ F[0] = <<>>
  /\ \A i \in 1..Len(q) :
       F[i] = IF gone[q[i]] THEN F[i - 1] ELSE Append(F[i - 1], name[q[i]])

(* The recursion that Remaining is defined by                              *)
RemainsRecursion(F, q, gone, name) ==
  F = [i \in 0..Len(q) |->
         IF i = 0 THEN <<>>
         ELSE IF gone[q[i]] THEN F[i - 1] ELSE Append(F[i - 1], name[q[i]])]

(* has such a function.                                                    *)
LEMMA RemainsExists ==
  ASSUME NEW S, NEW q \in Seq(S), NEW gone, NEW name
  PROVE  \E F : RemainsRecursion(F, q, gone, name)
<1> DEFINE Step(F, i) == IF gone[q[i]] THEN F[i - 1] ELSE Append(F[i - 1], name[q[i]])
           Upto(F, n) == /\ F = [i \in 0..n |-> F[i]] /\ F[0] = <<>>
                         /\ \A i \in 1..n : F[i] = Step(F, i)
           Bad == {n \in 0..Len(q) : ~\E F : Upto(F, n)}
<1>1. Len(q) \in Nat
  OBVIOUS
<1>2. Bad = {}
  <2> SUFFICES ASSUME Bad # {} PROVE FALSE
    OBVIOUS
  <2>1. PICK n \in Bad : \A m \in Bad : n <= m
    <3>1. Bad \in SUBSET Nat
      BY <1>1
    <3> HIDE DEF Bad
    <3> QED BY <3>1, LeastNatural
  <2>2. n \in 0..Len(q) /\ ~\E F : Upto(F, n)
    OBVIOUS
  <2>3. n # 0
    <3>1. Upto([i \in 0..0 |-> <<>>], 0)
      OBVIOUS
    <3> QED BY <2>2, <3>1
  <2>4. n - 1 \in 0..Len(q) /\ ~(n <= n - 1)
    BY <2>3
  <2>5. n - 1 \notin Bad
    BY <2>1
  <2>6. PICK F : Upto(F, n - 1)
    BY <2>4, <2>5
  <2> DEFINE G == [i \in 0..n |-> IF i = n THEN Step(F, n) ELSE F[i]]
  <2>7. Upto(G, n)
    <3>1. n \in Nat /\ n # 0
      BY <2>3
    <3>2. G = [i \in 0..n |-> G[i]]
      OBVIOUS
    <3>3. G[0] = <<>>
      BY <2>6, <3>1
    <3>4. ASSUME NEW i \in 1..n PROVE G[i] = Step(G, i)
      <4>1. i \in 0..n /\ i - 1 \in 0..n /\ i - 1 # n
        BY <3>1
      <4>2. G[i - 1] = F[i - 1]
        BY <4>1
      <4>3. CASE i = n
        BY <4>3
      <4>4. CASE i # n
        <5>1. i \in 1..(n - 1)
          BY <4>4
        <5>2. F[i] = Step(F, i)
          BY <2>6, <5>1
        <5> QED BY <5>2
      <4> QED BY <4>3, <4>4
    <3> QED BY <3>3, <3>4
  <2> QED BY <2>7
<1>3. PICK F : Upto(F, Len(q))
  BY <1>2
<1>4. F = [i \in 0..Len(q) |-> IF i = 0 THEN <<>> ELSE Step(F, i)]
  <2>1. F = [i \in 0..Len(q) |-> F[i]]
    BY <1>3
  <2>2. ASSUME NEW i \in 0..Len(q) PROVE F[i] = IF i = 0 THEN <<>> ELSE Step(F, i)
    <3>1. i # 0 => i \in 1..Len(q)
      BY <1>1
    <3> QED BY <1>3, <3>1
  <2> HIDE DEF Step, Upto
  <2> QED BY <2>1, <2>2
<1> QED BY <1>4 DEF RemainsRecursion

(* What remains of a queue is built up from the front.                     *)
LEMMA RemainingBuilt ==
  ASSUME NEW S, NEW q \in Seq(S), NEW gone, NEW name
  PROVE  \E F : Remains(F, q, gone, name) /\ Remaining(q, gone, name) = F[Len(q)]
<1> DEFINE F == CHOOSE F : F = [i \in 0..Len(q) |->
                  IF i = 0 THEN <<>>
                  ELSE IF gone[q[i]] THEN F[i - 1] ELSE Append(F[i - 1], name[q[i]])]
<1>1. Remaining(q, gone, name) = F[Len(q)]
  BY DEF Remaining
<1>2. RemainsRecursion(F, q, gone, name)
  <2>1. \E G : RemainsRecursion(G, q, gone, name)
    BY RemainsExists
  <2> QED BY <2>1 DEF RemainsRecursion
<1> HIDE DEF F
<1>3. Len(q) \in Nat
  OBVIOUS
<1>4. F[0] = <<>>
  BY <1>2, <1>3 DEF RemainsRecursion
<1>5. ASSUME NEW i \in 1..Len(q)
      PROVE  F[i] = IF gone[q[i]] THEN F[i - 1] ELSE Append(F[i - 1], name[q[i]])
  <2>1. i \in 0..Len(q) /\ i # 0
    BY <1>3
  <2> QED BY <1>2, <2>1 DEF RemainsRecursion
<1>6. Remains(F, q, gone, name)
  BY <1>4, <1>5 DEF Remains
<1> QED BY <1>1, <1>6

(* Of an empty queue nothing remains.                                      *)
LEMMA NothingRemains ==
  ASSUME NEW gone, NEW name
  PROVE  Remaining(<<>>, gone, name) = <<>>
<1>1. <<>> \in Seq({}) /\ Len(<<>>) = 0
  OBVIOUS
<1>2. PICK F : Remains(F, <<>>, gone, name) /\ Remaining(<<>>, gone, name) = F[0]
  BY <1>1, RemainingBuilt
<1> QED BY <1>2 DEF Remains

(* Two queues that agree on their first elements leave the same of them.   *)
LEMMA RemainsAgree ==
  ASSUME NEW S, NEW q \in Seq(S), NEW r \in Seq(S), NEW k \in 0..Len(q), k <= Len(r),
         NEW f, NEW g, NEW m, NEW n, NEW F, NEW G,
         Remains(F, q, f, m), Remains(G, r, g, n),
         \A i \in 1..k : /\ q[i] = r[i] /\ (f[q[i]] <=> g[q[i]])
                         /\ ~f[q[i]] => m[q[i]] = n[q[i]]
  PROVE  F[k] = G[k]
<1> DEFINE Bad == {i \in 0..k : F[i] # G[i]}
<1>1. Len(q) \in Nat /\ Len(r) \in Nat
  OBVIOUS
<1>2. F[0] = G[0]
  BY DEF Remains
<1>3. \A i \in 1..k : /\ F[i] = IF f[q[i]] THEN F[i - 1] ELSE Append(F[i - 1], m[q[i]])
                      /\ G[i] = IF g[r[i]] THEN G[i - 1] ELSE Append(G[i - 1], n[r[i]])
  BY <1>1 DEF Remains
<1> SUFFICES ASSUME F[k] # G[k] PROVE FALSE
  OBVIOUS
<1>4. Bad \in SUBSET Nat /\ Bad # {}
  BY <1>1
<1>5. PICK i \in Bad : \A j \in Bad : i <= j
  <2> HIDE DEF Bad
  <2> QED BY <1>4, LeastNatural
<1>6. i \in 1..k /\ F[i] # G[i]
  BY <1>1, <1>2
<1>7. F[i - 1] = G[i - 1]
  <2>1. i - 1 \in 0..k /\ ~(i <= i - 1)
    BY <1>1, <1>6
  <2> QED BY <1>5, <2>1
<1> HIDE DEF Bad
<1> QED BY <1>3, <1>6, <1>7

(* Changes to what is not in the queue, or to the name of what is gone,    *)
(* change nothing.                                                         *)
LEMMA RemainingSame ==
  ASSUME NEW S, NEW q \in Seq(S), NEW f, NEW g, NEW m, NEW n,
         \A w \in ToSet(q) : (f[w] <=> g[w]) /\ (~f[w] => m[w] = n[w])
  PROVE  Remaining(q, f, m) = Remaining(q, g, n)
<1>1. PICK F : Remains(F, q, f, m) /\ Remaining(q, f, m) = F[Len(q)]
  BY RemainingBuilt
<1>2. PICK G : Remains(G, q, g, n) /\ Remaining(q, g, n) = G[Len(q)]
  BY RemainingBuilt
<1>3. Len(q) \in 0..Len(q) /\ Len(q) <= Len(q) /\ \A i \in 1..Len(q) : q[i] \in ToSet(q)
  BY DEF ToSet
<1>4. F[Len(q)] = G[Len(q)]
  BY <1>1, <1>2, <1>3, RemainsAgree
<1> QED BY <1>1, <1>2, <1>4

(* push() adds a name at the end.                                          *)
LEMMA RemainingAppend ==
  ASSUME NEW S, NEW q \in Seq(S), NEW e \in S, NEW gone, NEW name
  PROVE  Remaining(Append(q, e), gone, name) =
           IF gone[e] THEN Remaining(q, gone, name)
                      ELSE Append(Remaining(q, gone, name), name[e])
<1> DEFINE r == Append(q, e)
<1>1. /\ Len(q) \in Nat /\ r \in Seq(S) /\ Len(r) = Len(q) + 1
      /\ r[Len(r)] = e /\ \A i \in 1..Len(q) : q[i] = r[i]
  OBVIOUS
<1> HIDE DEF r
<1>2. PICK F : Remains(F, q, gone, name) /\ Remaining(q, gone, name) = F[Len(q)]
  BY RemainingBuilt
<1>3. PICK G : Remains(G, r, gone, name) /\ Remaining(r, gone, name) = G[Len(r)]
  BY <1>1, RemainingBuilt
<1>4. F[Len(q)] = G[Len(q)]
  <2>1. Len(q) \in 0..Len(q) /\ Len(q) <= Len(r)
    BY <1>1
  <2> QED BY <1>1, <1>2, <1>3, <2>1, RemainsAgree
<1>5. G[Len(r)] = IF gone[e] THEN G[Len(q)] ELSE Append(G[Len(q)], name[e])
  <2>1. Len(r) \in 1..Len(r) /\ Len(r) - 1 = Len(q)
    BY <1>1
  <2> QED BY <1>1, <1>3, <2>1 DEF Remains
<1> QED BY <1>2, <1>3, <1>4, <1>5 DEF r

(* What remains are the names of those that are not gone.                  *)
LEMMA RemainingNames ==
  ASSUME NEW S, NEW q \in Seq(S), NEW gone, NEW name, NEW C,
         \A w \in ToSet(q) : ~gone[w] => name[w] \in C
  PROVE  /\ Remaining(q, gone, name) \in Seq(C)
         /\ ToSet(Remaining(q, gone, name)) = {name[w] : w \in {w \in ToSet(q) : ~gone[w]}}
<1>1. PICK F : Remains(F, q, gone, name) /\ Remaining(q, gone, name) = F[Len(q)]
  BY RemainingBuilt
<1> DEFINE Names(n) == {name[q[j]] : j \in {j \in 1..n : ~gone[q[j]]}}
           Good(n) == F[n] \in Seq(C) /\ ToSet(F[n]) = Names(n)
           Bad == {n \in 0..Len(q) : ~Good(n)}
<1>2. /\ Len(q) \in Nat /\ DOMAIN q = 1..Len(q)
      /\ \A i \in 1..Len(q) : q[i] \in ToSet(q)
  BY DEF ToSet
<1>3. Bad = {}
  <2> SUFFICES ASSUME Bad # {} PROVE FALSE
    OBVIOUS
  <2>1. PICK n \in Bad : \A m \in Bad : n <= m
    <3>1. Bad \in SUBSET Nat
      BY <1>2
    <3> HIDE DEF Bad
    <3> QED BY <3>1, LeastNatural
  <2>2. n \in 0..Len(q) /\ ~Good(n)
    OBVIOUS
  <2>3. CASE n = 0
    <3>1. F[0] = <<>> /\ Names(0) = {} /\ <<>> \in Seq(C)
      BY <1>1 DEF Remains
    <3>2. Good(0)
      BY <3>1, ToSetEmpty
    <3> QED BY <2>2, <2>3, <3>2
  <2>4. CASE n # 0
    <3>1. n \in 1..Len(q) /\ n - 1 \in 0..Len(q) /\ ~(n <= n - 1)
      BY <1>2, <2>2, <2>4
    <3>2. Good(n - 1)
      BY <2>1, <3>1
    <3>3. F[n] = IF gone[q[n]] THEN F[n - 1] ELSE Append(F[n - 1], name[q[n]])
      BY <1>1, <3>1 DEF Remains
    <3>4. Names(n) = IF gone[q[n]] THEN Names(n - 1) ELSE Names(n - 1) \cup {name[q[n]]}
      <4>1. \A j \in 1..n : j \in 1..(n - 1) \/ j = n
        BY <1>2, <3>1
      <4>2. n \in 1..n /\ \A j \in 1..(n - 1) : j \in 1..n
        BY <1>2, <3>1
      <4>3. CASE gone[q[n]]
        BY <4>1, <4>2, <4>3
      <4>4. CASE ~gone[q[n]]
        BY <4>1, <4>2, <4>4
      <4> QED BY <4>3, <4>4
    <3> HIDE DEF Names
    <3>5. CASE gone[q[n]]
      BY <2>2, <3>2, <3>3, <3>4, <3>5
    <3>6. CASE ~gone[q[n]]
      <4>1. name[q[n]] \in C /\ F[n - 1] \in Seq(C)
        BY <1>2, <3>1, <3>2, <3>6
      <4>2. F[n] \in Seq(C) /\ ToSet(F[n]) = ToSet(F[n - 1]) \cup {name[q[n]]}
        BY <3>3, <3>6, <4>1, ToSetAppend
      <4> QED BY <2>2, <3>2, <3>4, <3>6, <4>2
    <3> QED BY <3>5, <3>6
  <2> QED BY <2>3, <2>4
<1> HIDE DEF Good
<1>4. Good(Len(q))
  <2>1. Len(q) \in 0..Len(q)
    BY <1>2
  <2> QED BY <1>3, <2>1
<1>5. Names(Len(q)) = {name[w] : w \in {w \in ToSet(q) : ~gone[w]}}
  BY <1>2 DEF ToSet
<1> QED BY <1>1, <1>4, <1>5 DEF Good

(* pop() takes the first name away, unless it was gone already.            *)
LEMMA RemainingTail ==
  ASSUME NEW S, NEW q \in Seq(S), q # <<>>, NEW gone, NEW name
  PROVE  LET old == Remaining(q, gone, name)
             new == Remaining(Tail(q), gone, name)
         IN  IF gone[Head(q)] THEN new = old
             ELSE old # <<>> /\ Head(old) = name[Head(q)] /\ Tail(old) = new
<1> DEFINE C == {name[w] : w \in ToSet(q)}
           r == Tail(q)
           first == IF gone[Head(q)] THEN <<>> ELSE <<name[Head(q)]>>
<1>1. /\ Len(q) \in Nat \ {0} /\ Head(q) = q[1] /\ r \in Seq(S) /\ Len(r) = Len(q) - 1
      /\ \A i \in 1..Len(r) : r[i] = q[i + 1]
  OBVIOUS
<1>2. /\ \A i \in 1..Len(q) : q[i] \in ToSet(q)
      /\ \A w \in ToSet(q) : name[w] \in C
  BY DEF ToSet
<1> HIDE DEF r, C
<1>3. PICK F : Remains(F, q, gone, name) /\ Remaining(q, gone, name) = F[Len(q)]
  BY RemainingBuilt
<1>4. PICK G : Remains(G, r, gone, name) /\ Remaining(r, gone, name) = G[Len(r)]
  BY <1>1, RemainingBuilt
<1>5. first \in Seq(C) /\ 0..Len(r) \subseteq Nat
  BY <1>1, <1>2
<1> DEFINE Good(k) == G[k] \in Seq(C) /\ F[k + 1] = first \o G[k]
           Bad == {k \in 0..Len(r) : ~Good(k)}
<1>6. Bad = {}
  <2> SUFFICES ASSUME Bad # {} PROVE FALSE
    OBVIOUS
  <2>1. PICK k \in Bad : \A m \in Bad : k <= m
    <3>1. Bad \in SUBSET Nat
      <4> HIDE DEF Good
      <4> QED BY <1>5
    <3> HIDE DEF Bad
    <3> QED BY <3>1, LeastNatural
  <2>2. k \in 0..Len(r) /\ ~Good(k)
    OBVIOUS
  <2>3. CASE k = 0
    <3>1. G[0] = <<>> /\ F[0] = <<>>
      BY <1>3, <1>4 DEF Remains
    <3>2. F[1] = IF gone[q[1]] THEN F[0] ELSE Append(F[0], name[q[1]])
      <4>1. 1 \in 1..Len(q) /\ 1 - 1 = 0
        BY <1>1
      <4> QED BY <1>3, <4>1 DEF Remains
    <3>3. F[1] = first /\ first \o <<>> = first /\ <<>> \in Seq(C)
      BY <1>1, <1>5, <3>1, <3>2
    <3>4. Good(0)
      BY <3>1, <3>3
    <3> QED BY <2>2, <2>3, <3>4
  <2>4. CASE k # 0
    <3>1. /\ k \in 1..Len(r) /\ k - 1 \in 0..Len(r) /\ ~(k <= k - 1) /\ (k - 1) + 1 = k
          /\ k + 1 \in 1..Len(q) /\ (k + 1) - 1 = k
      <4>1. ASSUME NEW n \in Nat, NEW j \in 0..n, j # 0
            PROVE  /\ j \in 1..n /\ j - 1 \in 0..n /\ ~(j <= j - 1) /\ (j - 1) + 1 = j
                   /\ j + 1 \in 1..(n + 1) /\ (j + 1) - 1 = j
        BY <4>1
      <4>2. Len(r) \in Nat /\ Len(q) = Len(r) + 1
        BY <1>1
      <4> HIDE DEF r
      <4> QED BY <2>2, <2>4, <4>1, <4>2
    <3>2. Good(k - 1)
      BY <2>1, <3>1
    <3>3. G[k] = IF gone[r[k]] THEN G[k - 1] ELSE Append(G[k - 1], name[r[k]])
      BY <1>4, <3>1 DEF Remains
    <3>4. F[k + 1] = IF gone[q[k + 1]] THEN F[k] ELSE Append(F[k], name[q[k + 1]])
      BY <1>3, <3>1 DEF Remains
    <3>5. r[k] = q[k + 1] /\ G[k - 1] \in Seq(C) /\ F[k] = first \o G[k - 1]
      BY <1>1, <3>1, <3>2
    <3> HIDE DEF first
    <3>6. CASE gone[r[k]]
      BY <2>2, <3>3, <3>4, <3>5, <3>6
    <3>7. CASE ~gone[r[k]]
      <4>1. name[r[k]] \in C
        BY <1>2, <3>1, <3>5, <3>7
      <4>2. G[k] \in Seq(C) /\ G[k] = Append(G[k - 1], name[r[k]])
        <5>1. G[k] = Append(G[k - 1], name[r[k]])
          BY <3>3, <3>7
        <5> QED BY <3>5, <4>1, <5>1, AppendProperties
      <4>3. F[k + 1] = Append(first \o G[k - 1], name[r[k]])
        BY <3>4, <3>5, <3>7
      <4>4. first \o Append(G[k - 1], name[r[k]]) = Append(first \o G[k - 1], name[r[k]])
        <5>1. first \in Seq(C)
          BY <1>5
        <5> HIDE DEF C
        <5>2. ASSUME NEW a \in Seq(C), NEW b \in Seq(C), NEW e \in C
              PROVE  a \o Append(b, e) = Append(a \o b, e)
          BY ONLY a \in Seq(C), b \in Seq(C), e \in C, ConcatAppend, SMTT(60)
        <5> QED BY <3>5, <4>1, <5>1, <5>2
      <4> QED BY <2>2, <4>2, <4>3, <4>4
    <3> QED BY <3>6, <3>7
  <2> QED BY <2>3, <2>4
<1>7. G[Len(r)] \in Seq(C) /\ F[Len(q)] = first \o G[Len(r)]
  <2>1. Len(r) \in 0..Len(r) /\ Len(r) + 1 = Len(q)
    BY <1>1
  <2> HIDE DEF Good
  <2>2. Good(Len(r))
    BY <1>6, <2>1
  <2> QED BY <2>1, <2>2 DEF Good
<1>8. CASE gone[Head(q)]
  BY <1>3, <1>4, <1>7, <1>8 DEF r
<1>9. CASE ~gone[Head(q)]
  <2>1. name[Head(q)] \in C /\ first = <<name[Head(q)]>>
    BY <1>1, <1>2, <1>9
  <2> DEFINE old == F[Len(q)]
             new == G[Len(r)]
  <2>2. old = <<name[Head(q)]>> \o new /\ new \in Seq(C)
    BY <1>7, <2>1
  <2> HIDE DEF old, new
  <2>3. old # <<>> /\ Head(old) = name[Head(q)] /\ Tail(old) = new
    BY <2>1, <2>2
  <2> QED BY <1>3, <1>4, <1>9, <2>3 DEF r, old, new
<1> QED BY <1>8, <1>9

(* The line new is the line old without one element, e.                    *)
IsWithout(new, old, e) ==
  \E i \in DOMAIN old : old[i] = e /\ new = RemoveAt(old, i)

(* When one element of the queue goes, its name is taken out of the line.  *)
LEMMA RemainingWithout ==
  ASSUME NEW S, NEW q \in Seq(S), IsInjective(q), NEW gone, NEW now, NEW name,
         NEW x \in ToSet(q), ~gone[x], now[x],
         \A w \in ToSet(q) \ {x} : now[w] <=> gone[w]
  PROVE  IsWithout(Remaining(q, now, name), Remaining(q, gone, name), name[x])
<1> DEFINE C == {name[w] : w \in ToSet(q)}
<1>1. PICK F : Remains(F, q, gone, name) /\ Remaining(q, gone, name) = F[Len(q)]
  BY RemainingBuilt
<1>2. PICK G : Remains(G, q, now, name) /\ Remaining(q, now, name) = G[Len(q)]
  BY RemainingBuilt
<1>3. /\ Len(q) \in Nat /\ DOMAIN q = 1..Len(q)
      /\ \A i \in 1..Len(q) : q[i] \in ToSet(q)
      /\ \A i, j \in 1..Len(q) : q[i] = q[j] => i = j
      /\ \A w \in ToSet(q) : name[w] \in C
  BY DEF ToSet, IsInjective
<1> HIDE DEF C
<1>4. PICK p \in 1..Len(q) : q[p] = x
  BY <1>3 DEF ToSet
<1>5. \A k \in 1..Len(q) : /\ F[k] = IF gone[q[k]] THEN F[k - 1] ELSE Append(F[k - 1], name[q[k]])
                           /\ G[k] = IF now[q[k]] THEN G[k - 1] ELSE Append(G[k - 1], name[q[k]])
  BY <1>1, <1>2 DEF Remains
<1>6. F[p - 1] = G[p - 1]
  <2>1. p - 1 \in 0..Len(q) /\ p - 1 <= Len(q)
    BY <1>3
  <2>2. \A i \in 1..(p - 1) : i \in 1..Len(q) /\ i # p
    BY <1>3
  <2>3. \A i \in 1..(p - 1) : gone[q[i]] <=> now[q[i]]
    BY <1>3, <1>4, <2>2
  <2> QED BY <1>1, <1>2, <2>1, <2>3, RemainsAgree
<1>7. F[p - 1] \in Seq(C)
  <2> DEFINE Bad == {k \in 0..Len(q) : F[k] \notin Seq(C)}
  <2>1. SUFFICES ASSUME Bad # {} PROVE FALSE
    <3>1. p - 1 \in 0..Len(q)
      BY <1>3
    <3> QED BY <3>1
  <2>2. PICK k \in Bad : \A m \in Bad : k <= m
    <3>1. Bad \in SUBSET Nat
      BY <1>3
    <3> HIDE DEF Bad
    <3> QED BY <2>1, <3>1, LeastNatural
  <2>3. F[0] = <<>>
    BY <1>1 DEF Remains
  <2>4. k \in 1..Len(q) /\ k - 1 \in 0..Len(q) /\ ~(k <= k - 1) /\ F[k] \notin Seq(C)
    <3>1. F[0] \in Seq(C)
      BY <2>3
    <3>2. k \in 0..Len(q) /\ k # 0 /\ F[k] \notin Seq(C)
      BY <3>1
    <3> QED BY <1>3, <3>2
  <2>5. F[k - 1] \in Seq(C)
    BY <2>2, <2>4
  <2>6. ~gone[q[k]] => name[q[k]] \in C
    BY <1>3, <2>4
  <2>7. F[k] = IF gone[q[k]] THEN F[k - 1] ELSE Append(F[k - 1], name[q[k]])
    BY <1>5, <2>4
  <2> HIDE DEF Bad
  <2> QED BY <2>4, <2>5, <2>6, <2>7
<1> DEFINE i == Len(F[p - 1]) + 1
           Good(k) == /\ F[k] \in Seq(C) /\ i \in 1..Len(F[k]) /\ F[k][i] = name[x]
                      /\ G[k] = RemoveAt(F[k], i)
           Bad == {k \in p..Len(q) : ~Good(k)}
<1>8. Good(p)
  <2>1. F[p] = Append(F[p - 1], name[x]) /\ G[p] = F[p - 1] /\ name[x] \in C
    BY <1>3, <1>4, <1>5, <1>6
  <2> DEFINE s == F[p - 1]
             e == name[x]
  <2>2. s \in Seq(C) /\ e \in C
    BY <1>7, <2>1
  <2> HIDE DEF s, e
  <2>3. /\ Append(s, e) \in Seq(C) /\ Len(s) + 1 \in 1..Len(Append(s, e))
        /\ Append(s, e)[Len(s) + 1] = e /\ RemoveAt(Append(s, e), Len(s) + 1) = s
    BY <2>2, EraseAppended
  <2> QED BY <2>1, <2>3 DEF s, e
<1> HIDE DEF i
<1>9. Bad = {}
  <2> SUFFICES ASSUME Bad # {} PROVE FALSE
    OBVIOUS
  <2>1. PICK k \in Bad : \A m \in Bad : k <= m
    <3>1. Bad \in SUBSET Nat
      <4> HIDE DEF Good
      <4> QED BY <1>3
    <3> HIDE DEF Bad
    <3> QED BY <3>1, LeastNatural
  <2>2. k \in p..Len(q) /\ ~Good(k)
    OBVIOUS
  <2> HIDE DEF Good
  <2>3. k # p
    BY <1>8, <2>2
  <2>4. /\ k \in 1..Len(q) /\ k - 1 \in p..Len(q) /\ ~(k <= k - 1) /\ k # p
    BY <1>3, <2>2, <2>3
  <2>5. Good(k - 1)
    BY <2>1, <2>4
  <2>6. gone[q[k]] <=> now[q[k]]
    BY <1>3, <1>4, <2>4
  <2>7. /\ F[k] = IF gone[q[k]] THEN F[k - 1] ELSE Append(F[k - 1], name[q[k]])
        /\ G[k] = IF gone[q[k]] THEN G[k - 1] ELSE Append(G[k - 1], name[q[k]])
    BY <1>5, <2>4, <2>6
  <2>8. CASE gone[q[k]]
    BY <2>2, <2>5, <2>7, <2>8 DEF Good
  <2>9. CASE ~gone[q[k]]
    <3> DEFINE s == F[k - 1]
               e == name[q[k]]
    <3>1. e \in C
      BY <1>3, <2>4, <2>9
    <3>2. /\ s \in Seq(C) /\ i \in 1..Len(s) /\ s[i] = name[x]
          /\ F[k] = Append(s, e) /\ G[k] = Append(RemoveAt(s, i), e)
      BY <2>5, <2>7, <2>9 DEF Good
    <3> HIDE DEF s, e
    <3>3. Append(s, e) \in Seq(C)
      BY <3>1, <3>2
    <3>4. Good(k)
      BY <3>1, <3>2, <3>3, EraseAppended DEF Good
    <3> QED BY <2>2, <3>4
  <2> QED BY <2>8, <2>9
<1>10. Good(Len(q))
  <2>1. Len(q) \in p..Len(q)
    BY <1>3
  <2> HIDE DEF Good
  <2> QED BY <1>9, <2>1
<1>11. i \in DOMAIN F[Len(q)]
  BY <1>10
<1> QED BY <1>1, <1>2, <1>10, <1>11 DEF IsWithout

-----------------------------------------------------------------------------
(* F gives the sum of f over each subset of S, in whatever order it adds.  *)
Sums(F, f, S) ==
  /\ F[{}] = 0
  /\ \A s \in SUBSET S : F[s] \in Int /\ \A x \in s : F[s] = f[x] + F[s \ {x}]

(* The element that folds over sets go on with.                            *)
AnyOf(s) == CHOOSE x \in s : TRUE

(* One step of the recursion that SumFunction is defined by.               *)
SumStep(f, F, s) == IF s = {} THEN 0 ELSE f[AnyOf(s)] + F[s \ {AnyOf(s)}]

(* F solves the recursion over the subsets of S.                           *)
SumRecursion(F, f, S) == F = [s \in SUBSET S |-> SumStep(f, F, s)]

(* Taking an element out of a finite set makes it smaller.                 *)
LEMMA SmallerWithout ==
  ASSUME NEW S, IsFiniteSet(S), NEW s \in SUBSET S, NEW x \in s
  PROVE  /\ IsFiniteSet(s) /\ Cardinality(s) \in Nat \ {0}
         /\ Cardinality(s \ {x}) = Cardinality(s) - 1 /\ s \ {x} \in SUBSET S
<1>1. IsFiniteSet(s)
  BY FS_Subset
<1>2. Cardinality(s) \in Nat /\ Cardinality(s) # 0
  BY <1>1, FS_CardinalityType, FS_EmptySet
<1> QED BY <1>1, <1>2, FS_RemoveElement

(* The recursion that SumFunction is defined by has a solution.            *)
LEMMA SumExists ==
  ASSUME NEW S, IsFiniteSet(S), NEW f \in [S -> Int]
  PROVE  \E F : SumRecursion(F, f, S)
<1> DEFINE Small(n) == {s \in SUBSET S : Cardinality(s) <= n}
           Upto(F, n) == F = [s \in Small(n) |-> SumStep(f, F, s)]
           Bad == {n \in Nat : ~\E F : Upto(F, n)}
<1>0. ASSUME NEW s \in SUBSET S, s # {}
      PROVE  /\ Cardinality(s) \in Nat \ {0} /\ s \ {AnyOf(s)} \in SUBSET S
             /\ Cardinality(s \ {AnyOf(s)}) = Cardinality(s) - 1
  <2>1. AnyOf(s) \in s
    BY <1>0 DEF AnyOf
  <2> QED BY <2>1, SmallerWithout
<1>1. Cardinality({}) = 0 /\ Cardinality(S) \in Nat
  BY FS_EmptySet, FS_CardinalityType
<1>2. Bad = {}
  <2> SUFFICES ASSUME Bad # {} PROVE FALSE
    OBVIOUS
  <2>1. PICK n \in Bad : \A m \in Bad : n <= m
    <3>1. Bad \in SUBSET Nat
      OBVIOUS
    <3> HIDE DEF Bad
    <3> QED BY <3>1, LeastNatural
  <2>2. n \in Nat /\ ~\E F : Upto(F, n)
    OBVIOUS
  <2>3. CASE n = 0
    <3> DEFINE G == [s \in Small(0) |-> 0]
    <3>1. \A s \in Small(0) : s = {}
      <4> SUFFICES ASSUME NEW s \in SUBSET S, Cardinality(s) <= 0, s # {} PROVE FALSE
        OBVIOUS
      <4>1. Cardinality(s) \in Nat \ {0}
        BY <1>0
      <4> QED BY <4>1
    <3>2. \A s \in Small(0) : SumStep(f, G, s) = 0
      BY <3>1 DEF SumStep
    <3>3. Upto(G, 0)
      BY <3>2
    <3> QED BY <2>2, <2>3, <3>3
  <2>4. CASE n # 0
    <3>1. n - 1 \in Nat /\ ~(n <= n - 1)
      BY <2>2, <2>4
    <3>2. n - 1 \notin Bad
      BY <2>1, <3>1
    <3>3. PICK F : Upto(F, n - 1)
      BY <3>1, <3>2
    <3> DEFINE G == [s \in Small(n) |-> SumStep(f, F, s)]
    <3>4. \A s \in Small(n - 1) : s \in Small(n) /\ G[s] = F[s]
      <4>1. ASSUME NEW s \in Small(n - 1) PROVE s \in Small(n)
        <5>1. s \in SUBSET S /\ Cardinality(s) <= n - 1
          OBVIOUS
        <5>2. Cardinality(s) \in Nat
          <6>1. CASE s = {}
            BY <1>1, <6>1
          <6>2. CASE s # {}
            BY <1>0, <5>1, <6>2
          <6> QED BY <6>1, <6>2
        <5>3. Cardinality(s) <= n
          BY <2>2, <5>1, <5>2
        <5> QED BY <5>1, <5>3
      <4>2. \A s \in Small(n - 1) : F[s] = SumStep(f, F, s)
        BY <3>3
      <4> HIDE DEF Small
      <4> QED BY <4>1, <4>2
    <3>5. ASSUME NEW s \in Small(n) PROVE SumStep(f, G, s) = SumStep(f, F, s)
      <4>1. CASE s = {}
        BY <4>1 DEF SumStep
      <4>2. CASE s # {}
        <5>1. Cardinality(s) \in Nat /\ Cardinality(s) <= n
          BY <1>0, <4>2
        <5>2. s \ {AnyOf(s)} \in Small(n - 1)
          BY <1>0, <2>2, <4>2, <5>1
        <5>3. G[s \ {AnyOf(s)}] = F[s \ {AnyOf(s)}]
          BY <3>4, <5>2
        <5> HIDE DEF G
        <5> QED BY <4>2, <5>3 DEF SumStep
      <4> QED BY <4>1, <4>2
    <3>6. Upto(G, n)
      <4>1. G = [s \in Small(n) |-> SumStep(f, F, s)]
        OBVIOUS
      <4> HIDE DEF G
      <4> QED BY <3>5, <4>1
    <3> QED BY <2>2, <3>6
  <2> QED BY <2>3, <2>4
<1>3. PICK F : Upto(F, Cardinality(S))
  BY <1>1, <1>2
<1>4. Small(Cardinality(S)) = SUBSET S
  BY FS_Subset
<1> QED BY <1>3, <1>4 DEF SumRecursion

(* Whatever element the recursion picks, the sum is the same.              *)
LEMMA SumAnyOrder ==
  ASSUME NEW S, IsFiniteSet(S), NEW f \in [S -> Int], NEW F,
         SumRecursion(F, f, S)
  PROVE  Sums(F, f, S)
<1> DEFINE Good(s) == F[s] \in Int /\ \A x \in s : F[s] = f[x] + F[s \ {x}]
           Bad == {n \in Nat : \E s \in SUBSET S : Cardinality(s) = n /\ ~Good(s)}
<1>1. F[{}] = 0
  BY DEF SumRecursion, SumStep
<1>2. ASSUME NEW s \in SUBSET S, s # {}
      PROVE  AnyOf(s) \in s /\ F[s] = f[AnyOf(s)] + F[s \ {AnyOf(s)}]
  BY <1>2 DEF AnyOf, SumStep, SumRecursion
<1>3. Bad = {}
  <2> SUFFICES ASSUME Bad # {} PROVE FALSE
    OBVIOUS
  <2>1. PICK n \in Bad : \A m \in Bad : n <= m
    <3>1. Bad \in SUBSET Nat
      OBVIOUS
    <3> HIDE DEF Bad
    <3> QED BY <3>1, LeastNatural
  <2>2. PICK s \in SUBSET S : Cardinality(s) = n /\ ~Good(s)
    OBVIOUS
  <2>3. s # {}
    <3>1. F[{}] \in Int
      BY <1>1
    <3> QED BY <2>2, <3>1
  <2>4. ASSUME NEW t \in SUBSET S, NEW x \in s, t = s \ {x} PROVE Good(t)
    <3>1. Cardinality(t) \in Nat /\ ~(n <= Cardinality(t))
      <4>1. Cardinality(s) \in Nat \ {0} /\ Cardinality(s \ {x}) = Cardinality(s) - 1
        BY SmallerWithout
      <4> QED BY <2>2, <2>4, <4>1
    <3>2. Cardinality(t) \notin Bad
      BY <2>1, <3>1
    <3> QED BY <3>1, <3>2
  <2> DEFINE p == AnyOf(s)
  <2>5. p \in s /\ p \in S /\ f[p] \in Int /\ F[s] = f[p] + F[s \ {p}]
    BY <1>2, <2>3
  <2> HIDE DEF p
  <2>6. Good(s \ {p})
    BY <2>4, <2>5
  <2>7. F[s] \in Int
    BY <2>5, <2>6
  <2>8. ASSUME NEW x \in s, x # p PROVE F[s] = f[x] + F[s \ {x}]
    <3>1. Good(s \ {x}) /\ x \in s \ {p} /\ p \in s \ {x} /\ f[x] \in Int
      BY <2>4, <2>5, <2>8
    <3>2. F[s \ {p}] = f[x] + F[(s \ {p}) \ {x}]
      BY <2>6, <3>1
    <3>3. F[s \ {x}] = f[p] + F[(s \ {x}) \ {p}]
      BY <3>1
    <3>4. (s \ {x}) \ {p} = (s \ {p}) \ {x}
      OBVIOUS
    <3>5. Good((s \ {p}) \ {x})
      <4> DEFINE t == s \ {p}
                 u == t \ {x}
      <4>1. t \in SUBSET S /\ x \in t /\ u \in SUBSET S
        BY <3>1
      <4>2. Cardinality(t) = n - 1 /\ n \in Nat
        BY <2>2, <2>5, SmallerWithout
      <4>3. Cardinality(t \ {x}) = Cardinality(t) - 1 /\ Cardinality(t) \in Nat \ {0}
        <5> HIDE DEF t
        <5> QED BY <4>1, SmallerWithout
      <4>t. Cardinality(u) = Cardinality(t \ {x})
        OBVIOUS
      <4> HIDE DEF t, u
      <4>4. Cardinality(u) \in Nat /\ ~(n <= Cardinality(u))
        BY <4>2, <4>3, <4>t
      <4>5. Cardinality(u) \notin Bad
        BY <2>1, <4>4
      <4>6. Good(u)
        BY <4>1, <4>4, <4>5
      <4> QED BY <4>6 DEF t, u
    <3>6. F[(s \ {p}) \ {x}] \in Int
      BY <3>5
    <3> HIDE DEF Good
    <3>7. F[s \ {x}] = f[p] + F[(s \ {p}) \ {x}]
      BY <3>3, <3>4
    <3>8. F[s] = f[p] + (f[x] + F[(s \ {p}) \ {x}])
      BY <2>5, <3>2
    <3>9. f[p] \in Int /\ f[x] \in Int
      BY <2>5, <3>1
    <3> QED BY <3>6, <3>7, <3>8, <3>9
  <2> QED BY <2>2, <2>5, <2>7, <2>8
<1>4. \A s \in SUBSET S : Good(s)
  <2> SUFFICES ASSUME NEW s \in SUBSET S PROVE Good(s)
    OBVIOUS
  <2>1. Cardinality(s) \in Nat
    BY FS_Subset, FS_CardinalityType
  <2> QED BY <1>3, <2>1
<1> QED BY <1>1, <1>4 DEF Sums

(* SumFunction adds up the values of a function, and it is one sum.        *)
LEMMA SumOfFunction ==
  ASSUME NEW S, IsFiniteSet(S), NEW f \in [S -> Int]
  PROVE  \E F : Sums(F, f, S) /\ SumFunction(f) = F[S]
<1> DEFINE F == CHOOSE F : SumRecursion(F, f, S)
<1>1. DOMAIN f = S
  OBVIOUS
<1>2. SumFunction(f) = F[S]
  BY <1>1
     DEF SumRecursion, SumStep, AnyOf, SumFunction, SumFunctionOnSet,
         FoldFunctionOnSet, MapThenFoldSet
<1>3. SumRecursion(F, f, S)
  BY SumExists
<1> HIDE DEF F
<1>4. Sums(F, f, S)
  BY <1>3, SumAnyOrder
<1> QED BY <1>2, <1>4

(* Functions that agree on a set have the same sum over it.                *)
LEMMA SumsAgree ==
  ASSUME NEW S, IsFiniteSet(S), NEW f, NEW g, NEW F, NEW G,
         Sums(F, f, S), Sums(G, g, S),
         NEW T \in SUBSET S, \A x \in T : f[x] = g[x]
  PROVE  F[T] = G[T]
<1> DEFINE Bad == {n \in Nat : \E s \in SUBSET T : Cardinality(s) = n /\ F[s] # G[s]}
<1>1. Bad = {}
  <2> SUFFICES ASSUME Bad # {} PROVE FALSE
    OBVIOUS
  <2>1. PICK n \in Bad : \A m \in Bad : n <= m
    <3>1. Bad \in SUBSET Nat
      OBVIOUS
    <3> HIDE DEF Bad
    <3> QED BY <3>1, LeastNatural
  <2>2. PICK s \in SUBSET T : Cardinality(s) = n /\ F[s] # G[s]
    OBVIOUS
  <2>3. PICK x : x \in s
    BY <2>2 DEF Sums
  <2>4. /\ s \in SUBSET S /\ s \ {x} \in SUBSET T
        /\ Cardinality(s \ {x}) \in Nat /\ ~(n <= Cardinality(s \ {x}))
    <3>1. s \in SUBSET S /\ s \ {x} \in SUBSET T
      OBVIOUS
    <3>2. Cardinality(s) \in Nat \ {0} /\ Cardinality(s \ {x}) = Cardinality(s) - 1
      BY <2>3, <3>1, SmallerWithout
    <3> QED BY <2>2, <3>1, <3>2
  <2>5. Cardinality(s \ {x}) \notin Bad
    BY <2>1, <2>4
  <2>6. F[s \ {x}] = G[s \ {x}]
    BY <2>4, <2>5
  <2>7. F[s] = f[x] + F[s \ {x}] /\ G[s] = g[x] + G[s \ {x}]
    BY <2>3, <2>4 DEF Sums
  <2> QED BY <2>2, <2>3, <2>6, <2>7
<1>2. Cardinality(T) \in Nat
  BY FS_Subset, FS_CardinalityType
<1> QED BY <1>1, <1>2

(* Changing one value changes the sum by the difference.                   *)
LEMMA SumChange ==
  ASSUME NEW S, IsFiniteSet(S), NEW f \in [S -> Int], NEW g \in [S -> Int],
         NEW x \in S, \A y \in S \ {x} : g[y] = f[y]
  PROVE  /\ SumFunction(f) \in Int /\ SumFunction(g) \in Int
         /\ SumFunction(g) = SumFunction(f) + g[x] - f[x]
<1>1. PICK F : Sums(F, f, S) /\ SumFunction(f) = F[S]
  BY SumOfFunction
<1>2. PICK G : Sums(G, g, S) /\ SumFunction(g) = G[S]
  BY SumOfFunction
<1>3. F[S \ {x}] = G[S \ {x}]
  <2>1. S \ {x} \in SUBSET S /\ \A y \in S \ {x} : f[y] = g[y]
    OBVIOUS
  <2> QED BY <1>1, <1>2, <2>1, SumsAgree
<1>4. F[S] = f[x] + F[S \ {x}] /\ G[S] = g[x] + G[S \ {x}]
  BY <1>1, <1>2 DEF Sums
<1>5. F[S \ {x}] \in Int /\ F[S] \in Int /\ G[S] \in Int
  BY <1>1, <1>2 DEF Sums
<1>6. f[x] \in Int /\ g[x] \in Int
  OBVIOUS
<1> QED BY <1>1, <1>2, <1>3, <1>4, <1>5, <1>6

(* The sum of zeros.                                                       *)
LEMMA SumOfZeros ==
  ASSUME NEW S, IsFiniteSet(S), NEW f \in [S -> Int], \A x \in S : f[x] = 0
  PROVE  SumFunction(f) = 0
<1>1. PICK F : Sums(F, f, S) /\ SumFunction(f) = F[S]
  BY SumOfFunction
<1> DEFINE z == [x \in S |-> 0]
           Z == [s \in SUBSET S |-> 0]
<1>2. Sums(Z, z, S)
  BY DEF Sums
<1>3. F[S] = Z[S]
  <2>1. S \in SUBSET S /\ \A x \in S : f[x] = z[x]
    OBVIOUS
  <2> HIDE DEF z, Z
  <2> QED BY <1>1, <1>2, <2>1, SumsAgree
<1> QED BY <1>1, <1>3
=============================================================================
