---------------------------- MODULE SequenceFacts ----------------------------
(***************************************************************************)
(* Facts about the data of the models that their proofs share: induction   *)
(* over the natural numbers, for a set instead of a predicate, the         *)
(* greatest element of a set, what is in a sequence, and sequences without *)
(* repetitions that lose or gain an element.                               *)
(***************************************************************************)
EXTENDS Integers, Sequences, SequencesExt, TLAPS, WellFoundedInduction,
        FiniteSetTheorems, SequenceTheorems

LEMMA Induction ==
  ASSUME NEW S, 0 \in S, \A n \in Nat : n \in S => n + 1 \in S
  PROVE  \A n \in Nat : n \in S
  <1> DEFINE LessThan == {p \in Nat \X Nat : p[1] < p[2]}
             Missed == {n \in Nat : n \notin S}
  <1>1. SUFFICES ASSUME Missed # {} PROVE FALSE
    OBVIOUS
  <1>2. PICK x \in Missed : \A y \in Missed : <<y, x>> \notin LessThan
    <2>1. IsWellFoundedOn(LessThan, Nat)
      BY NatLessThanWellFounded DEF OpToRel
    <2>2. Missed \subseteq Nat
      OBVIOUS
    <2> HIDE DEF LessThan, Missed
    <2> QED
      BY <1>1, <2>1, <2>2, WFMin
  <1>3. x - 1 \in Missed /\ <<x - 1, x>> \in LessThan
    BY <1>2
  <1> QED
    BY <1>2, <1>3

(* The greatest element of a set that has a bound.                         *)
LEMMA MaxIsGreatest ==
  ASSUME NEW S \in SUBSET Int, NEW bound \in Int, S # {}, \A x \in S : x <= bound
  PROVE  Max(S) \in S /\ \A x \in S : Max(S) >= x
  <1> DEFINE P == {n \in Nat : (\E x \in S : x >= bound - n) => \E x \in S : \A y \in S : x >= y}
  <1>1. 0 \in P
    OBVIOUS
  <1>2. ASSUME NEW n \in Nat, n \in P PROVE n + 1 \in P
    <2>1. CASE \E x \in S : x >= bound - n
      BY <1>2, <2>1
    <2>2. CASE ~ \E x \in S : x >= bound - n
      <3>1. \A y \in S : y <= bound - (n + 1)
        BY <2>2
      <3> QED
        BY <3>1
    <2> QED
      BY <2>1, <2>2
  <1>3. \A n \in Nat : n \in P
    <2> HIDE DEF P
    <2> QED
      BY <1>1, <1>2, Induction
  <1>4. PICK x \in S : TRUE
    OBVIOUS
  <1>5. bound - x \in Nat /\ x >= bound - (bound - x)
    BY <1>4
  <1>6. \E y \in S : \A z \in S : y >= z
    BY <1>3, <1>4, <1>5
  <1> QED
    BY <1>6 DEF Max

(* What is in a sequence that grew by one element, and in two that were    *)
(* joined.                                                                 *)
LEMMA RangeOfAppend ==
  ASSUME NEW T, NEW s \in Seq(T), NEW x \in T
  PROVE  Append(s, x) \in Seq(T) /\ Range(Append(s, x)) = Range(s) \cup {x}
  <1>1. Append(s, x) \in Seq(T) /\ DOMAIN Append(s, x) = 1 .. Len(s) + 1 /\ DOMAIN s = 1 .. Len(s)
    OBVIOUS
  <1>2. Append(s, x)[Len(s) + 1] = x /\ \A i \in 1 .. Len(s) : Append(s, x)[i] = s[i]
    OBVIOUS
  <1>3. 1 .. Len(s) + 1 = (1 .. Len(s)) \cup {Len(s) + 1}
    OBVIOUS
  <1> QED
    BY <1>1, <1>2, <1>3 DEF Range

LEMMA RangeOfConcat ==
  ASSUME NEW T, NEW s \in Seq(T), NEW t \in Seq(T)
  PROVE  s \o t \in Seq(T) /\ Range(s \o t) = Range(s) \cup Range(t)
  <1>1. /\ s \o t \in Seq(T) /\ DOMAIN (s \o t) = 1 .. Len(s) + Len(t)
        /\ DOMAIN s = 1 .. Len(s) /\ DOMAIN t = 1 .. Len(t)
        /\ Len(s) \in Nat /\ Len(t) \in Nat
    OBVIOUS
  <1>2. /\ \A i \in 1 .. Len(s) : (s \o t)[i] = s[i]
        /\ \A i \in 1 .. Len(t) : (s \o t)[Len(s) + i] = t[i]
    OBVIOUS
  <1>3. ASSUME NEW i \in 1 .. Len(s) + Len(t) PROVE i \in 1 .. Len(s) \/ \E j \in 1 .. Len(t) : i = Len(s) + j
    <2>1. CASE i > Len(s)
      <3>1. i - Len(s) \in 1 .. Len(t) /\ i = Len(s) + (i - Len(s))
        BY <1>1, <2>1
      <3> QED
        BY <3>1
    <2> QED
      BY <1>1, <2>1
  <1>4. /\ 1 .. Len(s) \subseteq 1 .. Len(s) + Len(t)
        /\ \A j \in 1 .. Len(t) : Len(s) + j \in 1 .. Len(s) + Len(t)
    BY <1>1
  <1>5. ASSUME NEW x \in Range(s \o t) PROVE x \in Range(s) \cup Range(t)
    <2>1. PICK i \in 1 .. Len(s) + Len(t) : x = (s \o t)[i]
      BY <1>1, <1>5 DEF Range
    <2> QED
      BY <1>1, <1>2, <1>3, <2>1 DEF Range
  <1>6. ASSUME NEW x \in Range(s) \cup Range(t) PROVE x \in Range(s \o t)
    <2>1. (\E i \in 1 .. Len(s) : x = s[i]) \/ (\E i \in 1 .. Len(t) : x = t[i])
      BY <1>1, <1>6 DEF Range
    <2>2. \E i \in 1 .. Len(s) + Len(t) : x = (s \o t)[i]
      BY <1>2, <1>4, <2>1
    <2> QED
      BY <1>1, <2>2 DEF Range
  <1> QED
    BY <1>1, <1>5, <1>6

LEMMA RangeOfEmpty == Range(<<>>) = {}
  BY DEF Range

LEMMA RangeOfSequence ==
  ASSUME NEW T, NEW s \in Seq(T)
  PROVE  Range(s) \subseteq T /\ Range(s) = {s[i] : i \in 1 .. Len(s)}
  BY DEF Range

LEMMA RangeOfTail ==
  ASSUME NEW T, NEW q \in Seq(T), q # <<>>
  PROVE  Range(q) = {Head(q)} \cup Range(Tail(q))
  <1>1. /\ Len(q) \in Nat \ {0} /\ Tail(q) \in Seq(T) /\ Len(Tail(q)) = Len(q) - 1
        /\ Head(q) = q[1] /\ \A i \in 1 .. Len(q) - 1 : Tail(q)[i] = q[i + 1]
    OBVIOUS
  <1>2. Range(q) = {q[i] : i \in 1 .. Len(q)} /\ Range(Tail(q)) = {Tail(q)[i] : i \in 1 .. Len(q) - 1}
    BY <1>1, RangeOfSequence
  <1>3. \A i \in 1 .. Len(q) : i = 1 \/ (i - 1 \in 1 .. Len(q) - 1 /\ q[i] = Tail(q)[i - 1])
    <2>1. ASSUME NEW i \in 1 .. Len(q), i # 1 PROVE i - 1 \in 1 .. Len(q) - 1 /\ (i - 1) + 1 = i
      BY <1>1, <2>1
    <2> QED
      BY <1>1, <2>1
  <1>4. 1 \in 1 .. Len(q) /\ \A i \in 1 .. Len(q) - 1 : i + 1 \in 1 .. Len(q) /\ Tail(q)[i] = q[i + 1]
    BY <1>1
  <1>5. \A x \in Range(q) : x \in {Head(q)} \cup Range(Tail(q))
    BY <1>1, <1>2, <1>3
  <1>6. \A x \in {Head(q)} \cup Range(Tail(q)) : x \in Range(q)
    BY <1>1, <1>2, <1>4
  <1> QED
    BY <1>5, <1>6

(* A finite set put in a sequence.                                         *)
LEMMA SetToSeqIsSequence ==
  ASSUME NEW T, NEW S \in SUBSET T, IsFiniteSet(S)
  PROVE  SetToSeq(S) \in Seq(T) /\ Range(SetToSeq(S)) = S
  <1> DEFINE n == Cardinality(S)
             f == SetToSeq(S)
  <1>1. n \in Nat /\ IsFiniteSet(1 .. n) /\ Cardinality(1 .. n) = n
    BY FS_CardinalityType, FS_Interval
  <1>2. \E g \in [1 .. n -> S] : IsInjective(g)
    BY FS_CardinalityType DEF ExistsBijection, Bijection, Injection
  <1>3. f \in [1 .. n -> S] /\ IsInjective(f)
    BY <1>2 DEF SetToSeq
  <1>4. f \in Surjection(1 .. n, S)
    <2>1. f \in Injection(1 .. n, S)
      BY <1>3 DEF Injection
    <2> HIDE DEF f
    <2> QED
      BY <1>1, <2>1, FS_Injection
  <1>5. Range(f) = S
    BY <1>3, <1>4 DEF Surjection, Range
  <1>6. f \in Seq(T)
    BY <1>1, <1>3
  <1> QED
    BY <1>5, <1>6

(* A sequence without one of its elements.                                 *)
LEMMA RemoveAtIs ==
  ASSUME NEW T, NEW s \in Seq(T), NEW i \in 1 .. Len(s)
  PROVE  /\ RemoveAt(s, i) \in Seq(T) /\ Len(RemoveAt(s, i)) = Len(s) - 1
         /\ \A j \in 1 .. Len(s) - 1 : RemoveAt(s, i)[j] = IF j < i THEN s[j] ELSE s[j + 1]
<1> DEFINE early == SubSeq(s, 1, i - 1)
           late  == SubSeq(s, i + 1, Len(s))
<1>1. /\ early \in Seq(T) /\ Len(early) = i - 1 /\ \A j \in 1 .. i - 1 : early[j] = s[j]
  OBVIOUS
<1>2. /\ late \in Seq(T) /\ Len(late) = Len(s) - i
      /\ \A j \in 1 .. Len(s) - i : late[j] = s[i + j]
  OBVIOUS
<1> HIDE DEF early, late
<1>3. /\ early \o late \in Seq(T) /\ Len(early \o late) = Len(s) - 1
      /\ \A j \in 1 .. Len(s) - 1 :
           (early \o late)[j] = IF j < i THEN early[j] ELSE late[j - (i - 1)]
  <2>1. Len(s) \in Nat /\ i \in Int /\ Len(early) + Len(late) = Len(s) - 1
    BY <1>1, <1>2
  <2>2. /\ early \o late \in Seq(T) /\ Len(early \o late) = Len(early) + Len(late)
        /\ \A j \in 1 .. Len(early) + Len(late) :
             (early \o late)[j] = IF j <= Len(early) THEN early[j] ELSE late[j - Len(early)]
    BY <1>1, <1>2, ConcatProperties
  <2>3. \A j \in 1 .. Len(s) - 1 : j < i <=> j <= Len(early)
    BY <1>1, <2>1
  <2> QED BY <1>1, <2>1, <2>2, <2>3
<1>4. ASSUME NEW j \in 1 .. Len(s) - 1
      PROVE  (early \o late)[j] = IF j < i THEN s[j] ELSE s[j + 1]
  <2>1. CASE j < i
    BY <1>1, <1>3, <2>1
  <2>2. CASE ~(j < i)
    <3>1. j - (i - 1) \in 1 .. Len(s) - i /\ i + (j - (i - 1)) = j + 1
      BY <2>2
    <3> QED BY <1>2, <1>3, <2>2, <3>1
  <2> QED BY <2>1, <2>2
<1> QED BY <1>3, <1>4 DEF RemoveAt, early, late

(* What is left in a sequence without repetitions.                         *)
LEMMA RemoveAtKeepsInjective ==
  ASSUME NEW T, NEW s \in Seq(T), IsInjective(s), NEW i \in 1 .. Len(s)
  PROVE  /\ RemoveAt(s, i) \in Seq(T) /\ IsInjective(RemoveAt(s, i))
         /\ ToSet(RemoveAt(s, i)) = ToSet(s) \ {s[i]}
<1> DEFINE r == RemoveAt(s, i)
           of(j) == IF j < i THEN j ELSE j + 1
<1>1. /\ r \in Seq(T) /\ DOMAIN r = 1 .. Len(s) - 1
      /\ \A j \in DOMAIN r : r[j] = s[of(j)] /\ of(j) \in 1 .. Len(s) \ {i}
  <2>1. /\ r \in Seq(T) /\ Len(r) = Len(s) - 1
        /\ \A j \in 1 .. Len(s) - 1 : r[j] = IF j < i THEN s[j] ELSE s[j + 1]
    BY RemoveAtIs
  <2> HIDE DEF r
  <2>2. DOMAIN r = 1 .. Len(s) - 1 /\ Len(s) \in Nat
    BY <2>1
  <2>3. \A j \in 1 .. Len(s) - 1 : of(j) \in 1 .. Len(s) \ {i}
    OBVIOUS
  <2> QED BY <2>1, <2>2, <2>3
<1> HIDE DEF r
<1>2. \A j, k \in DOMAIN r : of(j) = of(k) => j = k
  BY <1>1
<1>3. \A k \in 1 .. Len(s) \ {i} : \E j \in DOMAIN r : of(j) = k
  <2> TAKE k \in 1 .. Len(s) \ {i}
  <2>1. CASE k < i
    <3>1. k \in 1 .. Len(s) - 1 /\ of(k) = k
      BY <2>1
    <3> QED BY <1>1, <3>1
  <2>2. CASE k > i
    <3>1. k - 1 \in 1 .. Len(s) - 1 /\ of(k - 1) = k
      BY <2>2
    <3> QED BY <1>1, <3>1
  <2> QED BY <2>1, <2>2
<1> HIDE DEF of
<1>4. IsInjective(r)
  BY <1>1, <1>2 DEF IsInjective
<1>5. ToSet(r) = ToSet(s) \ {s[i]}
  <2>1. DOMAIN s = 1 .. Len(s) /\ ToSet(s) = {s[k] : k \in DOMAIN s}
        /\ ToSet(r) = {r[k] : k \in DOMAIN r}
    BY DEF ToSet
  <2>2. ASSUME NEW x \in ToSet(r) PROVE x \in ToSet(s) \ {s[i]}
    BY <1>1, <2>1, <2>2 DEF IsInjective
  <2>3. ASSUME NEW x \in ToSet(s) \ {s[i]} PROVE x \in ToSet(r)
    <3>1. PICK k \in 1 .. Len(s) \ {i} : x = s[k]
      BY <2>1, <2>3
    <3> QED BY <1>1, <1>3, <2>1, <3>1
  <2> QED BY <2>2, <2>3
<1> QED BY <1>1, <1>4, <1>5 DEF r

(* One more element, not there before.                                     *)
LEMMA AppendKeepsInjective ==
  ASSUME NEW T, NEW s \in Seq(T), IsInjective(s), NEW x \in T, x \notin ToSet(s)
  PROVE  /\ Append(s, x) \in Seq(T) /\ IsInjective(Append(s, x))
         /\ ToSet(Append(s, x)) = ToSet(s) \cup {x}
<1>1. /\ Append(s, x) \in Seq(T) /\ DOMAIN Append(s, x) = 1 .. Len(s) + 1
      /\ DOMAIN s = 1 .. Len(s) /\ Append(s, x)[Len(s) + 1] = x
      /\ \A i \in 1 .. Len(s) : Append(s, x)[i] = s[i]
  OBVIOUS
<1>2. 1 .. Len(s) + 1 = (1 .. Len(s)) \cup {Len(s) + 1}
  OBVIOUS
<1> QED BY <1>1, <1>2 DEF IsInjective, ToSet

(* A sequence without repetitions is as long as its set is large.          *)
LEMMA CardinalityOfInjective ==
  ASSUME NEW T, NEW s \in Seq(T), IsInjective(s)
  PROVE  IsFiniteSet(ToSet(s)) /\ Cardinality(ToSet(s)) = Len(s)
<1>1. s \in [1 .. Len(s) -> ToSet(s)] /\ \A x \in ToSet(s) : \E i \in 1 .. Len(s) : s[i] = x
  BY DEF ToSet
<1>2. s \in Surjection(1 .. Len(s), ToSet(s)) /\ s \in Injection(1 .. Len(s), ToSet(s))
  BY <1>1 DEF Surjection, Injection, IsInjective
<1>3. IsFiniteSet(1 .. Len(s)) /\ Cardinality(1 .. Len(s)) = Len(s)
  <2>1. Len(s) \in Nat
    OBVIOUS
  <2> QED BY <2>1, FS_Interval
<1> QED BY <1>2, <1>3, FS_Surjection

(* A sequence with one more element in front.                              *)
LEMMA FrontKeepsInjective ==
  ASSUME NEW T, NEW s \in Seq(T), IsInjective(s), NEW x \in T, x \notin ToSet(s)
  PROVE  /\ <<x>> \o s \in Seq(T) /\ IsInjective(<<x>> \o s)
         /\ ToSet(<<x>> \o s) = ToSet(s) \cup {x}
<1> DEFINE l == <<x>> \o s
<1>1. /\ l \in Seq(T) /\ Len(l) = Len(s) + 1
      /\ \A i \in 1 .. Len(s) + 1 : l[i] = IF i = 1 THEN x ELSE s[i - 1]
  <2>1. <<x>> \in Seq(T) /\ Len(<<x>>) = 1 /\ <<x>>[1] = x /\ Len(s) \in Nat
    OBVIOUS
  <2>2. /\ l \in Seq(T) /\ Len(l) = 1 + Len(s)
        /\ \A i \in 1 .. 1 + Len(s) : l[i] = IF i <= 1 THEN <<x>>[i] ELSE s[i - 1]
    BY <2>1, ConcatProperties
  <2> HIDE DEF l
  <2> QED BY <2>1, <2>2
<1> HIDE DEF l
<1>2. DOMAIN l = 1 .. Len(s) + 1 /\ DOMAIN s = 1 .. Len(s) /\ Len(s) \in Nat
  BY <1>1
<1>3. \A i \in DOMAIN l \ {1} : i - 1 \in DOMAIN s /\ l[i] = s[i - 1]
  BY <1>1, <1>2
<1>4. \A i \in DOMAIN s : i + 1 \in DOMAIN l /\ l[i + 1] = s[i]
  BY <1>1, <1>2
<1>5. 1 \in DOMAIN l /\ l[1] = x
  BY <1>1, <1>2
<1>6. IsInjective(l)
  <2>1. ASSUME NEW i \in DOMAIN l, NEW j \in DOMAIN l, l[i] = l[j] PROVE i = j
    <3>1. CASE i = 1 /\ j # 1
      BY <1>3, <1>5, <2>1, <3>1 DEF ToSet
    <3>2. CASE j = 1 /\ i # 1
      BY <1>3, <1>5, <2>1, <3>2 DEF ToSet
    <3>3. CASE i # 1 /\ j # 1
      <4>1. i - 1 = j - 1
        BY <1>3, <2>1, <3>3 DEF IsInjective
      <4> QED BY <1>2, <4>1
    <3> QED BY <3>1, <3>2, <3>3
  <2> QED BY <2>1 DEF IsInjective
<1>7. ToSet(l) = ToSet(s) \cup {x}
  <2>1. ToSet(l) = {l[i] : i \in DOMAIN l} /\ ToSet(s) = {s[i] : i \in DOMAIN s}
    BY DEF ToSet
  <2>2. ToSet(l) \subseteq ToSet(s) \cup {x}
    BY <1>3, <1>5, <2>1
  <2>3. ToSet(s) \cup {x} \subseteq ToSet(l)
    BY <1>4, <1>5, <2>1
  <2> QED BY <2>2, <2>3
<1> QED BY <1>1, <1>6, <1>7 DEF l

(* A sequence with an element put in.                                      *)
IsInsertion(T, r, s, p, x) ==
  /\ r \in Seq(T) /\ Len(r) = Len(s) + 1
  /\ \A j \in 1 .. Len(s) + 1 : r[j] = IF j < p THEN s[j] ELSE IF j = p THEN x ELSE s[j - 1]

LEMMA InsertAtIs ==
  ASSUME NEW T, NEW s \in Seq(T), NEW p \in 1 .. Len(s) + 1, NEW x \in T
  PROVE  IsInsertion(T, InsertAt(s, p, x), s, p, x)
<1> DEFINE early == SubSeq(s, 1, p - 1)
           late  == SubSeq(s, p, Len(s))
           first == early \o <<x>>
<1>0. Len(s) \in Nat /\ p \in Int
  OBVIOUS
<1>1. /\ early \in Seq(T) /\ Len(early) = p - 1 /\ \A j \in 1 .. p - 1 : early[j] = s[j]
  OBVIOUS
<1>2. /\ late \in Seq(T) /\ Len(late) = Len(s) + 1 - p
      /\ \A j \in 1 .. Len(s) + 1 - p : late[j] = s[p - 1 + j]
  <2>1. CASE p <= Len(s)
    BY <2>1
  <2>2. CASE p = Len(s) + 1
    BY <2>2
  <2> QED BY <2>1, <2>2
<1>3. <<x>> \in Seq(T) /\ Len(<<x>>) = 1 /\ <<x>>[1] = x
  OBVIOUS
<1> HIDE DEF early, late
<1>4. /\ first \in Seq(T) /\ Len(first) = p
      /\ \A j \in 1 .. p : first[j] = IF j < p THEN s[j] ELSE x
  <2>1. /\ first \in Seq(T) /\ Len(first) = Len(early) + Len(<<x>>)
        /\ \A j \in 1 .. Len(early) + Len(<<x>>) :
             first[j] = IF j <= Len(early) THEN early[j] ELSE <<x>>[j - Len(early)]
    BY <1>1, <1>3, ConcatProperties
  <2> HIDE DEF first
  <2> QED BY <1>0, <1>1, <1>3, <2>1
<1> HIDE DEF first
<1>5. /\ first \o late \in Seq(T) /\ Len(first \o late) = Len(s) + 1
      /\ \A j \in 1 .. Len(s) + 1 :
           (first \o late)[j] = IF j <= p THEN first[j] ELSE late[j - p]
  <2>1. /\ first \o late \in Seq(T) /\ Len(first \o late) = Len(first) + Len(late)
        /\ \A j \in 1 .. Len(first) + Len(late) :
             (first \o late)[j] = IF j <= Len(first) THEN first[j] ELSE late[j - Len(first)]
    BY <1>2, <1>4, ConcatProperties
  <2>2. Len(first) + Len(late) = Len(s) + 1
    BY <1>0, <1>2, <1>4
  <2> QED BY <1>4, <2>1, <2>2
<1>6. ASSUME NEW j \in 1 .. Len(s) + 1
      PROVE  (first \o late)[j] = IF j < p THEN s[j] ELSE IF j = p THEN x ELSE s[j - 1]
  <2>1. CASE j <= p
    BY <1>0, <1>4, <1>5, <2>1
  <2>2. CASE j > p
    <3>1. j - p \in 1 .. Len(s) + 1 - p /\ p - 1 + (j - p) = j - 1
      BY <1>0, <2>2
    <3>2. ~(j <= p) /\ ~(j < p) /\ j # p
      BY <1>0, <2>2
    <3> QED BY <1>2, <1>5, <3>1, <3>2
  <2>3. j <= p \/ j > p
    BY <1>0
  <2> QED BY <2>1, <2>2, <2>3
<1>7. IsInsertion(T, first \o late, s, p, x)
  BY <1>5, <1>6 DEF IsInsertion
<1>8. InsertAt(s, p, x) = first \o late
  BY DEF InsertAt, early, late, first
<1> QED BY <1>7, <1>8, Zenon

(* One more element, not there before.                                     *)
LEMMA InsertAtKeepsInjective ==
  ASSUME NEW T, NEW s \in Seq(T), IsInjective(s), NEW x \in T, x \notin ToSet(s),
         NEW p \in 1 .. Len(s) + 1
  PROVE  /\ InsertAt(s, p, x) \in Seq(T) /\ IsInjective(InsertAt(s, p, x))
         /\ ToSet(InsertAt(s, p, x)) = ToSet(s) \cup {x}
<1> DEFINE r == InsertAt(s, p, x)
           of(j) == IF j < p THEN j ELSE j - 1
<1>1. /\ r \in Seq(T) /\ DOMAIN r = 1 .. Len(s) + 1 /\ p \in DOMAIN r /\ r[p] = x
      /\ \A j \in DOMAIN r \ {p} : r[j] = s[of(j)] /\ of(j) \in 1 .. Len(s)
  <2> HIDE DEF r
  <2>0. IsInsertion(T, r, s, p, x)
    <3>1. IsInsertion(T, InsertAt(s, p, x), s, p, x)
      BY InsertAtIs
    <3>2. r = InsertAt(s, p, x)
      BY DEF r
    <3> QED BY <3>1, <3>2, Zenon
  <2>1. /\ r \in Seq(T) /\ Len(r) = Len(s) + 1
        /\ \A j \in 1 .. Len(s) + 1 : r[j] = IF j < p THEN s[j] ELSE IF j = p THEN x ELSE s[j - 1]
    BY <2>0, Zenon DEF IsInsertion
  <2> HIDE DEF r
  <2>2. DOMAIN r = 1 .. Len(s) + 1 /\ Len(s) \in Nat
    BY <2>1
  <2>3. \A j \in 1 .. Len(s) + 1 : j # p => of(j) \in 1 .. Len(s)
    BY <2>2
  <2> QED BY <2>1, <2>2, <2>3
<1> HIDE DEF r
<1>2. \A j, k \in DOMAIN r \ {p} : of(j) = of(k) => j = k
  BY <1>1
<1>3. \A k \in 1 .. Len(s) : \E j \in DOMAIN r \ {p} : of(j) = k
  <2> TAKE k \in 1 .. Len(s)
  <2>1. CASE k < p
    <3>1. k \in DOMAIN r \ {p} /\ of(k) = k
      BY <1>1, <2>1
    <3> QED BY <3>1
  <2>2. CASE k >= p
    <3>1. k + 1 \in DOMAIN r \ {p} /\ of(k + 1) = k
      BY <1>1, <2>2
    <3> QED BY <3>1
  <2> QED BY <2>1, <2>2
<1> HIDE DEF of
<1>4. /\ DOMAIN s = 1 .. Len(s) /\ ToSet(s) = {s[k] : k \in DOMAIN s}
      /\ ToSet(r) = {r[k] : k \in DOMAIN r}
  BY DEF ToSet
<1>5. \A j \in DOMAIN r \ {p} : r[j] # x /\ r[j] \in ToSet(s)
  BY <1>1, <1>4
<1>6. IsInjective(r)
  <2>1. ASSUME NEW i \in DOMAIN r, NEW j \in DOMAIN r, r[i] = r[j] PROVE i = j
    <3>1. CASE i = p \/ j = p
      BY <1>1, <1>5, <2>1, <3>1
    <3>2. CASE i # p /\ j # p
      BY <1>1, <1>2, <1>4, <2>1, <3>2 DEF IsInjective
    <3> QED BY <3>1, <3>2
  <2> QED BY <2>1 DEF IsInjective
<1>7. ToSet(r) = ToSet(s) \cup {x}
  <2>1. ToSet(r) \subseteq ToSet(s) \cup {x} /\ x \in ToSet(r)
    BY <1>1, <1>4, <1>5
  <2>2. ASSUME NEW y \in ToSet(s) PROVE y \in ToSet(r)
    BY <1>1, <1>3, <1>4
  <2> QED BY <2>1, <2>2
<1>8. r = InsertAt(s, p, x)
  BY DEF r
<1> QED BY <1>1, <1>6, <1>7, <1>8, Zenon
=============================================================================
