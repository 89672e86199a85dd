------------------------ MODULE IncreasingSequences ------------------------
(***************************************************************************)
(* Sequences of numbers that increase: what the log entries and the events *)
(* of an output plugin form, in whatever queue, batch or file they are.    *)
(***************************************************************************)
EXTENDS Naturals, Sequences, Functions, TLAPS

Increasing(s) == \A i, j \in DOMAIN s : i < j => s[i] < s[j]
Before(s, t) == \A i \in DOMAIN s, j \in DOMAIN t : s[i] < t[j]

\* Appending a larger number keeps a sequence increasing and adds that number.
LEMMA AppendEntry ==
    ASSUME NEW s \in Seq(Nat), NEW e \in Nat, Increasing(s), \A i \in DOMAIN s : s[i] < e
    PROVE  /\ Append(s, e) \in Seq(Nat)
           /\ Increasing(Append(s, e))
           /\ Range(Append(s, e)) = Range(s) \cup {e}
<1>1. Append(s, e) \in Seq(Nat) /\ Len(Append(s, e)) = Len(s) + 1
  OBVIOUS
<1>2. DOMAIN Append(s, e) = DOMAIN s \cup {Len(s) + 1}
  BY <1>1
<1>3. /\ \A i \in DOMAIN s : Append(s, e)[i] = s[i]
      /\ Append(s, e)[Len(s) + 1] = e
  OBVIOUS
<1>4. DOMAIN s = 1..Len(s) /\ Len(s) \in Nat
  OBVIOUS
<1>5. \A i \in DOMAIN s : s[i] \in Nat
  OBVIOUS
<1>6. Increasing(Append(s, e))
  BY <1>2, <1>3, <1>4, <1>5 DEF Increasing
<1>7. Range(Append(s, e)) = Range(s) \cup {e}
  BY <1>2, <1>3, <1>4 DEF Range
<1> QED BY <1>1, <1>6, <1>7

\* The head of an increasing sequence comes before its tail.
LEMMA HeadAndTail ==
    ASSUME NEW s \in Seq(Nat), s # <<>>, Increasing(s)
    PROVE  /\ Head(s) \in Nat /\ Head(s) \in Range(s)
           /\ Tail(s) \in Seq(Nat) /\ Len(Tail(s)) = Len(s) - 1
           /\ Increasing(Tail(s))
           /\ \A i \in DOMAIN Tail(s) : Head(s) < Tail(s)[i] /\ Tail(s)[i] \in Range(s)
           /\ Range(s) = Range(Tail(s)) \cup {Head(s)}
<1>1. /\ Len(s) \in Nat /\ Len(s) > 0 /\ DOMAIN s = 1..Len(s)
      /\ Head(s) = s[1] /\ \A i \in DOMAIN s : s[i] \in Nat
  OBVIOUS
<1>2. /\ Tail(s) \in Seq(Nat) /\ Len(Tail(s)) = Len(s) - 1
      /\ DOMAIN Tail(s) = 1..(Len(s) - 1)
      /\ \A i \in 1..(Len(s) - 1) : Tail(s)[i] = s[i + 1]
  BY <1>1
<1>3. Increasing(Tail(s))
  <2> SUFFICES ASSUME NEW i \in 1..(Len(s) - 1), NEW j \in 1..(Len(s) - 1), i < j
               PROVE  s[i + 1] < s[j + 1]
    BY <1>2 DEF Increasing
  <2>1. i + 1 \in DOMAIN s /\ j + 1 \in DOMAIN s /\ i + 1 < j + 1
    BY <1>1
  <2> QED BY <2>1 DEF Increasing
<1>4. \A i \in DOMAIN Tail(s) : Head(s) < Tail(s)[i] /\ Tail(s)[i] \in Range(s)
  <2> SUFFICES ASSUME NEW i \in 1..(Len(s) - 1)
               PROVE  s[1] < s[i + 1] /\ s[i + 1] \in Range(s)
    BY <1>1, <1>2
  <2>1. 1 \in DOMAIN s /\ i + 1 \in DOMAIN s /\ 1 < i + 1
    BY <1>1
  <2> QED BY <2>1 DEF Increasing, Range
<1>5. Range(s) = Range(Tail(s)) \cup {Head(s)}
  <2>1. \A i \in DOMAIN s : i = 1 \/ (i - 1 \in 1..(Len(s) - 1) /\ s[i] = Tail(s)[i - 1])
    <3> SUFFICES ASSUME NEW i \in 1..Len(s), i # 1
                 PROVE  i - 1 \in 1..(Len(s) - 1) /\ s[i] = Tail(s)[i - 1]
      BY <1>1
    <3>1. i - 1 \in 1..(Len(s) - 1) /\ (i - 1) + 1 = i
      BY <1>1
    <3> QED BY <3>1, <1>2
  <2>2. Range(s) \subseteq Range(Tail(s)) \cup {Head(s)}
    <3> SUFFICES ASSUME NEW i \in DOMAIN s
                 PROVE  s[i] \in Range(Tail(s)) \/ s[i] = Head(s)
      BY DEF Range
    <3>1. CASE i = 1
      BY <3>1, <1>1
    <3>2. CASE i - 1 \in DOMAIN Tail(s) /\ s[i] = Tail(s)[i - 1]
      BY <3>2 DEF Range
    <3> QED BY <3>1, <3>2, <2>1, <1>2
  <2>3. Range(Tail(s)) \cup {Head(s)} \subseteq Range(s)
    BY <1>4, <1>1 DEF Range
  <2> QED BY <2>2, <2>3
<1>6. Head(s) \in Range(s)
  BY <1>1 DEF Range
<1> QED BY <1>1, <1>2, <1>3, <1>4, <1>5, <1>6

\* Two increasing sequences, one before the other, form an increasing one.
LEMMA Joined ==
    ASSUME NEW s \in Seq(Nat), NEW t \in Seq(Nat),
           Increasing(s), Increasing(t), Before(s, t)
    PROVE  /\ s \o t \in Seq(Nat)
           /\ Increasing(s \o t)
           /\ Range(s \o t) = Range(s) \cup Range(t)
<1>1. /\ Len(s) \in Nat /\ DOMAIN s = 1..Len(s) /\ \A i \in DOMAIN s : s[i] \in Nat
      /\ Len(t) \in Nat /\ DOMAIN t = 1..Len(t) /\ \A i \in DOMAIN t : t[i] \in Nat
  OBVIOUS
<1>2. s \o t \in Seq(Nat) /\ DOMAIN (s \o t) = 1..(Len(s) + Len(t))
  BY <1>1
<1>3. \A i \in 1..(Len(s) + Len(t)) :
          (s \o t)[i] = IF i <= Len(s) THEN s[i] ELSE t[i - Len(s)]
  BY <1>1
<1>4. \A i \in 1..(Len(s) + Len(t)) : i <= Len(s) \/ i - Len(s) \in DOMAIN t
  BY <1>1
<1>5. Increasing(s \o t)
  <2> SUFFICES ASSUME NEW i \in 1..(Len(s) + Len(t)), NEW j \in 1..(Len(s) + Len(t)), i < j
               PROVE  (s \o t)[i] < (s \o t)[j]
    BY <1>2 DEF Increasing
  <2>1. CASE j <= Len(s)
    <3>1. i \in DOMAIN s /\ j \in DOMAIN s /\ i <= Len(s)
      BY <2>1, <1>1
    <3> QED BY <3>1, <2>1, <1>3 DEF Increasing
  <2>2. CASE i <= Len(s) /\ j > Len(s)
    <3>1. i \in DOMAIN s /\ j - Len(s) \in DOMAIN t /\ ~(j <= Len(s))
      BY <2>2, <1>1
    <3> QED BY <3>1, <2>2, <1>3 DEF Before
  <2>3. CASE i > Len(s)
    <3>1. /\ i - Len(s) \in DOMAIN t /\ j - Len(s) \in DOMAIN t
          /\ i - Len(s) < j - Len(s) /\ ~(i <= Len(s)) /\ ~(j <= Len(s))
      BY <2>3, <1>1
    <3> QED BY <3>1, <1>3 DEF Increasing
  <2> QED BY <2>1, <2>2, <2>3, <1>1
<1>6. Range(s \o t) = Range(s) \cup Range(t)
  <2>1. Range(s \o t) \subseteq Range(s) \cup Range(t)
    BY <1>1, <1>2, <1>3, <1>4 DEF Range
  <2>2. \A i \in DOMAIN s : i \in 1..(Len(s) + Len(t)) /\ (s \o t)[i] = s[i]
    BY <1>1, <1>3
  <2>3. \A i \in DOMAIN t : /\ Len(s) + i \in 1..(Len(s) + Len(t))
                            /\ (s \o t)[Len(s) + i] = t[i]
    <3> SUFFICES ASSUME NEW i \in 1..Len(t)
                 PROVE  Len(s) + i \in 1..(Len(s) + Len(t)) /\ (s \o t)[Len(s) + i] = t[i]
      BY <1>1
    <3>1. /\ Len(s) + i \in 1..(Len(s) + Len(t))
          /\ ~(Len(s) + i <= Len(s)) /\ (Len(s) + i) - Len(s) = i
      BY <1>1
    <3> QED BY <3>1, <1>3
  <2>4. Range(s) \subseteq Range(s \o t)
    BY <2>2, <1>2 DEF Range
  <2>5. Range(t) \subseteq Range(s \o t)
    <3> SUFFICES ASSUME NEW i \in DOMAIN t
                 PROVE  t[i] \in Range(s \o t)
      BY DEF Range
    <3> QED BY <2>3, <1>2 DEF Range
  <2> QED BY <2>1, <2>4, <2>5
<1> QED BY <1>2, <1>5, <1>6

\* An element that is appended on either side of Before keeps it.
LEMMA BeforeAppend ==
    ASSUME NEW s \in Seq(Nat), NEW t \in Seq(Nat), NEW e \in Nat, Before(s, t)
    PROVE  /\ (\A i \in DOMAIN s : s[i] < e) => Before(s, Append(t, e))
           /\ (\A j \in DOMAIN t : e < t[j]) => Before(Append(s, e), t)
<1>1. ASSUME NEW u \in Seq(Nat)
      PROVE  \A i \in DOMAIN Append(u, e) : \/ i \in DOMAIN u /\ Append(u, e)[i] = u[i]
                                            \/ Append(u, e)[i] = e
  OBVIOUS
<1>2. /\ \A i \in DOMAIN Append(s, e) : (i \in DOMAIN s /\ Append(s, e)[i] = s[i]) \/ Append(s, e)[i] = e
      /\ \A i \in DOMAIN Append(t, e) : (i \in DOMAIN t /\ Append(t, e)[i] = t[i]) \/ Append(t, e)[i] = e
  BY <1>1
<1> QED BY <1>2 DEF Before

\* What comes before a sequence comes before its head and its tail.
LEMMA BeforeTail ==
    ASSUME NEW s \in Seq(Nat), NEW t \in Seq(Nat), t # <<>>
    PROVE  /\ Before(s, t) => Before(s, Tail(t)) /\ \A i \in DOMAIN s : s[i] < Head(t)
           /\ Before(t, s) => Before(Tail(t), s) /\ \A i \in DOMAIN s : Head(t) < s[i]
<1>1. /\ 1 \in DOMAIN t /\ Head(t) = t[1]
      /\ \A i \in DOMAIN Tail(t) : i + 1 \in DOMAIN t /\ Tail(t)[i] = t[i + 1]
  OBVIOUS
<1> QED BY <1>1 DEF Before
=============================================================================
