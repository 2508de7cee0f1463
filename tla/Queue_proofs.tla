---------------------------- MODULE Queue_proofs ----------------------------
(***************************************************************************)
(* Lemmas about queues of handlers: the sequence `replies' of the backend's *)
(* modules, in which a handler that sends a command takes the last place    *)
(* and the one whose reply arrives leaves the first.                        *)
(***************************************************************************)
EXTENDS Integers, Sequences, Functions, TLAPS, SequenceTheorems

\* Nobody is twice in q.
Distinct(q) == \A i, j \in DOMAIN q : q[i] = q[j] => i = j

\* s is in q, and t somewhere behind it.
Before(s, t, q) == \E i, j \in DOMAIN q : i < j /\ q[i] = s /\ q[j] = t

-----------------------------------------------------------------------------
\* Appending adds one element to the range of a sequence.
LEMMA RangeAppend ==
  ASSUME NEW S, NEW seq \in Seq(S), NEW e \in S
  PROVE  Range(Append(seq, e)) = Range(seq) \cup {e}
<1> DEFINE new == Append(seq, e)
<1>1. /\ DOMAIN seq = 1..Len(seq)
      /\ Len(seq) \in Nat
      /\ DOMAIN new = 1..(Len(seq) + 1)
  BY AppendProperties, LenProperties
<1>2. /\ \A i \in 1..Len(seq) : new[i] = seq[i]
      /\ new[Len(seq) + 1] = e
  BY AppendProperties
<1> HIDE DEF new
<1>3. Range(new) \subseteq Range(seq) \cup {e}
  BY <1>1, <1>2 DEF Range
<1>4. Range(seq) \cup {e} \subseteq Range(new)
  BY <1>1, <1>2 DEF Range
<1>5. QED BY <1>3, <1>4 DEF new

\* The empty sequence has an empty range.
LEMMA RangeEmpty == Range(<<>>) = {}
BY DEF Range

\* The range of a sequence over S is a subset of S.
LEMMA RangeSubset ==
  ASSUME NEW S, NEW seq \in Seq(S)
  PROVE  Range(seq) \subseteq S
BY LenProperties DEF Range

\* A sequence that is not empty is its head and its tail.
LEMMA HeadAndTail ==
  ASSUME NEW S, NEW q \in Seq(S), q # <<>>
  PROVE  /\ Len(q) \in Nat \ {0}
         /\ DOMAIN q = 1..Len(q)
         /\ Head(q) = q[1]
         /\ Head(q) \in S
         /\ Tail(q) \in Seq(S)
         /\ DOMAIN Tail(q) = 1..(Len(q) - 1)
         /\ \A i \in 1..(Len(q) - 1) : Tail(q)[i] = q[i + 1]
         /\ \A i \in 2..Len(q) : i - 1 \in DOMAIN Tail(q) /\ Tail(q)[i - 1] = q[i]
<1>1. Len(q) \in Nat \ {0} /\ DOMAIN q = 1..Len(q) /\ Head(q) = q[1]
  BY LenProperties, EmptySeq
<1>2. /\ Head(q) \in S
      /\ Tail(q) \in Seq(S)
      /\ Len(Tail(q)) = Len(q) - 1
      /\ DOMAIN Tail(q) = 1..Len(Tail(q))
      /\ \A i \in 1..Len(Tail(q)) : Tail(q)[i] = q[i + 1]
  BY HeadTailProperties, LenProperties
<1>3. \A i \in 2..Len(q) : i - 1 \in DOMAIN Tail(q) /\ Tail(q)[i - 1] = q[i]
  <2> SUFFICES ASSUME NEW i \in 2..Len(q)
               PROVE  i - 1 \in DOMAIN Tail(q) /\ Tail(q)[i - 1] = q[i]
    OBVIOUS
  <2>1. i - 1 \in 1..Len(Tail(q)) /\ (i - 1) + 1 = i
    BY <1>1, <1>2
  <2>2. QED BY <2>1, <1>2
<1>4. QED BY <1>1, <1>2, <1>3

\* Who leaves the queue was in front of all others, and they keep their order.
LEMMA LeaveQueue ==
  ASSUME NEW S, NEW q \in Seq(S), q # <<>>, Distinct(q)
  PROVE  /\ Tail(q) \in Seq(S)
         /\ Head(q) \in Range(q)
         /\ Distinct(Tail(q))
         /\ Range(Tail(q)) = Range(q) \ {Head(q)}
         /\ \A s, t : Before(s, t, q) /\ s # Head(q) => Before(s, t, Tail(q))
         /\ \A s, t : Before(s, t, Tail(q)) => Before(s, t, q)
         /\ \A s : ~Before(s, Head(q), q)
<1> DEFINE rest == Tail(q)
<1>1. /\ Len(q) \in Nat \ {0}
      /\ DOMAIN q = 1..Len(q)
      /\ Head(q) = q[1]
      /\ rest \in Seq(S)
      /\ DOMAIN rest = 1..(Len(q) - 1)
      /\ \A i \in 1..(Len(q) - 1) : rest[i] = q[i + 1]
      /\ \A i \in 2..Len(q) : i - 1 \in DOMAIN rest /\ rest[i - 1] = q[i]
  BY HeadAndTail
<1> HIDE DEF rest
<1>2. /\ 1 \in DOMAIN q
      /\ Head(q) \in Range(q)
      /\ \A i \in DOMAIN rest :
           i + 1 \in DOMAIN q /\ i + 1 # 1 /\ rest[i] = q[i + 1]
  <2>1. 1 \in DOMAIN q
    BY <1>1
  <2>2. QED BY <2>1, <1>1 DEF Range
<1>3. Distinct(rest)
  <2> SUFFICES ASSUME NEW i \in DOMAIN rest, NEW j \in DOMAIN rest, rest[i] = rest[j]
               PROVE  i = j
    BY DEF Distinct
  <2>1. i + 1 = j + 1
    BY <1>2 DEF Distinct
  <2>2. QED BY <2>1, <1>1
<1>4. Range(rest) = Range(q) \ {Head(q)}
  <2>1. ASSUME NEW i \in DOMAIN rest PROVE rest[i] \in Range(q) \ {Head(q)}
    <3>1. rest[i] # q[1]
      BY <1>2 DEF Distinct
    <3>2. QED BY <3>1, <1>1, <1>2 DEF Range
  <2>2. ASSUME NEW i \in DOMAIN q, q[i] # Head(q) PROVE q[i] \in Range(rest)
    <3>1. i - 1 \in DOMAIN rest /\ rest[i - 1] = q[i]
      BY <1>1, <2>2
    <3>2. QED BY <3>1 DEF Range
  <2>3. QED BY <2>1, <2>2 DEF Range
<1>5. ASSUME NEW s, NEW t, Before(s, t, q), s # Head(q) PROVE Before(s, t, rest)
  <2>1. PICK i, j \in DOMAIN q : i < j /\ q[i] = s /\ q[j] = t
    BY <1>5 DEF Before
  <2>2. i # 1
    BY <2>1, <1>1, <1>5
  <2>3. /\ i - 1 \in DOMAIN rest /\ rest[i - 1] = s
        /\ j - 1 \in DOMAIN rest /\ rest[j - 1] = t
        /\ i - 1 < j - 1
    BY <2>1, <2>2, <1>1
  <2>4. QED BY <2>3 DEF Before
<1>6. ASSUME NEW s, NEW t, Before(s, t, rest) PROVE Before(s, t, q)
  <2>1. PICK i, j \in DOMAIN rest : i < j /\ rest[i] = s /\ rest[j] = t
    BY <1>6 DEF Before
  <2>2. /\ i + 1 \in DOMAIN q /\ q[i + 1] = s
        /\ j + 1 \in DOMAIN q /\ q[j + 1] = t
        /\ i + 1 < j + 1
    BY <2>1, <1>1
  <2>3. QED BY <2>2 DEF Before
<1>7. ASSUME NEW s, Before(s, Head(q), q) PROVE FALSE
  <2>1. PICK i, j \in DOMAIN q : i < j /\ q[j] = Head(q)
    BY <1>7 DEF Before
  <2>2. j = 1
    BY <2>1, <1>1 DEF Distinct
  <2>3. QED BY <2>1, <2>2, <1>1
<1>8. QED BY <1>1, <1>2, <1>3, <1>4, <1>5, <1>6, <1>7 DEF rest

\* Who joins the queue is behind all others, and they keep their order.
LEMMA JoinQueue ==
  ASSUME NEW S, NEW q \in Seq(S), NEW e \in S, e \notin Range(q), Distinct(q)
  PROVE  /\ Append(q, e) \in Seq(S)
         /\ Distinct(Append(q, e))
         /\ Range(Append(q, e)) = Range(q) \cup {e}
         /\ \A s, t : Before(s, t, q) => Before(s, t, Append(q, e))
         /\ \A s, t : Before(s, t, Append(q, e)) /\ t # e => Before(s, t, q)
         /\ \A s \in Range(q) : Before(s, e, Append(q, e))
         /\ \A s : ~Before(e, s, Append(q, e))
<1> DEFINE new == Append(q, e)
<1>1. /\ Len(q) \in Nat
      /\ DOMAIN q = 1..Len(q)
      /\ new \in Seq(S)
      /\ DOMAIN new = 1..(Len(q) + 1)
      /\ \A i \in 1..Len(q) : new[i] = q[i]
      /\ new[Len(q) + 1] = e
  BY AppendProperties, LenProperties
<1>2. Range(new) = Range(q) \cup {e}
  BY RangeAppend
<1> HIDE DEF new
<1>3. \A i \in DOMAIN new : i \in DOMAIN q \/ i = Len(q) + 1
  BY <1>1
<1>4. \A i \in DOMAIN q : q[i] # e
  BY DEF Range
<1>5. Distinct(new)
  BY <1>1, <1>3, <1>4 DEF Distinct
<1>6. ASSUME NEW s, NEW t, Before(s, t, q) PROVE Before(s, t, new)
  BY <1>6, <1>1 DEF Before
<1>7. ASSUME NEW s, NEW t, Before(s, t, new), t # e PROVE Before(s, t, q)
  BY <1>7, <1>1, <1>3 DEF Before
<1>8. ASSUME NEW s \in Range(q) PROVE Before(s, e, new)
  <2>1. PICK i \in DOMAIN q : q[i] = s
    BY <1>8 DEF Range
  <2>2. /\ i \in DOMAIN new /\ new[i] = s
        /\ Len(q) + 1 \in DOMAIN new
        /\ i < Len(q) + 1
    BY <2>1, <1>1
  <2>3. QED BY <2>2, <1>1 DEF Before
<1>9. ASSUME NEW s, Before(e, s, new) PROVE FALSE
  <2>1. PICK i, j \in DOMAIN new : i < j /\ new[i] = e
    BY <1>9 DEF Before
  <2>2. i = Len(q) + 1
    BY <2>1, <1>1, <1>3, <1>4
  <2>3. QED BY <2>1, <2>2, <1>1
<1>10. QED BY <1>1, <1>2, <1>5, <1>6, <1>7, <1>8, <1>9 DEF new

\* Who leaves the queue and joins it again is behind all others, and they keep
\* their order.
LEMMA RejoinQueue ==
  ASSUME NEW S, NEW q \in Seq(S), q # <<>>, Distinct(q),
         NEW new, new = Append(Tail(q), Head(q))
  PROVE  /\ new \in Seq(S)
         /\ Distinct(new)
         /\ Range(new) = Range(q)
         /\ \A s, t : Before(s, t, q) /\ s # Head(q) => Before(s, t, new)
         /\ \A s, t : Before(s, t, new) /\ t # Head(q) => Before(s, t, q)
         /\ \A s \in Range(q) \ {Head(q)} : Before(s, Head(q), new)
         /\ \A s : ~Before(Head(q), s, new)
<1>1. /\ Tail(q) \in Seq(S)
      /\ Head(q) \in Range(q)
      /\ Head(q) \in S
      /\ Distinct(Tail(q))
      /\ Range(Tail(q)) = Range(q) \ {Head(q)}
      /\ \A s, t : Before(s, t, q) /\ s # Head(q) => Before(s, t, Tail(q))
      /\ \A s, t : Before(s, t, Tail(q)) => Before(s, t, q)
  BY LeaveQueue, HeadAndTail
<1>2. Head(q) \notin Range(Tail(q))
  BY <1>1
<1>3. /\ new \in Seq(S)
      /\ Distinct(new)
      /\ Range(new) = Range(Tail(q)) \cup {Head(q)}
      /\ \A s, t : Before(s, t, Tail(q)) => Before(s, t, new)
      /\ \A s, t : Before(s, t, new) /\ t # Head(q) => Before(s, t, Tail(q))
      /\ \A s \in Range(Tail(q)) : Before(s, Head(q), new)
      /\ \A s : ~Before(Head(q), s, new)
  BY <1>1, <1>2, JoinQueue
<1>4. Range(new) = Range(q)
  <2>1. Range(new) = (Range(q) \ {Head(q)}) \cup {Head(q)}
    BY <1>1, <1>3
  <2>2. QED BY <2>1, <1>1
<1>5. QED BY <1>1, <1>3, <1>4

\* The empty queue.
LEMMA EmptyQueue ==
  /\ Distinct(<<>>)
  /\ Range(<<>>) = {}
  /\ \A s, t : ~Before(s, t, <<>>)
BY DEF Distinct, Range, Before

\* A sequence that is not empty holds its head and what its tail holds.
LEMMA RangeHeadTail ==
  ASSUME NEW S, NEW q \in Seq(S), q # <<>>
  PROVE  /\ Tail(q) \in Seq(S)
         /\ Head(q) \in S
         /\ Range(q) = Range(Tail(q)) \cup {Head(q)}
<1> DEFINE rest == Tail(q)
<1>1. /\ Len(q) \in Nat \ {0}
      /\ DOMAIN q = 1..Len(q)
      /\ Head(q) = q[1]
      /\ Head(q) \in S
      /\ rest \in Seq(S)
      /\ DOMAIN rest = 1..(Len(q) - 1)
      /\ \A i \in 1..(Len(q) - 1) : rest[i] = q[i + 1]
      /\ \A i \in 2..Len(q) : i - 1 \in DOMAIN rest /\ rest[i - 1] = q[i]
  BY HeadAndTail
<1> HIDE DEF rest
<1>2. Range(rest) \cup {Head(q)} \subseteq Range(q)
  <2>1. 1 \in DOMAIN q /\ \A i \in 1..(Len(q) - 1) : i + 1 \in DOMAIN q
    BY <1>1
  <2>2. QED BY <1>1, <2>1 DEF Range
<1>3. Range(q) \subseteq Range(rest) \cup {Head(q)}
  <2> SUFFICES ASSUME NEW i \in DOMAIN q PROVE q[i] \in Range(rest) \cup {Head(q)}
    BY DEF Range
  <2>1. CASE i = 1
    BY <1>1, <2>1
  <2>2. CASE i # 1
    <3>1. i \in 2..Len(q)
      BY <1>1, <2>2
    <3>2. i - 1 \in DOMAIN rest /\ rest[i - 1] = q[i]
      BY <1>1, <3>1
    <3>3. QED BY <3>2 DEF Range
  <2>3. QED BY <2>1, <2>2
<1>4. QED BY <1>1, <1>2, <1>3 DEF rest
=============================================================================
