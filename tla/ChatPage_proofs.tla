--------------------------- MODULE ChatPage_proofs ---------------------------
(***************************************************************************)
(* Theorems about ChatPage, for every number of messages, visits, retries  *)
(* and lost connections.                                                   *)
(***************************************************************************)
EXTENDS ChatPage, Queue_proofs, FiniteSetTheorems

-----------------------------------------------------------------------------
(* Sequences.                                                               *)

\* x is in q once at most.
Once(q, x) == \A i, j \in DOMAIN q : q[i] = x /\ q[j] = x => i = j

\* What is not there is there once at most.
LEMMA OnceAbsent == \A q, x : x \notin Range(q) => Once(q, x)
BY DEF Once, Range

\* A concatenation holds what its parts hold, and once what only one of them holds
\* once.
LEMMA Concat ==
  ASSUME NEW S, NEW a \in Seq(S), NEW b \in Seq(S)
  PROVE  /\ a \o b \in Seq(S)
         /\ Range(a \o b) = Range(a) \cup Range(b)
         /\ \A x : /\ Once(a, x) /\ Once(b, x)
                   /\ x \notin Range(a) \/ x \notin Range(b)
                   => Once(a \o b, x)
<1> DEFINE c == a \o b
<1>1. /\ c \in Seq(S)
      /\ Len(a) \in Nat /\ Len(b) \in Nat
      /\ DOMAIN a = 1..Len(a) /\ DOMAIN b = 1..Len(b)
      /\ DOMAIN c = 1..(Len(a) + Len(b))
      /\ \A i \in 1..(Len(a) + Len(b)) :
           c[i] = IF i <= Len(a) THEN a[i] ELSE b[i - Len(a)]
  BY ConcatProperties, LenProperties
<1> HIDE DEF c
<1>2. /\ \A i \in DOMAIN c : \/ i \in DOMAIN a /\ c[i] = a[i]
                             \/ i - Len(a) \in DOMAIN b /\ c[i] = b[i - Len(a)]
      /\ \A i \in DOMAIN a : i \in DOMAIN c /\ c[i] = a[i]
      /\ \A i \in DOMAIN b : i + Len(a) \in DOMAIN c /\ c[i + Len(a)] = b[i]
  BY <1>1
<1>3. Range(c) = Range(a) \cup Range(b)
  BY <1>2 DEF Range
<1>4. ASSUME NEW x, Once(a, x), Once(b, x), x \notin Range(a) \/ x \notin Range(b)
      PROVE  Once(c, x)
  <2> SUFFICES ASSUME NEW i \in DOMAIN c, NEW j \in DOMAIN c, c[i] = x, c[j] = x
               PROVE  i = j
    BY DEF Once
  <2>1. /\ \A k \in DOMAIN a : a[k] = x => x \in Range(a)
        /\ \A k \in DOMAIN b : b[k] = x => x \in Range(b)
    BY DEF Range
  <2>2. \/ i \in DOMAIN a /\ j \in DOMAIN a /\ a[i] = x /\ a[j] = x
        \/ /\ i - Len(a) \in DOMAIN b /\ j - Len(a) \in DOMAIN b
           /\ b[i - Len(a)] = x /\ b[j - Len(a)] = x
    BY <1>2, <1>4, <2>1
  <2>3. i \in Nat /\ j \in Nat
    BY <1>1
  <2>4. i = j \/ i - Len(a) = j - Len(a)
    BY <2>2, <1>4 DEF Once
  <2>5. QED BY <2>4, <2>3, <1>1
<1>5. QED BY <1>1, <1>3, <1>4 DEF c

\* The same of one element more.
LEMMA AppendOnce ==
  ASSUME NEW S, NEW q \in Seq(S), NEW e \in S
  PROVE  /\ Append(q, e) \in Seq(S)
         /\ Range(Append(q, e)) = Range(q) \cup {e}
         /\ \A x : Once(q, x) /\ (x # e \/ x \notin Range(q)) => Once(Append(q, e), x)
<1> DEFINE new == Append(q, e)
<1>1. /\ new \in Seq(S)
      /\ DOMAIN q = 1..Len(q)
      /\ Len(q) \in Nat
      /\ DOMAIN new = 1..(Len(q) + 1)
      /\ \A i \in 1..Len(q) : new[i] = q[i]
      /\ new[Len(q) + 1] = e
  BY AppendProperties, LenProperties
<1>2. Range(new) = Range(q) \cup {e}
  BY RangeAppend
<1> HIDE DEF new
<1>3. ASSUME NEW x, Once(q, x), x # e \/ x \notin Range(q)
      PROVE  Once(new, x)
  <2>1. \A i \in DOMAIN q : q[i] = x => x \in Range(q)
    BY DEF Range
  <2>2. \A i \in DOMAIN new : i \in DOMAIN q \/ i = Len(q) + 1
    BY <1>1
  <2>3. QED BY <1>1, <1>3, <2>1, <2>2 DEF Once
<1>4. QED BY <1>1, <1>2, <1>3 DEF new

\* What is there once at most is gone when it leaves.
LEMMA TailOnce ==
  ASSUME NEW S, NEW q \in Seq(S), q # <<>>
  PROVE  /\ Tail(q) \in Seq(S)
         /\ Head(q) \in S
         /\ Range(q) = Range(Tail(q)) \cup {Head(q)}
         /\ \A x : Once(q, x) => Once(Tail(q), x)
         /\ \A x : Once(q, x) /\ x = Head(q) => x \notin Range(Tail(q))
<1> DEFINE rest == Tail(q)
<1>1. /\ Len(q) \in Nat \ {0}
      /\ DOMAIN q = 1..Len(q)
      /\ Head(q) = q[1]
      /\ DOMAIN rest = 1..(Len(q) - 1)
      /\ \A i \in 1..(Len(q) - 1) : rest[i] = q[i + 1]
  BY HeadAndTail
<1>2. /\ rest \in Seq(S)
      /\ Head(q) \in S
      /\ Range(q) = Range(rest) \cup {Head(q)}
  BY RangeHeadTail
<1> HIDE DEF rest
<1>3. \A i \in DOMAIN rest : i \in Nat /\ i + 1 \in DOMAIN q /\ rest[i] = q[i + 1]
  BY <1>1
<1>4. ASSUME NEW x, Once(q, x)
      PROVE  Once(rest, x)
  <2> SUFFICES ASSUME NEW i \in DOMAIN rest, NEW j \in DOMAIN rest,
                      rest[i] = x, rest[j] = x
               PROVE  i = j
    BY DEF Once
  <2>1. i + 1 = j + 1
    BY <1>3, <1>4 DEF Once
  <2>2. QED BY <2>1, <1>3
<1>5. ASSUME NEW x, Once(q, x), x = Head(q), x \in Range(rest)
      PROVE  FALSE
  <2>1. PICK i \in DOMAIN rest : rest[i] = x
    BY <1>5 DEF Range
  <2>2. i + 1 = 1
    BY <1>1, <1>3, <1>5, <2>1 DEF Once
  <2>3. QED BY <2>2, <2>1, <1>1
<1>6. QED BY <1>2, <1>4, <1>5 DEF rest

\* One element.
LEMMA Single ==
  ASSUME NEW S, NEW e \in S
  PROVE  <<e>> \in Seq(S) /\ Range(<<e>>) = {e} /\ \A x : Once(<<e>>, x)
<1>1. <<e>> \in Seq(S) /\ DOMAIN <<e>> = {1} /\ <<e>>[1] = e
  OBVIOUS
<1>2. QED BY <1>1 DEF Range, Once

\* What is filtered from q is what q holds of T, and once what q holds once.
LEMMA Filters ==
  ASSUME NEW S, NEW q \in Seq(S), NEW T
  PROVE  /\ Filter(q, T) \in Seq(S \cap T)
         /\ Range(Filter(q, T)) = Range(q) \cap T
         /\ \A x : Once(q, x) => Once(Filter(q, T), x)
<1> DEFINE at == {i \in DOMAIN q : q[i] \in T}
           n == Cardinality(at)
           rank(i) == Cardinality({j \in at : j <= i})
           Place(k) == CHOOSE i \in at : rank(i) = k
           new == [k \in 1..n |-> q[Place(k)]]
<1>1. /\ DOMAIN q = 1..Len(q) /\ Len(q) \in Nat
      /\ \A i \in DOMAIN q : q[i] \in S
  BY LenProperties, ElementOfSeq
<1>2. /\ at \in SUBSET (1..Len(q))
      /\ \A i \in at : i \in DOMAIN q /\ q[i] \in S \cap T
      /\ \A i \in DOMAIN q : q[i] \in T => i \in at
  BY <1>1
<1>3. Filter(q, T) = new
  BY DEF Filter
<1> HIDE DEF at
<1>4. IsFiniteSet(at) /\ n \in Nat
  <2>1. IsFiniteSet(1..Len(q))
    BY <1>1, FS_Interval
  <2>2. IsFiniteSet(at)
    BY <1>2, <2>1, FS_Subset
  <2>3. QED BY <2>2, FS_CardinalityType
<1>5. \A i \in at : rank(i) \in 1..n
  <2> SUFFICES ASSUME NEW i \in at
               PROVE  rank(i) \in 1..n
    OBVIOUS
  <2> DEFINE below == {j \in at : j <= i}
  <2>1. below \in SUBSET at /\ i \in below
    BY <1>2
  <2> HIDE DEF below
  <2>2. /\ IsFiniteSet(below)
        /\ Cardinality(below) <= Cardinality(at)
    BY <2>1, <1>4, FS_Subset
  <2>3. Cardinality(below) \in Nat
    BY <2>2, FS_CardinalityType
  <2>4. Cardinality(below) # 0
    BY <2>1, <2>2, FS_EmptySet
  <2>5. Cardinality(below) \in 1..n
    BY <2>2, <2>3, <2>4, <1>4
  <2>6. QED BY <2>5 DEF below
<1>6. \A i, j \in at : i < j => rank(i) # rank(j)
  <2> SUFFICES ASSUME NEW i \in at, NEW j \in at, i < j, rank(i) = rank(j)
               PROVE  FALSE
    OBVIOUS
  <2> DEFINE low == {k \in at : k <= i}
             high == {k \in at : k <= j}
  <2>1. low \in SUBSET high /\ j \in high /\ j \notin low /\ high \in SUBSET at
    <3>1. \A k \in at : k \in Int
      BY <1>1, <1>2
    <3>2. \A k \in at : k <= i => k <= j
      BY <3>1
    <3>3. ~(j <= i)
      BY <3>1
    <3>4. QED BY <3>1, <3>2, <3>3
  <2>2. Cardinality(low) = Cardinality(high)
    OBVIOUS
  <2> HIDE DEF low, high
  <2>3. IsFiniteSet(high)
    BY <2>1, <1>4, FS_Subset
  <2>4. high = low
    BY <2>1, <2>2, <2>3, FS_Subset
  <2>5. QED BY <2>1, <2>4
<1>7. \A i, j \in at : rank(i) = rank(j) => i = j
  <2>1. \A i, j \in at : i = j \/ i < j \/ j < i
    BY <1>2
  <2>2. QED BY <2>1, <1>6
<1>8. \A k \in 1..n : \E i \in at : rank(i) = k
  <2> DEFINE f == [i \in at |-> rank(i)]
  <2>1. f \in Injection(at, 1..n)
    <3>1. f \in [at -> 1..n]
      BY <1>5
    <3>2. \A i, j \in at : f[i] = f[j] => i = j
      BY <1>7
    <3>3. QED BY <3>1, <3>2 DEF Injection, IsInjective
  <2>2. IsFiniteSet(1..n) /\ Cardinality(1..n) = n
    BY <1>4, FS_Interval
  <2> HIDE DEF f
  <2>3. f \in Surjection(at, 1..n)
    BY <2>1, <2>2, FS_Injection
  <2>4. QED BY <2>3 DEF Surjection, f
<1> HIDE DEF n, rank
<1>9. \A k \in 1..n : Place(k) \in at /\ rank(Place(k)) = k
  BY <1>8
<1>10. \A i \in at : Place(rank(i)) = i
  BY <1>5, <1>7, <1>9
<1> HIDE DEF Place
<1>11. new \in Seq(S \cap T)
  <2>1. new \in [1..n -> S \cap T]
    BY <1>2, <1>9
  <2>2. QED BY <2>1, <1>4, SeqDef
<1>12. Range(new) = Range(q) \cap T
  <2>1. ASSUME NEW x \in Range(new)
        PROVE  x \in Range(q) \cap T
    BY <2>1, <1>2, <1>9 DEF Range
  <2>2. ASSUME NEW x \in Range(q), x \in T
        PROVE  x \in Range(new)
    <3>1. PICK i \in DOMAIN q : q[i] = x
      BY DEF Range
    <3>2. i \in at
      BY <3>1, <2>2, <1>2
    <3>3. rank(i) \in DOMAIN new /\ new[rank(i)] = x
      BY <3>1, <3>2, <1>5, <1>10
    <3>4. QED BY <3>3 DEF Range
  <2>3. QED BY <2>1, <2>2
<1>13. ASSUME NEW x, Once(q, x)
       PROVE  Once(new, x)
  <2> SUFFICES ASSUME NEW k \in 1..n, NEW l \in 1..n, new[k] = x, new[l] = x
               PROVE  k = l
    BY DEF Once
  <2>1. Place(k) = Place(l)
    BY <1>2, <1>9, <1>13 DEF Once
  <2>2. QED BY <2>1, <1>9
<1>14. QED BY <1>3, <1>11, <1>12, <1>13

-----------------------------------------------------------------------------
(* Packets.  What a step does to the two channels is stated once.           *)

FromServer == ToPage \cup Batches

\* Packets are the same if they say the same.
LEMMA SamePacket ==
  /\ \A k, l, x, y : About(k, x) = About(l, y) => k = l /\ x = y
  /\ \A k, l, x : Packet(k) # About(l, x)
  /\ \A k, e, ms : Packet(k) # Batch(e, ms)
  /\ \A k, x, e, ms : About(k, x) # Batch(e, ms)
  /\ \A e, f, ms, ns : Batch(e, ms) = Batch(f, ns) => e = f /\ ms = ns
  /\ \A k, l : Packet(k) = Packet(l) => k = l
<1>1. /\ \A k, x : /\ DOMAIN About(k, x) = {"kind", "of"}
                   /\ About(k, x).kind = k /\ About(k, x).of = x
      /\ \A k : DOMAIN Packet(k) = {"kind"} /\ Packet(k).kind = k
      /\ \A e, ms : /\ DOMAIN Batch(e, ms) = {"kind", "of", "msgs"}
                    /\ Batch(e, ms).of = e /\ Batch(e, ms).msgs = ms
  BY DEF About, Packet, Batch
<1>2. "of" \notin {"kind"} /\ "msgs" \notin {"kind", "of"} /\ "msgs" \notin {"kind"}
  OBVIOUS
<1>3. \A k, l, x : Packet(k) # About(l, x)
  BY <1>1, <1>2, Zenon
<1>4. /\ \A k, e, ms : Packet(k) # Batch(e, ms)
      /\ \A k, x, e, ms : About(k, x) # Batch(e, ms)
  BY <1>1, <1>2, Zenon
<1>5. ASSUME NEW k, NEW l, NEW x, NEW y, About(k, x) = About(l, y)
      PROVE  k = l /\ x = y
  BY <1>1, <1>5
<1>6. ASSUME NEW e, NEW f, NEW ms, NEW ns, Batch(e, ms) = Batch(f, ns)
      PROVE  e = f /\ ms = ns
  BY <1>1, <1>6
<1>7. ASSUME NEW k, NEW l, Packet(k) = Packet(l)
      PROVE  k = l
  BY <1>1, <1>7
<1>8. QED BY <1>3, <1>4, <1>5, <1>6, <1>7

\* What the page sends and hears are packets of the two channels.
LEMMA PacketTypes ==
  /\ {Packet("register"), Packet("get")} \subseteq ToServer
  /\ \A e \in 1..Effects : {About("ready", e), About("tookBatch", e)} \subseteq ToServer
  /\ \A m \in Msgs : About("took", m) \in ToServer /\ About("message", m) \in FromServer
  /\ \A s \in Sends : /\ About("send", s) \in ToServer
                      /\ {About("ack", s), About("messageError", s)} \subseteq FromServer
  /\ \A k \in {"key", "null", "keyError", "drainError"} : Packet(k) \in FromServer
  /\ \A e \in 1..Effects : \A ms \in Seq(Msgs) :
       Batch(e, ms) \in Batches /\ Batch(e, ms) \in FromServer
BY DEF ToServer, ToPage, FromServer, Batches, Batch

\* A batch is what its emitter has put together.
LEMMA BatchIs ==
  ASSUME NEW p \in FromServer, p.kind = "inbox"
  PROVE  /\ p \in Batches
         /\ p = Batch(p.of, p.msgs)
         /\ p.of \in 1..Effects /\ p.msgs \in Seq(Msgs)
<1>1. p \notin ToPage
  BY DEF ToPage, Packet, About
<1>2. p \in Batches
  BY <1>1 DEF FromServer
<1>3. p = Batch(p.of, p.msgs) /\ p.of \in 1..Effects /\ p.msgs \in Seq(Msgs)
  BY <1>2 DEF Batches, Batch
<1>4. QED BY <1>2, <1>3

\* A packet reaches the server.
LEMMA Arrived ==
  ASSUME TypeOK, NEW p, Arrives(p)
  PROVE  /\ link = "up"
         /\ toServer' \in Seq(ToServer)
         /\ Range(toServer) = Range(toServer') \cup {p}
         /\ \A x : Once(toServer, x) => Once(toServer', x)
         /\ Once(toServer, p) => p \notin Range(toServer')
<1>1. /\ toServer \in Seq(ToServer) /\ toServer # <<>> /\ link = "up"
      /\ toServer' = Tail(toServer) /\ p = Head(toServer)
  BY DEF TypeOK, Arrives
<1>2. QED BY <1>1, TailOnce, Zenon

\* A packet reaches the page.
LEMMA ReachesPage ==
  ASSUME TypeOK, NEW p, Heard(p)
  PROVE  /\ link = "up"
         /\ p \in FromServer
         /\ toPage' \in Seq(FromServer)
         /\ Range(toPage) = Range(toPage') \cup {p}
         /\ \A x : Once(toPage, x) => Once(toPage', x)
         /\ Once(toPage, p) => p \notin Range(toPage')
<1>1. /\ toPage \in Seq(FromServer) /\ toPage # <<>> /\ link = "up"
      /\ toPage' = Tail(toPage) /\ p = Head(toPage)
  BY DEF TypeOK, Heard, FromServer
<1>2. QED BY <1>1, TailOnce, Zenon

\* The server emits.
LEMMA ServerEmits ==
  ASSUME TypeOK, NEW p \in FromServer, toPage' = Append(toPage, p)
  PROVE  /\ toPage' \in Seq(FromServer)
         /\ Range(toPage') = Range(toPage) \cup {p}
         /\ \A x : Once(toPage, x) /\ (x # p \/ x \notin Range(toPage))
              => Once(toPage', x)
<1>1. toPage \in Seq(FromServer)
  BY DEF TypeOK, FromServer
<1>2. QED BY <1>1, AppendOnce

\* The page emits.
LEMMA PageEmits ==
  ASSUME TypeOK, NEW ps \in Seq(ToServer), Emit(ps)
  PROVE  /\ toServer' \in Seq(ToServer)
         /\ Range(toServer') = Range(toServer) \cup Range(ps)
         /\ \A x : /\ Once(toServer, x) /\ Once(ps, x)
                   /\ x \notin Range(toServer) \/ x \notin Range(ps)
                   => Once(toServer', x)
<1>1. toServer \in Seq(ToServer) /\ toServer' = toServer \o ps
  BY DEF TypeOK, Emit
<1>2. QED BY <1>1, Concat

\* What a mount emits.
LEMMA MountPackets ==
         LET ps == IF Effects = 1 THEN MountEffect(1) ELSE MountEffect(1) \o MountEffect(2)
         IN  /\ ps \in Seq(ToServer)
             /\ Range(ps) = {Packet("register")} \cup {About("ready", e) : e \in 1..Effects}
             /\ \A e \in 1..Effects : Once(ps, About("ready", e))
<1> DEFINE asks(e) == About("ready", e)
<1>1. ASSUME NEW e \in 1..Effects
      PROVE  /\ MountEffect(e) \in Seq(ToServer)
             /\ Range(MountEffect(e)) = {Packet("register"), asks(e)}
             /\ \A f : Once(MountEffect(e), asks(f))
  <2>1. Packet("register") \in ToServer /\ asks(e) \in ToServer
    BY PacketTypes
  <2>2. Packet("register") # asks(e)
    BY SamePacket
  <2>3. /\ DOMAIN MountEffect(e) = {1, 2}
        /\ MountEffect(e)[1] = Packet("register") /\ MountEffect(e)[2] = asks(e)
        /\ MountEffect(e) \in Seq(ToServer)
    BY <2>1 DEF MountEffect
  <2>4. Range(MountEffect(e)) = {Packet("register"), asks(e)}
    BY <2>3 DEF Range
  <2>5. \A f : Once(MountEffect(e), asks(f))
    <3>1. \A f : Packet("register") # asks(f)
      BY SamePacket
    <3>2. QED BY <2>3, <3>1 DEF Once
  <2>6. QED BY <2>3, <2>4, <2>5
<1>2. CASE Effects = 1
  BY <1>1, <1>2
<1>3. CASE Effects = 2
  <2>1. /\ 1 \in 1..Effects /\ 2 \in 1..Effects
        /\ {asks(e) : e \in 1..Effects} = {asks(1), asks(2)}
    BY <1>3
  <2>2. Packet("register") # asks(1) /\ Packet("register") # asks(2) /\ asks(1) # asks(2)
    BY SamePacket
  <2> DEFINE ps == MountEffect(1) \o MountEffect(2)
  <2>3. /\ ps \in Seq(ToServer)
        /\ Range(ps) = Range(MountEffect(1)) \cup Range(MountEffect(2))
        /\ \A x : /\ Once(MountEffect(1), x) /\ Once(MountEffect(2), x)
                  /\ x \notin Range(MountEffect(1)) \/ x \notin Range(MountEffect(2))
                  => Once(ps, x)
    BY <1>1, <2>1, Concat
  <2>4. asks(1) \notin Range(MountEffect(2)) /\ asks(2) \notin Range(MountEffect(1))
    BY <1>1, <2>1, <2>2
  <2>5. \A e \in 1..Effects : Once(ps, asks(e))
    BY <1>1, <1>3, <2>1, <2>3, <2>4
  <2>6. Effects # 1
    BY <1>3
  <2>7. QED BY <1>1, <2>1, <2>3, <2>5, <2>6
<1>4. QED BY <1>2, <1>3, ChatAssumption

-----------------------------------------------------------------------------
(* What happens to messages.                                                *)

\* Blaming forgets no cause.
LEMMA Blames ==
  ASSUME TypeOK, NEW ms, NEW why \in Causes \ {"none"}, Blame(ms, why)
  PROVE  /\ cause' \in [Msgs -> Causes]
         /\ \A m \in Msgs : m \in ms \/ cause[m] # "none" => cause'[m] # "none"
<1>1. /\ cause \in [Msgs -> Causes]
      /\ cause' = [m \in Msgs |-> IF m \in ms /\ cause[m] = "none" THEN why ELSE cause[m]]
  BY DEF TypeOK, Blame
<1>2. QED BY <1>1

\* What is decrypted is shown once more or given up.
LEMMA Decrypts ==
  ASSUME TypeOK, NEW m \in Msgs, Decrypt(m)
  PROVE  /\ shown' \in [Msgs -> Nat] /\ cause' \in [Msgs -> Causes]
         /\ shown'[m] > 0 \/ cause'[m] # "none"
         /\ shown'[m] <= shown[m] + 1
         /\ \A n \in Msgs : /\ cause[n] # "none" => cause'[n] # "none"
                            /\ shown[n] <= shown'[n]
                            /\ n # m => shown'[n] = shown[n]
<1>1. shown \in [Msgs -> Nat] /\ cause \in [Msgs -> Causes]
  BY DEF TypeOK
<1>2. CASE Decryptable
  <2>1. cause' = cause /\ shown' = [shown EXCEPT ![m] = @ + 1]
    BY <1>2 DEF Decrypt
  <2>2. QED BY <2>1, <1>1
<1>3. CASE ~Decryptable
  <2>1. shown' = shown /\ Blame({m}, "undecryptable")
    BY <1>3 DEF Decrypt
  <2>2. /\ cause' \in [Msgs -> Causes]
        /\ \A n \in Msgs : n \in {m} \/ cause[n] # "none" => cause'[n] # "none"
    BY <2>1, Blames DEF Causes
  <2>3. QED BY <2>1, <2>2, <1>1
<1>4. QED BY <1>2, <1>3

\* The packets that ask for the key, and the acknowledgement after them.
LEMMA Asks ==
  ASSUME NEW n \in Nat, NEW ack \in ToServer
  PROVE  LET ps == [i \in 1..n |-> Packet("get")] \o <<ack>>
         IN  /\ ps \in Seq(ToServer)
             /\ ack \in Range(ps)
             /\ Range(ps) \subseteq {Packet("get"), ack}
             /\ \A x : x # Packet("get") => Once(ps, x)
<1> DEFINE gets == [i \in 1..n |-> Packet("get")]
<1>1. Packet("get") \in ToServer
  BY PacketTypes
<1>2. gets \in Seq(ToServer)
  <2>1. gets \in [1..n -> ToServer]
    BY <1>1
  <2>2. QED BY <2>1, SeqDef
<1>3. Range(gets) \subseteq {Packet("get")}
  BY DEF Range
<1> HIDE DEF gets
<1>4. \A x : x # Packet("get") => x \notin Range(gets) /\ Once(gets, x)
  BY <1>3, OnceAbsent
<1>5. <<ack>> \in Seq(ToServer) /\ Range(<<ack>>) = {ack} /\ \A x : Once(<<ack>>, x)
  BY Single
<1>6. /\ gets \o <<ack>> \in Seq(ToServer)
      /\ Range(gets \o <<ack>>) = Range(gets) \cup {ack}
      /\ \A x : Once(gets, x) /\ (x \notin Range(gets) \/ x \notin {ack})
           => Once(gets \o <<ack>>, x)
  <2>1. /\ gets \o <<ack>> \in Seq(ToServer)
        /\ Range(gets \o <<ack>>) = Range(gets) \cup Range(<<ack>>)
        /\ \A x : /\ Once(gets, x) /\ Once(<<ack>>, x)
                  /\ x \notin Range(gets) \/ x \notin Range(<<ack>>)
                  => Once(gets \o <<ack>>, x)
    BY <1>2, <1>5, Concat
  <2>2. QED BY <2>1, <1>5
<1>7. QED BY <1>3, <1>4, <1>6 DEF gets

\* q' is q and what ms adds to it.
Joins(q, ms, new) ==
  /\ new \in Seq(Msgs \cup Sends)
  /\ Range(new) = Range(q) \cup Range(ms)
  /\ \A x : /\ Once(q, x) /\ Once(ms, x)
            /\ x \notin Range(q) \/ x \notin Range(ms)
            => Once(new, x)

LEMMA Joined ==
  ASSUME NEW q \in Seq(Msgs \cup Sends), NEW ms \in Seq(Msgs \cup Sends)
  PROVE  Joins(q, ms, q \o ms)
BY Concat DEF Joins

\* What is received waits for the key, or for the callback that has it, and is
\* acknowledged.
LEMMA Receives ==
  ASSUME TypeOK, NEW ms \in Seq(Msgs), NEW ack \in ToServer, Receive(ms, ack)
  PROVE  /\ toServer' \in Seq(ToServer)
         /\ Range(toServer') \subseteq Range(toServer) \cup {Packet("get"), ack}
         /\ Range(toServer) \cup {ack} \subseteq Range(toServer')
         /\ \A x : /\ Once(toServer, x) /\ x # Packet("get")
                   /\ x # ack \/ x \notin Range(toServer)
                   => Once(toServer', x)
         /\ UNCHANGED <<keypair, cached, shown, cause>>
         /\ \/ Joins(ready, ms, ready') /\ UNCHANGED fetching
            \/ Joins(fetching, ms, fetching') /\ UNCHANGED ready
<1>1. /\ fetching \in Seq(Msgs \cup Sends) /\ ready \in Seq(Msgs \cup Sends)
      /\ ms \in Seq(Msgs \cup Sends)
  BY SeqMonotonic DEF TypeOK
<1>2. UNCHANGED <<keypair, cached, shown, cause>>
  BY DEF Receive
<1>3. CASE ready' = ready \o ms /\ Emit(<<ack>>) /\ UNCHANGED fetching
  <2>1. <<ack>> \in Seq(ToServer) /\ Range(<<ack>>) = {ack} /\ \A x : Once(<<ack>>, x)
    BY Single
  <2>2. /\ toServer' \in Seq(ToServer)
        /\ Range(toServer') = Range(toServer) \cup Range(<<ack>>)
        /\ \A x : /\ Once(toServer, x) /\ Once(<<ack>>, x)
                  /\ x \notin Range(toServer) \/ x \notin Range(<<ack>>)
                  => Once(toServer', x)
    BY <1>3, <2>1, PageEmits
  <2>3. Joins(ready, ms, ready')
    BY <1>1, <1>3, Joined
  <2>4. QED BY <1>2, <1>3, <2>1, <2>2, <2>3
<1>4. CASE /\ fetching' = fetching \o ms
           /\ Emit([i \in DOMAIN ms |-> Packet("get")] \o <<ack>>)
           /\ UNCHANGED ready
  <2>1. DOMAIN ms = 1..Len(ms) /\ Len(ms) \in Nat
    BY LenProperties
  <2> DEFINE ps == [i \in 1..Len(ms) |-> Packet("get")] \o <<ack>>
  <2>2. /\ ps \in Seq(ToServer)
        /\ ack \in Range(ps)
        /\ Range(ps) \subseteq {Packet("get"), ack}
        /\ \A x : x # Packet("get") => Once(ps, x)
    BY <2>1, Asks
  <2>3. Emit(ps)
    BY <1>4, <2>1
  <2> HIDE DEF ps
  <2>4. /\ toServer' \in Seq(ToServer)
        /\ Range(toServer') = Range(toServer) \cup Range(ps)
        /\ \A x : /\ Once(toServer, x) /\ Once(ps, x)
                  /\ x \notin Range(toServer) \/ x \notin Range(ps)
                  => Once(toServer', x)
    BY <2>2, <2>3, PageEmits
  <2>5. Joins(fetching, ms, fetching')
    BY <1>1, <1>4, Joined
  <2>6. QED BY <1>2, <1>4, <2>2, <2>4, <2>5
<1>5. QED BY <1>3, <1>4 DEF Receive

\* A callback takes what waits longest.
LEMMA Taken ==
  ASSUME TypeOK, ready # <<>>, ready' = Tail(ready)
  PROVE  /\ ready' \in Seq(Msgs \cup Sends)
         /\ Head(ready) \in Msgs \cup Sends
         /\ Range(ready) = Range(ready') \cup {Head(ready)}
         /\ \A x : Once(ready, x) => Once(ready', x)
         /\ \A x : Once(ready, x) /\ x = Head(ready) => x \notin Range(ready')
BY TailOnce DEF TypeOK

\* What is encrypted is sent, or has failed.
LEMMA SendsEncrypted ==
  ASSUME TypeOK, NEW s \in Sends, SendEncrypted(s)
  PROVE  /\ toServer' \in Seq(ToServer)
         /\ Range(toServer) \subseteq Range(toServer')
         /\ \A x \in Range(toServer') : x \in Range(toServer) \/ x = About("send", s)
         /\ \A x : Once(toServer, x) /\ x # About("send", s) => Once(toServer', x)
         /\ out' \in [Sends -> {"unwritten", "fetching", "shown", "acked", "absent"}]
         /\ \A t \in Sends : \/ out'[t] = out[t]
                             \/ out'[t] = "absent"
                             \/ out'[t] = "shown" /\ About("send", t) \in Range(toServer')
<1>1. out \in [Sends -> {"unwritten", "fetching", "shown", "acked", "absent"}]
      /\ toServer \in Seq(ToServer)
  BY DEF TypeOK
<1>2. CASE out' = [out EXCEPT ![s] = "shown"] /\ Emit(<<About("send", s)>>)
  <2>1. /\ <<About("send", s)>> \in Seq(ToServer)
        /\ Range(<<About("send", s)>>) = {About("send", s)}
        /\ \A x : Once(<<About("send", s)>>, x)
    BY Single, PacketTypes
  <2>2. /\ toServer' \in Seq(ToServer)
        /\ Range(toServer') = Range(toServer) \cup Range(<<About("send", s)>>)
        /\ \A x : /\ Once(toServer, x) /\ Once(<<About("send", s)>>, x)
                  /\ x \notin Range(toServer) \/ x \notin Range(<<About("send", s)>>)
                  => Once(toServer', x)
    BY <1>2, <2>1, PageEmits
  <2>3. QED BY <1>1, <1>2, <2>1, <2>2
<1>3. CASE out' = [out EXCEPT ![s] = "absent"] /\ UNCHANGED toServer
  BY <1>1, <1>3
<1>4. QED BY <1>2, <1>3 DEF SendEncrypted

-----------------------------------------------------------------------------
(* Types.                                                                   *)

LEMMA Bounds ==
  MaxRetries \in Nat /\ MaxSent \in Nat /\ MaxVisits \in Nat /\ MaxDrops \in Nat
BY ChatAssumption

LEMMA TypeInit == Init => TypeOK
<1> SUFFICES ASSUME Init
             PROVE  TypeOK
  OBVIOUS
<1>1. /\ inbox \in Seq(Msgs)
      /\ drain \in [1..Effects -> Seq(Msgs)]
      /\ toServer \in Seq(ToServer)
      /\ toPage \in Seq(ToPage \cup Batches)
      /\ fetching \in Seq(Msgs \cup Sends) /\ ready \in Seq(Msgs \cup Sends)
  BY DEF Init
<1>2. failures \in 0..MaxRetries /\ visits \in 0..MaxVisits /\ drops \in 0..MaxDrops
  BY Bounds DEF Init
<1>3. QED BY <1>1, <1>2 DEF Init, TypeOK, Causes, Fates

\* What the end of a connection leaves.
LEMMA Cuts ==
  ASSUME TypeOK, Cut
  PROVE  /\ toServer' \in Seq(ToServer)
         /\ toPage' \in Seq(ToPage \cup Batches)
         /\ drain' \in [1..Effects -> Seq(Msgs)]
         /\ doubt' \subseteq Sends
         /\ link' \in {"connecting", "up"}
<1>1. <<>> \in Seq(ToServer) /\ <<>> \in Seq(ToPage \cup Batches) /\ <<>> \in Seq(Msgs)
  OBVIOUS
<1>2. QED BY <1>1 DEF Cut, TypeOK

LEMMA TypeServer == TypeOK /\ ServerStep => TypeOK'
<1> SUFFICES ASSUME TypeOK, ServerStep
             PROVE  TypeOK'
  OBVIOUS
<1>1. CASE RegisterKey
  <2>1. toServer' \in Seq(ToServer)
    BY <1>1, Arrived DEF RegisterKey
  <2>2. toPage' \in Seq(FromServer)
    BY <1>1, ServerEmits, PacketTypes DEF RegisterKey, TypeOK, FromServer
  <2>3. QED BY <1>1, <2>1, <2>2
        DEF RegisterKey, TypeOK, FromServer, keyVars, retryVars, sendVars, boundVars
<1>2. CASE GetKey
  <2>1. toServer' \in Seq(ToServer)
    BY <1>2, Arrived DEF GetKey
  <2>2. toPage' \in Seq(FromServer)
    BY <1>2, ServerEmits, PacketTypes DEF GetKey
  <2>3. QED BY <1>2, <2>1, <2>2
        DEF GetKey, TypeOK, FromServer, serverVars, keyVars, retryVars, sendVars,
            boundVars
<1>3. ASSUME NEW e \in 1..Effects, InboxReady(e)
      PROVE  TypeOK'
  <2>1. toServer' \in Seq(ToServer)
    BY <1>3, Arrived DEF InboxReady
  <2>2. Batch(e, inbox) \in FromServer
    BY PacketTypes DEF TypeOK
  <2>3. toPage' \in Seq(FromServer)
    BY <1>3, <2>2, ServerEmits DEF InboxReady, TypeOK, FromServer
  <2>4. QED BY <1>3, <2>1, <2>3
        DEF InboxReady, TypeOK, FromServer, keyVars, retryVars, sendVars, boundVars
<1>4. ASSUME NEW e \in 1..Effects, BatchTaken(e)
      PROVE  TypeOK'
  <2>1. toServer' \in Seq(ToServer)
    BY <1>4, Arrived DEF BatchTaken
  <2>2. cause' \in [Msgs -> Causes]
    BY <1>4, Blames DEF BatchTaken, TypeOK, Causes
  <2>3. inbox' \in Seq(Msgs) /\ drain' \in [1..Effects -> Seq(Msgs)]
    <3>1. <<>> \in Seq(Msgs)
      OBVIOUS
    <3>2. QED BY <1>4, <3>1 DEF BatchTaken, TypeOK
  <2>4. QED BY <1>4, <2>1, <2>2, <2>3
        DEF BatchTaken, TypeOK, keyVars, retryVars, sendVars, boundVars
<1>5. ASSUME NEW e \in 1..Effects, DrainTimeout(e)
      PROVE  TypeOK'
  <2>1. toPage' \in Seq(FromServer)
    BY <1>5, ServerEmits, PacketTypes DEF DrainTimeout
  <2>2. QED BY <1>5, <2>1
        DEF DrainTimeout, TypeOK, FromServer, keyVars, retryVars, sendVars, boundVars
<1>6. ASSUME NEW m \in Msgs, MessageTaken(m)
      PROVE  TypeOK'
  <2>1. toServer' \in Seq(ToServer)
    BY <1>6, Arrived DEF MessageTaken
  <2>2. QED BY <1>6, <2>1
        DEF MessageTaken, TypeOK, Fates, keyVars, retryVars, sendVars, boundVars
<1>7. ASSUME NEW m \in Msgs, Push(m)
      PROVE  TypeOK'
  BY <1>7
  DEF Push, TypeOK, Fates, linkVars, keyVars, retryVars, sendVars, boundVars
<1>8. ASSUME NEW m \in Msgs, OfferTimeout(m)
      PROVE  TypeOK'
  BY <1>8
  DEF OfferTimeout, TypeOK, Fates, linkVars, keyVars, retryVars, sendVars, boundVars
<1>9. ASSUME NEW s \in Sends, MessageSent(s)
      PROVE  TypeOK'
  <2>1. toServer' \in Seq(ToServer)
    BY <1>9, Arrived DEF MessageSent
  <2>2. toPage' \in Seq(FromServer)
    BY <1>9, ServerEmits, PacketTypes DEF MessageSent
  <2>3. QED BY <1>9, <2>1, <2>2
        DEF MessageSent, TypeOK, FromServer, serverVars, keyVars, retryVars, boundVars
<1>10. QED
  BY <1>1, <1>2, <1>3, <1>4, <1>5, <1>6, <1>7, <1>8, <1>9 DEF ServerStep

LEMMA TypePage == TypeOK /\ PageStep => TypeOK'
<1> SUFFICES ASSUME TypeOK, PageStep
             PROVE  TypeOK'
  OBVIOUS
<1>0. ASSUME NEW p, Heard(p)
      PROVE  toPage' \in Seq(FromServer)
  BY <1>0, ReachesPage
<1>1. CASE Unheard
  BY <1>0, <1>1
  DEF Unheard, TypeOK, FromServer, serverVars, keyVars, retryVars, sendVars, boundVars
<1>2. ASSUME NEW m \in Msgs, HandleMessageIncoming(m)
      PROVE  TypeOK'
  <2>1. <<m>> \in Seq(Msgs) /\ About("took", m) \in ToServer
    BY Single, PacketTypes
  <2>2. Receive(<<m>>, About("took", m))
    BY <1>2 DEF HandleMessageIncoming
  <2>3. /\ toServer' \in Seq(ToServer)
        /\ UNCHANGED <<keypair, cached, shown, cause>>
        /\ fetching' \in Seq(Msgs \cup Sends) /\ ready' \in Seq(Msgs \cup Sends)
    BY <2>1, <2>2, Receives DEF Joins, TypeOK
  <2>4. QED BY <1>0, <1>2, <2>3
        DEF HandleMessageIncoming, TypeOK, FromServer, serverVars, retryVars, sendVars,
            boundVars
<1>3. ASSUME NEW e \in 1..Effects, HandleInboxIncoming(e)
      PROVE  TypeOK'
  <2> DEFINE fresh(p) == Filter(p.msgs, {m \in Msgs : ~IsDuplicateIncoming(m)})
  <2>1. PICK p \in Range(toPage) :
          /\ p.kind = "inbox" /\ p.of = e
          /\ Heard(p)
          /\ Receive(fresh(p), About("tookBatch", e))
          /\ seen' = seen \cup Range(p.msgs)
    BY <1>3 DEF HandleInboxIncoming
  <2>2. p.msgs \in Seq(Msgs)
    BY <2>1, ReachesPage, BatchIs
  <2>3. fresh(p) \in Seq(Msgs)
    <3>1. fresh(p) \in Seq(Msgs \cap {m \in Msgs : ~IsDuplicateIncoming(m)})
      BY <2>2, Filters
    <3>2. QED BY <3>1, SeqMonotonic
  <2>4. About("tookBatch", e) \in ToServer
    BY PacketTypes
  <2> HIDE DEF fresh
  <2>5. /\ toServer' \in Seq(ToServer)
        /\ UNCHANGED <<keypair, cached, shown, cause>>
        /\ fetching' \in Seq(Msgs \cup Sends) /\ ready' \in Seq(Msgs \cup Sends)
    BY <2>1, <2>3, <2>4, Receives DEF Joins, TypeOK
  <2>6. seen' \subseteq Msgs
    BY <2>1, <2>2, RangeSubset DEF TypeOK
  <2>7. QED BY <1>0, <1>3, <2>1, <2>5, <2>6
        DEF HandleInboxIncoming, TypeOK, FromServer, serverVars, retryVars, sendVars,
            boundVars
<1>4. CASE HandleKeyResponse
  <2>1. cause' \in [Msgs -> Causes] /\ cached' \in BOOLEAN
        /\ out' \in [Sends -> {"unwritten", "fetching", "shown", "acked", "absent"}]
    BY <1>4, Blames DEF HandleKeyResponse, TypeOK, Causes
  <2>2. ready' \in Seq(Msgs \cup Sends)
    <3>1. ready \in Seq(Msgs \cup Sends) /\ fetching \in Seq(Msgs \cup Sends)
      BY DEF TypeOK
    <3>2. ready \o fetching \in Seq(Msgs \cup Sends)
      BY <3>1, Joined DEF Joins
    <3>3. ready' = ready \/ ready' = ready \o fetching
      BY <1>4 DEF HandleKeyResponse
    <3>4. QED BY <3>1, <3>2, <3>3
  <2>3. fetching' \in Seq(Msgs \cup Sends)
    <3>1. <<>> \in Seq(Msgs \cup Sends)
      OBVIOUS
    <3>2. QED BY <1>4, <3>1 DEF HandleKeyResponse
  <2>4. toPage' \in Seq(FromServer)
    BY <1>0, <1>4 DEF HandleKeyResponse
  <2>5. QED BY <1>4, <2>1, <2>2, <2>3, <2>4
        DEF HandleKeyResponse, TypeOK, FromServer, serverVars, retryVars, boundVars
<1>5. CASE UseKey
  <2>1. ready' \in Seq(Msgs \cup Sends)
    BY <1>5, Taken DEF UseKey
  <2>2. CASE Decrypt(Head(ready)) /\ Head(ready) \in Msgs /\ UNCHANGED <<toServer, out>>
    <3>1. shown' \in [Msgs -> Nat] /\ cause' \in [Msgs -> Causes]
      BY <2>2, Decrypts
    <3>2. QED BY <1>5, <2>1, <2>2, <3>1
          DEF UseKey, TypeOK, serverVars, retryVars, boundVars
  <2>3. CASE SendEncrypted(Head(ready)) /\ Head(ready) \in Sends /\ UNCHANGED <<shown, cause>>
    <3>1. /\ toServer' \in Seq(ToServer)
          /\ out' \in [Sends -> {"unwritten", "fetching", "shown", "acked", "absent"}]
      BY <2>3, SendsEncrypted
    <3>2. QED BY <1>5, <2>1, <2>3, <3>1
          DEF UseKey, TypeOK, serverVars, retryVars, boundVars
  <2>4. QED BY <1>5, <2>2, <2>3 DEF UseKey
<1>6. CASE KeyTimeout
  <2>1. cause' \in [Msgs -> Causes]
    BY <1>6, Blames DEF KeyTimeout, Causes
  <2>2. QED BY <1>6, <2>1
        DEF KeyTimeout, TypeOK, serverVars, linkVars, retryVars, boundVars
<1>7. CASE HandlePublicKeyError
  BY <1>0, <1>7
  DEF HandlePublicKeyError, TypeOK, FromServer, serverVars, retryVars, sendVars,
      boundVars
<1>8. ASSUME NEW s \in Sends, HandleAck(s)
      PROVE  TypeOK'
  BY <1>0, <1>8
  DEF HandleAck, TypeOK, FromServer, serverVars, keyVars, retryVars, boundVars
<1>9. ASSUME NEW s \in Sends, HandleMessageError(s)
      PROVE  TypeOK'
  BY <1>0, <1>9
  DEF HandleMessageError, TypeOK, FromServer, serverVars, keyVars, retryVars, sendVars,
      boundVars
<1>10. CASE HandleServerError
  <2>1. failures' \in 0..MaxRetries /\ timer' \in BOOLEAN /\ redrain' \in BOOLEAN
    <3>1. failures \in 0..MaxRetries /\ timer \in BOOLEAN /\ redrain \in BOOLEAN
      BY DEF TypeOK
    <3>2. PICK before \in {0, failures} :
            \/ before < MaxRetries /\ failures' = before + 1 /\ timer' = TRUE /\ redrain' = TRUE
            \/ UNCHANGED <<failures, timer, redrain>>
      BY <1>10 DEF HandleServerError
    <3>3. before \in Nat
      BY <3>1
    <3>4. failures' \in 0..MaxRetries
      BY <3>1, <3>2, <3>3, Bounds
    <3>5. timer' \in BOOLEAN /\ redrain' \in BOOLEAN
      BY <3>1, <3>2
    <3>6. QED BY <3>4, <3>5
  <2>2. QED BY <1>0, <1>10, <2>1
        DEF HandleServerError, TypeOK, FromServer, serverVars, keyVars, sendVars,
            boundVars
<1>11. CASE Retry
  BY <1>11, Cuts DEF Retry, TypeOK, keyVars, boundVars
<1>12. QED
  BY <1>1, <1>2, <1>3, <1>4, <1>5, <1>6, <1>7, <1>8, <1>9, <1>10, <1>11 DEF PageStep

LEMMA TypeEnvironment == TypeOK /\ EnvironmentStep => TypeOK'
<1> SUFFICES ASSUME TypeOK, EnvironmentStep
             PROVE  TypeOK'
  OBVIOUS
<1>1. CASE Mount
  <2>1. toServer' \in Seq(ToServer)
    BY <1>1, MountPackets, PageEmits DEF Mount
  <2>2. /\ shown' \in [Msgs -> Nat] /\ stored' \in [Msgs -> Nat]
        /\ cause' \in [Msgs -> Causes]
        /\ out' \in [Sends -> {"unwritten", "fetching", "shown", "acked", "absent"}]
        /\ storedOut' \in [Sends -> {"absent", "shown", "acked"}]
    BY <1>1, Blames DEF Mount, LoadStoredMessages, TypeOK, Causes
  <2>3. visits' \in 0..MaxVisits
    BY <1>1, Bounds DEF Mount, TypeOK
  <2>4. QED BY <1>1, <2>1, <2>2, <2>3 DEF Mount, TypeOK, serverVars, retryVars
<1>2. CASE Close
  <2>1. cause' \in [Msgs -> Causes]
    BY <1>2 DEF Close, TypeOK, Causes
  <2>2. revisited' \subseteq Msgs
    BY <1>2, RangeSubset DEF Close, TypeOK
  <2>3. failures' \in 0..MaxRetries
    BY <1>2, Bounds DEF Close
  <2>4. /\ <<>> \in Seq(ToServer) /\ <<>> \in Seq(ToPage \cup Batches)
        /\ <<>> \in Seq(Msgs) /\ <<>> \in Seq(Msgs \cup Sends)
    OBVIOUS
  <2>5. /\ out' \in [Sends -> {"unwritten", "fetching", "shown", "acked", "absent"}]
        /\ drain' \in [1..Effects -> Seq(Msgs)]
    BY <1>2, <2>4 DEF Close, TypeOK
  <2>6. QED BY <1>2, <2>1, <2>2, <2>3, <2>4, <2>5 DEF Close, TypeOK, boundVars
<1>3. CASE Drop
  <2>1. drops' \in 0..MaxDrops
    BY <1>3, Bounds DEF Drop, TypeOK
  <2>2. QED BY <1>3, <2>1, Cuts DEF Drop, TypeOK, keyVars, retryVars
<1>4. ASSUME NEW m \in Msgs, Offer(m)
      PROVE  TypeOK'
  <2>1. toPage' \in Seq(FromServer)
    BY <1>4, ServerEmits, PacketTypes DEF Offer, TypeOK, FromServer
  <2>2. fate' \in [Msgs -> Fates]
    BY <1>4 DEF Offer, TypeOK, Fates
  <2>3. QED BY <1>4, <2>1, <2>2
        DEF Offer, TypeOK, FromServer, keyVars, retryVars, sendVars, boundVars
<1>5. ASSUME NEW s \in Sends, Send(s)
      PROVE  TypeOK'
  <2>1. /\ fetching' \in Seq(Msgs \cup Sends) /\ ready' \in Seq(Msgs \cup Sends)
        /\ out' \in [Sends -> {"unwritten", "fetching", "shown", "acked", "absent"}]
    <3>1. /\ fetching \in Seq(Msgs \cup Sends) /\ ready \in Seq(Msgs \cup Sends)
          /\ s \in Msgs \cup Sends
          /\ out \in [Sends -> {"unwritten", "fetching", "shown", "acked", "absent"}]
      BY DEF TypeOK
    <3>2. /\ Append(fetching, s) \in Seq(Msgs \cup Sends)
          /\ Append(ready, s) \in Seq(Msgs \cup Sends)
      BY <3>1, AppendOnce
    <3>3. /\ fetching' = fetching \/ fetching' = Append(fetching, s)
          /\ ready' = ready \/ ready' = Append(ready, s)
          /\ out' = [out EXCEPT ![s] = "absent"] \/ out' = [out EXCEPT ![s] = "fetching"]
      BY <1>5 DEF Send
    <3>4. QED BY <3>1, <3>2, <3>3
  <2>2. toServer' \in Seq(ToServer)
    <3>1. <<Packet("get")>> \in Seq(ToServer)
      BY PacketTypes
    <3>2. CASE UNCHANGED toServer
      BY <3>2 DEF TypeOK
    <3>3. CASE Emit(<<Packet("get")>>)
      BY <3>1, <3>3, PageEmits
    <3>4. QED BY <1>5, <3>2, <3>3 DEF Send
  <2>3. QED BY <1>5, <2>1, <2>2 DEF Send, TypeOK, serverVars, retryVars, boundVars
<1>6. CASE SaveMessages
  <2>1. stored' \in [Msgs -> Nat] /\ storedOut' \in [Sends -> {"absent", "shown", "acked"}]
    BY <1>6 DEF SaveMessages, TypeOK
  <2>2. QED BY <1>6, <2>1
        DEF SaveMessages, TypeOK, serverVars, linkVars, keyVars, retryVars, sendVars,
            boundVars
<1>7. QED BY <1>1, <1>2, <1>3, <1>4, <1>5, <1>6 DEF EnvironmentStep

\* Every variable of ChatPage has its type.
LEMMA TypeNext == TypeOK /\ [Next]_vars => TypeOK'
<1> SUFFICES ASSUME TypeOK, [Next]_vars
             PROVE  TypeOK'
  OBVIOUS
<1>1. CASE Connected
  BY <1>1
  DEF Connected, TypeOK, serverVars, keyVars, retryVars, sendVars, boundVars
<1>2. CASE UNCHANGED vars
  BY <1>2
  DEF vars, TypeOK, serverVars, linkVars, keyVars, retryVars, sendVars, boundVars
<1>3. QED BY <1>1, <1>2, TypeServer, TypePage, TypeEnvironment DEF Next

\* Every variable of ChatPage has its type; in particular, the retries that a failed
\* drain causes stay within their budget (useChat.ts:511-535).
THEOREM TypeCorrect == Spec => []TypeOK
<1>1. QED BY TypeInit, TypeNext, PTL DEF Spec

-----------------------------------------------------------------------------
(* What a closed page and an ended connection leave.                        *)

IsMessage(p) == \E m \in Msgs : p = About("message", m)

\* Nothing is under way to a page without a connection, and no drain waits for it.
LinkInv ==
  link # "up" => toPage = <<>> /\ \A e \in 1..Effects : drain[e] = <<>>

\* A page that is not open has emitted nothing, waits for nothing and has seen
\* nothing, and the conversation is what the store has of it; only messages of the
\* peer are under way to its socket.
AwayInv ==
  page = "away" => /\ toServer = <<>>
                   /\ \A p \in Range(toPage) : IsMessage(p)
                   /\ \A e \in 1..Effects : drain[e] = <<>>
                   /\ fetching = <<>> /\ ready = <<>> /\ seen = {} /\ ~timer
                   /\ shown = stored

\* The store has what the page shows, or less.
SaveInv == \A m \in Msgs : stored[m] <= shown[m]

PlaceInv == LinkInv /\ AwayInv /\ SaveInv

\* Nothing but a callback, a mount, the end of a page and a save changes what is
\* shown or stored.
LEMMA SaveNext ==
  ASSUME TypeOK, PlaceInv, [Next]_vars
  PROVE  SaveInv'
<1>1. /\ shown \in [Msgs -> Nat] /\ stored \in [Msgs -> Nat]
      /\ \A m \in Msgs : stored[m] <= shown[m]
  BY DEF PlaceInv, SaveInv, TypeOK
<1>2. ASSUME UNCHANGED <<shown, stored>>
      PROVE  SaveInv'
  BY <1>1, <1>2 DEF SaveInv
<1>3. CASE UseKey
  <2>1. shown' = shown \/ \E m \in Msgs : Decrypt(m)
    BY <1>3 DEF UseKey
  <2>2. \A m \in Msgs : shown[m] <= shown'[m] /\ shown'[m] \in Nat
    BY <1>1, <2>1, Decrypts
  <2>3. stored' = stored
    BY <1>3 DEF UseKey
  <2>4. QED BY <1>1, <2>2, <2>3 DEF SaveInv
<1>4. ASSUME UNCHANGED stored, shown' = stored
      PROVE  SaveInv'
  BY <1>1, <1>4 DEF SaveInv
<1>5. ASSUME stored' = shown', shown' \in [Msgs -> Nat]
      PROVE  SaveInv'
  BY <1>5 DEF SaveInv
<1>6. CASE Mount \/ SaveMessages
  <2>1. stored' = shown'
    BY <1>6 DEF Mount, SaveMessages
  <2>2. QED BY <1>5, <2>1, TypeNext DEF TypeOK
<1>7. CASE ServerStep
  BY <1>2, <1>7
  DEF ServerStep, RegisterKey, GetKey, InboxReady, BatchTaken, DrainTimeout,
      MessageTaken, Push, OfferTimeout, MessageSent
<1>8. ASSUME NEW ms, NEW ack, Receive(ms, ack), UNCHANGED stored
      PROVE  SaveInv'
  BY <1>2, <1>8 DEF Receive
<1>9. CASE PageStep
  BY <1>2, <1>3, <1>8, <1>9
  DEF PageStep, Unheard, HandleMessageIncoming, HandleInboxIncoming, HandleKeyResponse,
      KeyTimeout, HandlePublicKeyError, HandleAck, HandleMessageError,
      HandleServerError, Retry
<1>10. CASE Close
  BY <1>4, <1>10 DEF Close
<1>11. CASE Connected \/ Drop \/ (\E m \in Msgs : Offer(m)) \/ (\E s \in Sends : Send(s))
            \/ UNCHANGED vars
  BY <1>2, <1>11 DEF Connected, Drop, Offer, Send, vars
<1>12. QED
  BY <1>6, <1>7, <1>9, <1>10, <1>11 DEF Next, EnvironmentStep

LEMMA PlaceServer == TypeOK /\ PlaceInv /\ ServerStep => (LinkInv /\ AwayInv)'
<1> SUFFICES ASSUME TypeOK, PlaceInv, ServerStep
             PROVE  (LinkInv /\ AwayInv)'
  OBVIOUS
<1>1. ASSUME NEW p, Arrives(p), UNCHANGED <<link, page>>
      PROVE  (LinkInv /\ AwayInv)'
  BY <1>1 DEF Arrives, PlaceInv, LinkInv, AwayInv
<1>2. ASSUME NEW e \in 1..Effects, DrainTimeout(e)
      PROVE  (LinkInv /\ AwayInv)'
  BY <1>2 DEF DrainTimeout, PlaceInv, LinkInv, AwayInv
<1>3. ASSUME NEW m \in Msgs, Push(m) \/ OfferTimeout(m)
      PROVE  (LinkInv /\ AwayInv)'
  BY <1>3
  DEF Push, OfferTimeout, PlaceInv, LinkInv, AwayInv, linkVars, keyVars, retryVars
<1>4. CASE RegisterKey
  BY <1>1, <1>4 DEF RegisterKey
<1>5. CASE GetKey
  BY <1>1, <1>5 DEF GetKey
<1>6. ASSUME NEW e \in 1..Effects, InboxReady(e) \/ BatchTaken(e)
      PROVE  (LinkInv /\ AwayInv)'
  BY <1>1, <1>6 DEF InboxReady, BatchTaken
<1>7. ASSUME NEW m \in Msgs, MessageTaken(m)
      PROVE  (LinkInv /\ AwayInv)'
  BY <1>1, <1>7 DEF MessageTaken
<1>8. ASSUME NEW s \in Sends, MessageSent(s)
      PROVE  (LinkInv /\ AwayInv)'
  BY <1>1, <1>8 DEF MessageSent
<1>9. QED BY <1>2, <1>3, <1>4, <1>5, <1>6, <1>7, <1>8 DEF ServerStep

LEMMA PlacePage == TypeOK /\ PlaceInv /\ PageStep => (LinkInv /\ AwayInv)'
<1> SUFFICES ASSUME TypeOK, PlaceInv, PageStep
             PROVE  (LinkInv /\ AwayInv)'
  OBVIOUS
<1>1. ASSUME NEW p, Heard(p), page = "chat", UNCHANGED <<link, page>>
      PROVE  (LinkInv /\ AwayInv)'
  BY <1>1 DEF Heard, PlaceInv, LinkInv, AwayInv
<1>2. CASE Unheard
  <2>1. link = "up" /\ link' = link /\ Range(toPage') \subseteq Range(toPage)
    BY <1>2, ReachesPage DEF Unheard
  <2>2. QED BY <1>2, <2>1
        DEF Unheard, PlaceInv, LinkInv, AwayInv, serverVars, keyVars, retryVars
<1>3. ASSUME NEW m \in Msgs, HandleMessageIncoming(m)
      PROVE  (LinkInv /\ AwayInv)'
  BY <1>1, <1>3 DEF HandleMessageIncoming
<1>4. ASSUME NEW e \in 1..Effects, HandleInboxIncoming(e)
      PROVE  (LinkInv /\ AwayInv)'
  BY <1>1, <1>4 DEF HandleInboxIncoming
<1>5. CASE HandleKeyResponse
  BY <1>1, <1>5 DEF HandleKeyResponse
<1>6. CASE UseKey
  <2>1. page # "away"
    BY <1>6 DEF UseKey, PlaceInv, AwayInv, TypeOK
  <2>2. QED BY <1>6, <2>1 DEF UseKey, PlaceInv, LinkInv, AwayInv, serverVars
<1>7. CASE KeyTimeout
  BY <1>7 DEF KeyTimeout, PlaceInv, LinkInv, AwayInv, serverVars, linkVars, retryVars
<1>8. CASE HandlePublicKeyError
  BY <1>1, <1>8 DEF HandlePublicKeyError
<1>9. ASSUME NEW s \in Sends, HandleAck(s) \/ HandleMessageError(s)
      PROVE  (LinkInv /\ AwayInv)'
  BY <1>1, <1>9 DEF HandleAck, HandleMessageError
<1>10. CASE HandleServerError
  BY <1>1, <1>10 DEF HandleServerError
<1>11. CASE Retry
  BY <1>11 DEF Retry, Cut, PlaceInv, LinkInv, AwayInv
<1>12. QED
  BY <1>2, <1>3, <1>4, <1>5, <1>6, <1>7, <1>8, <1>9, <1>10, <1>11 DEF PageStep

LEMMA PlaceNext == TypeOK /\ PlaceInv /\ [Next]_vars => PlaceInv'
<1> SUFFICES ASSUME TypeOK, PlaceInv, [Next]_vars
             PROVE  (LinkInv /\ AwayInv)'
  BY SaveNext DEF PlaceInv
<1>1. CASE Connected
  BY <1>1
  DEF Connected, PlaceInv, LinkInv, AwayInv, serverVars, keyVars, retryVars
<1>2. CASE Mount
  BY <1>2 DEF Mount, PlaceInv, LinkInv, AwayInv, serverVars
<1>3. CASE Close
  BY <1>3, RangeEmpty DEF Close, PlaceInv, LinkInv, AwayInv
<1>4. CASE Drop
  BY <1>4, RangeEmpty DEF Drop, Cut, PlaceInv, LinkInv, AwayInv, keyVars, retryVars
<1>5. ASSUME NEW m \in Msgs, Offer(m)
      PROVE  (LinkInv /\ AwayInv)'
  <2>1. CASE link = "up" /\ toPage' = Append(toPage, About("message", m))
    <3>1. Range(toPage') = Range(toPage) \cup {About("message", m)}
      BY <2>1, ServerEmits, PacketTypes
    <3>2. QED BY <1>5, <2>1, <3>1
          DEF Offer, PlaceInv, LinkInv, AwayInv, IsMessage, keyVars, retryVars
  <2>2. CASE UNCHANGED toPage
    BY <1>5, <2>2 DEF Offer, PlaceInv, LinkInv, AwayInv, keyVars, retryVars
  <2>3. QED BY <1>5, <2>1, <2>2 DEF Offer
<1>6. ASSUME NEW s \in Sends, Send(s)
      PROVE  (LinkInv /\ AwayInv)'
  BY <1>6 DEF Send, Composed, PlaceInv, LinkInv, AwayInv, serverVars
<1>7. CASE UNCHANGED vars
  BY <1>7
  DEF vars, PlaceInv, LinkInv, AwayInv, serverVars, linkVars, keyVars, retryVars
<1>8. CASE SaveMessages
  BY <1>8
  DEF SaveMessages, PlaceInv, LinkInv, AwayInv, serverVars, linkVars, keyVars, retryVars
<1>9. QED
  BY <1>1, <1>2, <1>3, <1>4, <1>5, <1>6, <1>7, <1>8, PlaceServer, PlacePage
  DEF Next, EnvironmentStep

LEMMA PlaceInvariant == Spec => [](TypeOK /\ PlaceInv)
<1>1. Init => PlaceInv
  BY RangeEmpty DEF Init, PlaceInv, LinkInv, AwayInv, SaveInv
<1>2. QED BY <1>1, TypeInit, TypeNext, PlaceNext, PTL DEF Spec

-----------------------------------------------------------------------------
(* What the conversation says of what the user has sent.                    *)

Sent(s) == About("send", s) \in Range(toServer)
Acked(s) == About("ack", s) \in Range(toPage)

\* An acknowledgement under way or stored is true, and what a closed page left as
\* shown has been refused or has lost its connection.
SendInv ==
  /\ \A s \in Sends : Acked(s) \/ storedOut[s] = "acked" => s \in accepted
  /\ page = "away" => \A s \in Sends : out[s] = "shown" => s \in refused \cup doubt
  /\ SendsAreHonest

\* What is shown stays under way, answered or in doubt.
LEMMA SendStays ==
  ASSUME SendInv,
         accepted \subseteq accepted', refused \subseteq refused', doubt \subseteq doubt',
         page' = "away" => page = "away",
         \A s \in Sends :
           /\ \/ out'[s] = out[s]
              \/ out'[s] \in {"absent", "fetching"}
              \/ out'[s] = "shown" /\ Sent(s)' /\ page' # "away"
           /\ storedOut'[s] \in {storedOut[s], "absent"}
           /\ Sent(s) => Sent(s)' \/ Acked(s)' \/ s \in refused'
           /\ Acked(s) => Acked(s)'
           /\ Acked(s)' => Acked(s) \/ s \in accepted'
  PROVE  SendInv'
<1>1. \A s \in Sends : Acked(s)' \/ storedOut'[s] = "acked" => s \in accepted'
  BY DEF SendInv
<1>2. page' = "away" => \A s \in Sends : out'[s] = "shown" => s \in refused' \cup doubt'
  BY DEF SendInv
<1>3. SendsAreHonest'
  <2> SUFFICES ASSUME NEW s \in Sends
               PROVE  /\ out'[s] = "acked" => s \in accepted'
                      /\ out'[s] = "shown" => Sent(s)' \/ Acked(s)' \/ s \in refused' \cup doubt'
    BY DEF SendsAreHonest, Sent, Acked
  <2>1. /\ out[s] = "acked" => s \in accepted
        /\ out[s] = "shown" => Sent(s) \/ Acked(s) \/ s \in refused \cup doubt
    BY DEF SendInv, SendsAreHonest, Sent, Acked
  <2>2. QED BY <2>1
<1>4. QED BY <1>1, <1>2, <1>3 DEF SendInv

\* No other packet is a sent message or its acknowledgement.
LEMMA OtherPackets ==
  \A s : /\ \A k : Packet(k) # About("send", s) /\ Packet(k) # About("ack", s)
         /\ \A k, x : k # "send" => About(k, x) # About("send", s)
         /\ \A k, x : k # "ack" => About(k, x) # About("ack", s)
         /\ \A x : x # s => About("send", x) # About("send", s)
         /\ \A x : x # s => About("ack", x) # About("ack", s)
         /\ \A e, ms : Batch(e, ms) # About("ack", s)
BY SamePacket

\* A packet that is not a sent message reaches the server.
LEMMA SentStays ==
  ASSUME TypeOK, NEW p, Arrives(p), \A s : p # About("send", s)
  PROVE  \A s : Sent(s)' <=> Sent(s)
BY Arrived DEF Sent

\* A packet that is not an acknowledgement of a sent message reaches the page, or
\* is emitted by the server.
LEMMA AckedStays ==
  ASSUME TypeOK, NEW p, \A s : p # About("ack", s),
         Heard(p) \/ (p \in FromServer /\ toPage' = Append(toPage, p))
  PROVE  \A s : Acked(s)' <=> Acked(s)
BY ReachesPage, ServerEmits DEF Acked

LEMMA SendServer == TypeOK /\ SendInv /\ ServerStep => SendInv'
<1> SUFFICES ASSUME TypeOK, SendInv, ServerStep
             PROVE  SendInv'
  OBVIOUS
<1> USE DEF sendVars
<1>1. CASE RegisterKey
  <2>1. \A s : Sent(s)' <=> Sent(s)
    BY <1>1, SentStays, OtherPackets DEF RegisterKey
  <2>2. \A s : Acked(s)' <=> Acked(s)
    BY <1>1, AckedStays, OtherPackets, PacketTypes DEF RegisterKey, Acked
  <2>3. QED BY <1>1, <2>1, <2>2, SendStays DEF RegisterKey
<1>2. CASE GetKey
  <2>1. \A s : Sent(s)' <=> Sent(s)
    BY <1>2, SentStays, OtherPackets DEF GetKey
  <2>2. \A s : Acked(s)' <=> Acked(s)
    <3>1. PICK k \in {"key", "null", "keyError"} : toPage' = Append(toPage, Packet(k))
      BY <1>2 DEF GetKey
    <3>2. QED BY <3>1, AckedStays, OtherPackets, PacketTypes
  <2>3. QED BY <1>2, <2>1, <2>2, SendStays DEF GetKey
<1>3. ASSUME NEW e \in 1..Effects, InboxReady(e)
      PROVE  SendInv'
  <2>1. \A s : Sent(s)' <=> Sent(s)
    BY <1>3, SentStays, OtherPackets DEF InboxReady
  <2>2. Batch(e, inbox) \in FromServer
    BY PacketTypes DEF TypeOK
  <2>3. \A s : Acked(s)' <=> Acked(s)
    BY <1>3, <2>2, AckedStays, OtherPackets DEF InboxReady, Acked
  <2>4. QED BY <1>3, <2>1, <2>3, SendStays DEF InboxReady
<1>4. ASSUME NEW e \in 1..Effects, BatchTaken(e)
      PROVE  SendInv'
  <2>1. \A s : Sent(s)' <=> Sent(s)
    BY <1>4, SentStays, OtherPackets DEF BatchTaken
  <2>2. QED BY <1>4, <2>1, SendStays DEF BatchTaken, Acked
<1>5. ASSUME NEW e \in 1..Effects, DrainTimeout(e)
      PROVE  SendInv'
  <2>1. \A s : Acked(s)' <=> Acked(s)
    BY <1>5, AckedStays, OtherPackets, PacketTypes DEF DrainTimeout
  <2>2. QED BY <1>5, <2>1, SendStays DEF DrainTimeout, Sent
<1>6. ASSUME NEW m \in Msgs, MessageTaken(m)
      PROVE  SendInv'
  <2>1. \A s : Sent(s)' <=> Sent(s)
    BY <1>6, SentStays, OtherPackets DEF MessageTaken
  <2>2. QED BY <1>6, <2>1, SendStays DEF MessageTaken, Acked
<1>7. ASSUME NEW m \in Msgs, Push(m) \/ OfferTimeout(m)
      PROVE  SendInv'
  BY <1>7, SendStays DEF Push, OfferTimeout, Sent, Acked, linkVars
<1>8. ASSUME NEW t \in Sends, MessageSent(t)
      PROVE  SendInv'
  <2>1. \A s : Sent(s) => Sent(s)' \/ s = t
    BY <1>8, Arrived, OtherPackets DEF MessageSent, Sent
  <2>2. CASE accepted' = accepted \cup {t} /\ toPage' = Append(toPage, About("ack", t))
             /\ UNCHANGED refused
    <3>1. Range(toPage') = Range(toPage) \cup {About("ack", t)}
      BY <2>2, ServerEmits, PacketTypes
    <3>2. \A s : Acked(s)' <=> Acked(s) \/ s = t
      BY <3>1, OtherPackets DEF Acked
    <3>3. QED BY <1>8, <2>1, <2>2, <3>2, SendStays DEF MessageSent
  <2>3. CASE refused' = refused \cup {t} /\ toPage' = Append(toPage, About("messageError", t))
             /\ UNCHANGED accepted
    <3>1. \A s : Acked(s)' <=> Acked(s)
      BY <2>3, AckedStays, OtherPackets, PacketTypes
    <3>2. QED BY <1>8, <2>1, <2>3, <3>1, SendStays DEF MessageSent
  <2>4. QED BY <1>8, <2>2, <2>3 DEF MessageSent
<1>9. QED
  BY <1>1, <1>2, <1>3, <1>4, <1>5, <1>6, <1>7, <1>8 DEF ServerStep

LEMMA SendPage == TypeOK /\ PlaceInv /\ SendInv /\ PageStep => SendInv'
<1> SUFFICES ASSUME TypeOK, PlaceInv, SendInv, PageStep
             PROVE  SendInv'
  OBVIOUS
<1> USE DEF sendVars
<1>1. CASE Unheard
  <2>1. Range(toPage') \subseteq Range(toPage)
    BY <1>1, ReachesPage DEF Unheard
  <2>2. \A s : ~Acked(s)
    BY <1>1, SamePacket DEF Unheard, PlaceInv, AwayInv, IsMessage, Acked
  <2>3. QED BY <1>1, <2>1, <2>2, SendStays DEF Unheard, Sent, Acked
<1>2. ASSUME NEW m \in Msgs, HandleMessageIncoming(m)
      PROVE  SendInv'
  <2>1. <<m>> \in Seq(Msgs) /\ About("took", m) \in ToServer
    BY Single, PacketTypes
  <2>2. /\ Range(toServer) \subseteq Range(toServer')
    BY <1>2, <2>1, Receives DEF HandleMessageIncoming
  <2>3. \A s : Acked(s)' <=> Acked(s)
    BY <1>2, AckedStays, OtherPackets DEF HandleMessageIncoming
  <2>4. QED BY <1>2, <2>2, <2>3, SendStays DEF HandleMessageIncoming, Sent
<1>3. ASSUME NEW e \in 1..Effects, HandleInboxIncoming(e)
      PROVE  SendInv'
  <2>1. PICK p \in Range(toPage) :
          /\ p.kind = "inbox" /\ p.of = e
          /\ Heard(p)
          /\ Receive(Filter(p.msgs, {m \in Msgs : ~IsDuplicateIncoming(m)}),
                     About("tookBatch", e))
    BY <1>3 DEF HandleInboxIncoming
  <2>2. p = Batch(p.of, p.msgs) /\ p.msgs \in Seq(Msgs)
    BY <2>1, ReachesPage, BatchIs
  <2>3. Range(toServer) \subseteq Range(toServer')
    <3> DEFINE fresh == Filter(p.msgs, {m \in Msgs : ~IsDuplicateIncoming(m)})
    <3>1. fresh \in Seq(Msgs \cap {m \in Msgs : ~IsDuplicateIncoming(m)})
      BY <2>2, Filters
    <3>2. fresh \in Seq(Msgs)
      BY <3>1, SeqMonotonic
    <3>3. About("tookBatch", e) \in ToServer
      BY PacketTypes
    <3> HIDE DEF fresh
    <3>4. Receive(fresh, About("tookBatch", e))
      BY <2>1 DEF fresh
    <3>5. QED BY <3>2, <3>3, <3>4, Receives
  <2>4. \A s : Acked(s)' <=> Acked(s)
    BY <2>1, <2>2, AckedStays, OtherPackets
  <2>5. QED BY <1>3, <2>3, <2>4, SendStays DEF HandleInboxIncoming, Sent
<1>4. CASE HandleKeyResponse
  <2>1. PICK k \in {"key", "null"} : Heard(Packet(k))
    BY <1>4 DEF HandleKeyResponse
  <2>2. \A s : Acked(s)' <=> Acked(s)
    BY <2>1, AckedStays, OtherPackets
  <2>3. \A s : Sent(s)' <=> Sent(s)
    BY <1>4 DEF HandleKeyResponse, Sent
  <2>4. \A s \in Sends : out'[s] = out[s] \/ out'[s] = "absent"
    BY <1>4 DEF HandleKeyResponse
  <2>5. QED BY <1>4, <2>2, <2>3, <2>4, SendStays DEF HandleKeyResponse
<1>5. CASE UseKey
  <2>1. /\ Range(toServer) \subseteq Range(toServer')
        /\ \A s \in Sends : \/ out'[s] = out[s]
                            \/ out'[s] = "absent"
                            \/ out'[s] = "shown" /\ Sent(s)'
    <3>1. CASE UNCHANGED <<toServer, out>>
      BY <3>1
    <3>2. CASE Head(ready) \in Sends /\ SendEncrypted(Head(ready))
      BY <3>2, SendsEncrypted DEF Sent
    <3>3. QED BY <1>5, <3>1, <3>2 DEF UseKey
  <2>2. page' # "away"
    BY <1>5 DEF UseKey, PlaceInv, AwayInv, TypeOK
  <2>3. QED BY <1>5, <2>1, <2>2, SendStays DEF UseKey, Sent, Acked
<1>6. CASE KeyTimeout
  <2>1. \A s \in Sends : out'[s] = out[s] \/ out'[s] = "absent"
    BY <1>6 DEF KeyTimeout
  <2>2. QED BY <1>6, <2>1, SendStays DEF KeyTimeout, linkVars, Sent, Acked
<1>7. CASE HandlePublicKeyError
  <2>1. \A s : Acked(s)' <=> Acked(s)
    BY <1>7, AckedStays, OtherPackets DEF HandlePublicKeyError
  <2>2. QED BY <1>7, <2>1, SendStays DEF HandlePublicKeyError, Sent
<1>8. ASSUME NEW t \in Sends, HandleAck(t)
      PROVE  SendInv'
  <2>1. /\ Range(toPage) = Range(toPage') \cup {About("ack", t)}
        /\ page' = page /\ page = "chat" /\ toServer' = toServer
        /\ out' = [out EXCEPT ![t] = "acked"]
        /\ accepted' = accepted /\ refused' = refused /\ doubt' = doubt
        /\ storedOut' = storedOut
    BY <1>8, ReachesPage DEF HandleAck
  <2>2. t \in accepted
    BY <2>1 DEF SendInv, Acked
  <2>3. \A s : s # t => (Acked(s)' <=> Acked(s))
    BY <2>1, OtherPackets DEF Acked
  <2>4. \A s \in Sends : Acked(s)' \/ storedOut'[s] = "acked" => s \in accepted'
    BY <2>1 DEF SendInv, Acked
  <2>5. ASSUME NEW s \in Sends
        PROVE  /\ out'[s] = "acked" => s \in accepted'
               /\ out'[s] = "shown" => Sent(s)' \/ Acked(s)' \/ s \in refused' \cup doubt'
    <3>1. /\ out[s] = "acked" => s \in accepted
          /\ out[s] = "shown" => Sent(s) \/ Acked(s) \/ s \in refused \cup doubt
      BY DEF SendInv, SendsAreHonest, Sent, Acked
    <3>2. CASE s = t
      BY <2>1, <2>2, <3>2 DEF TypeOK
    <3>3. CASE s # t
      <4>1. out'[s] = out[s] /\ (Sent(s)' <=> Sent(s))
        BY <2>1, <3>3 DEF TypeOK, Sent
      <4>2. QED BY <2>1, <2>3, <3>1, <3>3, <4>1
    <3>4. QED BY <3>2, <3>3
  <2>6. QED BY <2>1, <2>4, <2>5 DEF SendInv, SendsAreHonest, Sent, Acked
<1>9. ASSUME NEW t \in Sends, HandleMessageError(t)
      PROVE  SendInv'
  <2>1. \A s : Acked(s)' <=> Acked(s)
    BY <1>9, AckedStays, OtherPackets DEF HandleMessageError
  <2>2. QED BY <1>9, <2>1, SendStays DEF HandleMessageError, Sent
<1>10. CASE HandleServerError
  <2>1. \A s : Acked(s)' <=> Acked(s)
    BY <1>10, AckedStays, OtherPackets DEF HandleServerError
  <2>2. QED BY <1>10, <2>1, SendStays DEF HandleServerError, Sent
<1>11. CASE Retry
  <2>1. PICK d : d = {s \in Sends : out[s] = "shown"}
    OBVIOUS
  <2>2. /\ toPage' = <<>> /\ out' = out /\ page' = page /\ storedOut' = storedOut
        /\ accepted' = accepted /\ refused' = refused
        /\ IF link = "up" THEN doubt' = doubt \cup d
           ELSE doubt' = doubt /\ toServer' = toServer
    BY <1>11, <2>1 DEF Retry, Cut
  <2>3. \A s : ~Acked(s)'
    BY <2>2, RangeEmpty DEF Acked
  <2>4. CASE link = "up"
    BY <2>1, <2>2, <2>3, <2>4 DEF SendInv, SendsAreHonest, Sent, Acked
  <2>5. CASE link # "up"
    <3>1. \A s : ~Acked(s)
      BY <2>5, RangeEmpty DEF PlaceInv, LinkInv, Acked
    <3>2. QED BY <2>2, <2>3, <2>5, <3>1, SendStays DEF Sent
  <2>6. QED BY <2>4, <2>5
<1>12. QED
  BY <1>1, <1>2, <1>3, <1>4, <1>5, <1>6, <1>7, <1>8, <1>9, <1>10, <1>11 DEF PageStep

LEMMA SendNext == TypeOK /\ PlaceInv /\ SendInv /\ [Next]_vars => SendInv'
<1> SUFFICES ASSUME TypeOK, PlaceInv, SendInv, [Next]_vars
             PROVE  SendInv'
  OBVIOUS
<1>1. CASE Connected
  BY <1>1, SendStays DEF Connected, sendVars, Sent, Acked
<1>2. CASE Mount
  <2>1. Range(toServer) \subseteq Range(toServer')
    BY <1>2, MountPackets, PageEmits DEF Mount
  <2>2. \A s \in Sends : /\ out'[s] = out[s] \/ out'[s] = "absent"
                         /\ storedOut'[s] \in {storedOut[s], "absent"}
    BY <1>2 DEF Mount
  <2>3. QED BY <1>2, <2>1, <2>2, SendStays DEF Mount, Sent, Acked
<1>3. CASE Close
  <2>1. /\ toPage' = <<>>
        /\ accepted' = accepted /\ refused' = refused /\ storedOut' = storedOut
        /\ \A s \in Sends : /\ out'[s] = out[s] \/ out'[s] = storedOut[s]
                            /\ out[s] = "shown" \/ storedOut[s] = "shown" => s \in doubt'
    BY <1>3 DEF Close
  <2>2. \A s : ~Acked(s)'
    BY <2>1, RangeEmpty DEF Acked
  <2>3. \A s \in Sends : out'[s] = "shown" => s \in doubt'
    BY <2>1
  <2>4. \A s \in Sends : out'[s] = "acked" \/ storedOut'[s] = "acked" => s \in accepted'
    BY <2>1 DEF SendInv, SendsAreHonest
  <2>5. QED BY <2>2, <2>3, <2>4 DEF SendInv, SendsAreHonest, Sent, Acked
<1>4. CASE Drop
  <2>1. /\ toPage' = <<>> /\ out' = out /\ storedOut' = storedOut
        /\ accepted' = accepted /\ refused' = refused
        /\ doubt' = doubt \cup {s \in Sends : out[s] = "shown"}
    BY <1>4 DEF Drop, Cut
  <2>2. \A s : ~Acked(s)'
    BY <2>1, RangeEmpty DEF Acked
  <2>3. QED BY <2>1, <2>2 DEF SendInv, SendsAreHonest, Sent, Acked
<1>5. ASSUME NEW m \in Msgs, Offer(m)
      PROVE  SendInv'
  <2>1. \A s : Acked(s)' <=> Acked(s)
    BY <1>5, AckedStays, OtherPackets, PacketTypes DEF Offer, Acked
  <2>2. QED BY <1>5, <2>1, SendStays DEF Offer, sendVars, Sent
<1>6. ASSUME NEW t \in Sends, Send(t)
      PROVE  SendInv'
  <2>1. Range(toServer) \subseteq Range(toServer')
    <3>1. <<Packet("get")>> \in Seq(ToServer)
      BY PacketTypes
    <3>2. CASE Emit(<<Packet("get")>>)
      BY <3>1, <3>2, PageEmits
    <3>3. QED BY <1>6, <3>2 DEF Send
  <2>2. \A s \in Sends : out'[s] = out[s] \/ out'[s] \in {"absent", "fetching"}
    BY <1>6 DEF Send, TypeOK
  <2>3. /\ page' # "away" /\ toPage' = toPage /\ storedOut' = storedOut
        /\ accepted' = accepted /\ refused' = refused /\ doubt' = doubt
    BY <1>6 DEF Send, Composed
  <2>4. QED BY <2>1, <2>2, <2>3, SendStays DEF Sent, Acked
<1>7. CASE UNCHANGED vars
  BY <1>7, SendStays DEF vars, linkVars, sendVars, Sent, Acked
<1>8. CASE SaveMessages
  <2>1. \A s \in Sends : storedOut'[s] = "acked" => out[s] = "acked"
    BY <1>8 DEF SaveMessages
  <2>2. UNCHANGED <<toServer, toPage, page, out, accepted, refused, doubt>>
    BY <1>8 DEF SaveMessages, linkVars, sendVars
  <2>3. QED BY <2>1, <2>2 DEF SendInv, SendsAreHonest, Sent, Acked
<1>9. QED
  BY <1>1, <1>2, <1>3, <1>4, <1>5, <1>6, <1>7, <1>8, SendServer, SendPage
  DEF Next, EnvironmentStep

\* What the conversation says of a message the user has sent is right: marked as
\* acknowledged only if the server has accepted it; without the mark, under way,
\* refused, or in doubt since its connection ended (useChat.ts:634-671).
THEOREM SendsAreHonestCorrect == Spec => []SendsAreHonest
<1>1. Init => SendInv
  BY RangeEmpty DEF Init, SendInv, SendsAreHonest, Acked
<1>2. SendInv => SendsAreHonest
  BY DEF SendInv
<1>3. QED BY <1>1, <1>2, PlaceInvariant, SendNext, PTL DEF Spec

-----------------------------------------------------------------------------
(* Where packets come from.                                                 *)

Ready(e) == About("ready", e) \in Range(toServer)
Took(m) == About("took", m) \in Range(toServer)
TookBatch(e) == About("tookBatch", e) \in Range(toServer)
Due(m) == About("message", m) \in Range(toPage)

\* The page asks for its inbox when it mounts, and acknowledges what it handles.
PageOrigins ==
  /\ \A e \in 1..Effects :
       /\ Ready(e)' => Ready(e) \/ Mount
       /\ TookBatch(e)' => TookBatch(e) \/ HandleInboxIncoming(e)
       /\ Once(toServer, About("ready", e)) => Once(toServer', About("ready", e)) \/ Mount
  /\ \A m \in Msgs : Took(m)' => Took(m) \/ HandleMessageIncoming(m)

\* A message is under way since it has been offered, a batch since it was read.
ServerOrigins ==
  /\ \A p \in Batches :
       p \in Range(toPage') => \/ p \in Range(toPage)
                               \/ \E e \in 1..Effects : InboxReady(e) /\ p = Batch(e, inbox)
  /\ \A m \in Msgs :
       /\ Due(m)' => Due(m) \/ Offer(m)
       /\ Once(toPage, About("message", m)) => \/ Once(toPage', About("message", m))
                                               \/ Offer(m)

\* Packets only leave.
LEMMA PageLess ==
  ASSUME Range(toServer') \subseteq Range(toServer),
         \A x : Once(toServer, x) => Once(toServer', x)
  PROVE  PageOrigins
BY DEF PageOrigins, Ready, Took, TookBatch

LEMMA ServerLess ==
  ASSUME Range(toPage') \subseteq Range(toPage),
         \A x : Once(toPage, x) => Once(toPage', x)
  PROVE  ServerOrigins
BY DEF ServerOrigins, Due

\* The page sends what is neither a request for the inbox nor an acknowledgement.
LEMMA PageOther ==
  ASSUME \A x \in Range(toServer') : \/ x \in Range(toServer)
                                     \/ x = Packet("get")
                                     \/ \E s \in Sends : x = About("send", s),
         \A x : /\ Once(toServer, x) /\ x # Packet("get")
                /\ \A s \in Sends : x # About("send", s)
                => Once(toServer', x)
  PROVE  PageOrigins
<1>1. \A k, x : k # "send" => /\ About(k, x) # Packet("get")
                              /\ \A s \in Sends : About(k, x) # About("send", s)
  BY SamePacket
<1>2. QED BY <1>1 DEF PageOrigins, Ready, Took, TookBatch

\* The server emits what is neither a message nor a batch.
LEMMA ServerOther ==
  ASSUME TypeOK, NEW p \in FromServer, toPage' = Append(toPage, p),
         p \notin Batches, \A m \in Msgs : p # About("message", m)
  PROVE  ServerOrigins
<1>1. /\ Range(toPage') = Range(toPage) \cup {p}
      /\ \A x : Once(toPage, x) /\ (x # p \/ x \notin Range(toPage)) => Once(toPage', x)
  BY ServerEmits
<1>2. QED BY <1>1 DEF ServerOrigins, Due

\* Batches are not made of a kind, or of a kind and a subject.
LEMMA NoBatch ==
  /\ \A k : Packet(k) \notin Batches
  /\ \A k, x : About(k, x) \notin Batches
<1>1. \A p \in Batches : p = Batch(p.of, p.msgs)
  BY DEF Batches, Batch
<1>2. QED BY <1>1, SamePacket

LEMMA ServerStepOrigins ==
  TypeOK /\ ServerStep => PageOrigins /\ ServerOrigins
<1> SUFFICES ASSUME TypeOK, ServerStep
             PROVE  PageOrigins /\ ServerOrigins
  OBVIOUS
<1>1. ASSUME NEW p, Arrives(p)
      PROVE  PageOrigins
  BY <1>1, Arrived, PageLess
<1>2. ASSUME NEW p \in FromServer, toPage' = Append(toPage, p),
             (\E k : p = Packet(k)) \/ (\E k, x : p = About(k, x) /\ k # "message")
      PROVE  ServerOrigins
  BY <1>2, ServerOther, NoBatch, SamePacket
<1>3. ASSUME UNCHANGED toPage
      PROVE  ServerOrigins
  BY <1>3, ServerLess
<1>4. ASSUME UNCHANGED toServer
      PROVE  PageOrigins
  BY <1>4, PageLess
<1>5. CASE RegisterKey
  <2>1. UNCHANGED toPage \/ toPage' = Append(toPage, Packet("keyError"))
    BY <1>5 DEF RegisterKey
  <2>2. QED BY <1>1, <1>2, <1>3, <1>5, <2>1, PacketTypes DEF RegisterKey
<1>6. CASE GetKey
  <2>1. PICK k \in {"key", "null", "keyError"} : toPage' = Append(toPage, Packet(k))
    BY <1>6 DEF GetKey
  <2>2. Packet(k) \in FromServer
    BY PacketTypes
  <2>3. QED BY <1>1, <1>2, <1>6, <2>1, <2>2 DEF GetKey
<1>7. ASSUME NEW e \in 1..Effects, InboxReady(e)
      PROVE  PageOrigins /\ ServerOrigins
  <2>1. PageOrigins
    BY <1>1, <1>7 DEF InboxReady
  <2>2. CASE inbox = <<>>
    BY <1>3, <1>7, <2>1, <2>2 DEF InboxReady
  <2>3. CASE inbox # <<>>
    <3>1. Batch(e, inbox) \in FromServer
      BY PacketTypes DEF TypeOK
    <3>2. toPage' = Append(toPage, Batch(e, inbox))
      BY <1>7, <2>3 DEF InboxReady
    <3>3. /\ Range(toPage') = Range(toPage) \cup {Batch(e, inbox)}
          /\ \A x : Once(toPage, x) /\ (x # Batch(e, inbox) \/ x \notin Range(toPage))
               => Once(toPage', x)
      BY <3>1, <3>2, ServerEmits
    <3>4. \A m : About("message", m) # Batch(e, inbox)
      BY SamePacket
    <3>5. QED BY <1>7, <2>1, <3>3, <3>4 DEF ServerOrigins, Due
  <2>4. QED BY <2>2, <2>3
<1>8. ASSUME NEW e \in 1..Effects, BatchTaken(e)
      PROVE  PageOrigins /\ ServerOrigins
  BY <1>1, <1>3, <1>8 DEF BatchTaken
<1>9. ASSUME NEW e \in 1..Effects, DrainTimeout(e)
      PROVE  PageOrigins /\ ServerOrigins
  BY <1>2, <1>4, <1>9, PacketTypes DEF DrainTimeout
<1>10. ASSUME NEW m \in Msgs, MessageTaken(m)
       PROVE  PageOrigins /\ ServerOrigins
  BY <1>1, <1>3, <1>10 DEF MessageTaken
<1>11. ASSUME NEW m \in Msgs, Push(m) \/ OfferTimeout(m)
       PROVE  PageOrigins /\ ServerOrigins
  BY <1>3, <1>4, <1>11 DEF Push, OfferTimeout, linkVars
<1>12. ASSUME NEW s \in Sends, MessageSent(s)
       PROVE  PageOrigins /\ ServerOrigins
  <2>1. PICK k \in {"ack", "messageError"} : toPage' = Append(toPage, About(k, s))
    BY <1>12 DEF MessageSent
  <2>2. About(k, s) \in FromServer /\ k # "message"
    BY PacketTypes
  <2>3. QED BY <1>1, <1>2, <1>12, <2>1, <2>2 DEF MessageSent
<1>13. QED
  BY <1>5, <1>6, <1>7, <1>8, <1>9, <1>10, <1>11, <1>12 DEF ServerStep

LEMMA PageStepOrigins == TypeOK /\ PageStep => PageOrigins /\ ServerOrigins
<1> SUFFICES ASSUME TypeOK, PageStep
             PROVE  PageOrigins /\ ServerOrigins
  OBVIOUS
<1>1. ASSUME NEW p, Heard(p)
      PROVE  ServerOrigins
  BY <1>1, ReachesPage, ServerLess
<1>2. ASSUME UNCHANGED toServer
      PROVE  PageOrigins
  BY <1>2, PageLess
<1>3. CASE Unheard
  BY <1>1, <1>2, <1>3 DEF Unheard
<1>4. ASSUME NEW m \in Msgs, HandleMessageIncoming(m)
      PROVE  PageOrigins /\ ServerOrigins
  <2>1. <<m>> \in Seq(Msgs) /\ About("took", m) \in ToServer
    BY Single, PacketTypes
  <2>2. /\ Range(toServer') \subseteq Range(toServer) \cup {Packet("get"), About("took", m)}
        /\ \A x : /\ Once(toServer, x) /\ x # Packet("get")
                  /\ x # About("took", m) \/ x \notin Range(toServer)
                  => Once(toServer', x)
    BY <1>4, <2>1, Receives DEF HandleMessageIncoming
  <2>3. /\ \A k, x : About(k, x) # Packet("get")
        /\ \A k, x : About(k, x) = About("took", m) => k = "took" /\ x = m
    BY SamePacket
  <2>4. PageOrigins
    BY <1>4, <2>2, <2>3 DEF PageOrigins, Ready, Took, TookBatch
  <2>5. QED BY <1>1, <1>4, <2>4 DEF HandleMessageIncoming
<1>5. ASSUME NEW e \in 1..Effects, HandleInboxIncoming(e)
      PROVE  PageOrigins /\ ServerOrigins
  <2> DEFINE fresh(p) == Filter(p.msgs, {m \in Msgs : ~IsDuplicateIncoming(m)})
  <2>1. PICK p \in Range(toPage) :
          /\ p.kind = "inbox" /\ p.of = e
          /\ Heard(p)
          /\ Receive(fresh(p), About("tookBatch", e))
    BY <1>5 DEF HandleInboxIncoming
  <2>2. p.msgs \in Seq(Msgs)
    BY <2>1, ReachesPage, BatchIs
  <2>3. fresh(p) \in Seq(Msgs)
    <3>1. fresh(p) \in Seq(Msgs \cap {m \in Msgs : ~IsDuplicateIncoming(m)})
      BY <2>2, Filters
    <3>2. QED BY <3>1, SeqMonotonic
  <2>4. About("tookBatch", e) \in ToServer
    BY PacketTypes
  <2> HIDE DEF fresh
  <2>5. /\ Range(toServer') \subseteq Range(toServer) \cup {Packet("get"), About("tookBatch", e)}
        /\ \A x : /\ Once(toServer, x) /\ x # Packet("get")
                  /\ x # About("tookBatch", e) \/ x \notin Range(toServer)
                  => Once(toServer', x)
    BY <2>1, <2>3, <2>4, Receives
  <2>6. /\ \A k, x : About(k, x) # Packet("get")
        /\ \A k, x : About(k, x) = About("tookBatch", e) => k = "tookBatch" /\ x = e
    BY SamePacket
  <2>7. PageOrigins
    BY <1>5, <2>5, <2>6 DEF PageOrigins, Ready, Took, TookBatch
  <2>8. QED BY <1>1, <2>1, <2>7
<1>6. CASE HandleKeyResponse
  BY <1>1, <1>2, <1>6 DEF HandleKeyResponse
<1>7. CASE UseKey
  <2>1. CASE UNCHANGED toServer
    BY <1>2, <1>7, <2>1, ServerLess DEF UseKey
  <2>2. CASE Head(ready) \in Sends /\ SendEncrypted(Head(ready))
    BY <1>7, <2>2, SendsEncrypted, PageOther, ServerLess DEF UseKey
  <2>3. QED BY <1>7, <2>1, <2>2 DEF UseKey
<1>8. CASE KeyTimeout
  BY <1>2, <1>8, ServerLess DEF KeyTimeout, linkVars
<1>9. CASE HandlePublicKeyError
  BY <1>1, <1>2, <1>9 DEF HandlePublicKeyError
<1>10. ASSUME NEW s \in Sends, HandleAck(s) \/ HandleMessageError(s)
      PROVE  PageOrigins /\ ServerOrigins
  BY <1>1, <1>2, <1>10 DEF HandleAck, HandleMessageError
<1>11. CASE HandleServerError
  BY <1>1, <1>2, <1>11 DEF HandleServerError
<1>12. CASE Retry
  BY <1>12, RangeEmpty, OnceAbsent, PageLess, ServerLess DEF Retry, Cut
<1>13. QED
  BY <1>3, <1>4, <1>5, <1>6, <1>7, <1>8, <1>9, <1>10, <1>11, <1>12 DEF PageStep

\* Every packet has one of these origins.
LEMMA Origins == TypeOK /\ [Next]_vars => PageOrigins /\ ServerOrigins
<1> SUFFICES ASSUME TypeOK, [Next]_vars
             PROVE  PageOrigins /\ ServerOrigins
  OBVIOUS
<1>1. CASE Connected
  BY <1>1, PageLess, ServerLess DEF Connected
<1>2. CASE Mount
  <2>1. \A k, e : k # "ready" => /\ About(k, e) # Packet("register")
                                 /\ \A f : About(k, e) # About("ready", f)
    BY SamePacket
  <2>2. Range(toServer') = Range(toServer) \cup {Packet("register")}
                             \cup {About("ready", e) : e \in 1..Effects}
    BY <1>2, MountPackets, PageEmits DEF Mount
  <2>3. PageOrigins
    BY <1>2, <2>1, <2>2 DEF PageOrigins, Ready, Took, TookBatch
  <2>4. QED BY <1>2, <2>3, ServerLess DEF Mount
<1>3. CASE Close
  BY <1>3, RangeEmpty, OnceAbsent, PageLess, ServerLess DEF Close
<1>4. CASE Drop
  BY <1>4, RangeEmpty, OnceAbsent, PageLess, ServerLess DEF Drop, Cut
<1>5. ASSUME NEW m \in Msgs, Offer(m)
      PROVE  PageOrigins /\ ServerOrigins
  <2>1. PageOrigins
    BY <1>5, PageLess DEF Offer
  <2>2. CASE UNCHANGED toPage
    BY <2>1, <2>2, ServerLess
  <2>3. CASE toPage' = Append(toPage, About("message", m))
    <3>1. /\ Range(toPage') = Range(toPage) \cup {About("message", m)}
          /\ \A x : /\ Once(toPage, x)
                    /\ x # About("message", m) \/ x \notin Range(toPage)
                    => Once(toPage', x)
      BY <2>3, ServerEmits, PacketTypes
    <3>2. \A n : n # m => About("message", n) # About("message", m)
      BY SamePacket
    <3>3. QED BY <1>5, <2>1, <3>1, <3>2, NoBatch DEF ServerOrigins, Due
  <2>4. QED BY <1>5, <2>2, <2>3 DEF Offer
<1>6. ASSUME NEW s \in Sends, Send(s)
      PROVE  PageOrigins /\ ServerOrigins
  <2>1. <<Packet("get")>> \in Seq(ToServer) /\ Range(<<Packet("get")>>) = {Packet("get")}
    BY PacketTypes, Single
  <2>2. PageOrigins
    <3>2. CASE UNCHANGED toServer
      BY <3>2, PageLess
    <3>3. CASE Emit(<<Packet("get")>>)
      <4>1. /\ Range(toServer') = Range(toServer) \cup {Packet("get")}
            /\ \A x : /\ Once(toServer, x) /\ Once(<<Packet("get")>>, x)
                      /\ x \notin Range(toServer) \/ x \notin {Packet("get")}
                      => Once(toServer', x)
        BY <2>1, <3>3, PageEmits
      <4>2. \A x : Once(<<Packet("get")>>, x)
        BY Single, PacketTypes
      <4>3. QED BY <4>1, <4>2, PageOther
    <3>4. QED BY <1>6, <3>2, <3>3 DEF Send
  <2>3. QED BY <1>6, <2>2, ServerLess DEF Send
<1>7. CASE UNCHANGED vars
  BY <1>7, PageLess, ServerLess DEF vars, linkVars
<1>8. CASE SaveMessages
  BY <1>8, PageLess, ServerLess DEF SaveMessages, linkVars
<1>9. QED
  BY <1>1, <1>2, <1>3, <1>4, <1>5, <1>6, <1>7, <1>8, ServerStepOrigins, PageStepOrigins
  DEF Next, EnvironmentStep

\* A drain waits for the inbox it has read.
DrainOrigins ==
  \A e \in 1..Effects : \/ drain'[e] = drain[e]
                        \/ drain'[e] = <<>>
                        \/ InboxReady(e) /\ drain'[e] = inbox

\* The inbox gets what is pushed, and is emptied by a drain.
InboxOrigins ==
  \/ inbox' = inbox
  \/ \E m \in Msgs : Push(m)
  \/ \E e \in 1..Effects : BatchTaken(e) /\ inbox' = <<>>

\* The peer's message is offered or pushed first, and settled once.
FateOrigins ==
  \A m \in Msgs : \/ fate'[m] = fate[m]
                  \/ Offer(m)
                  \/ Push(m)
                  \/ fate[m] = "offered" /\ fate'[m] = "failed"
                  \/ fate[m] = "offered" /\ MessageTaken(m)

LEMMA DataOrigins == TypeOK /\ [Next]_vars => DrainOrigins /\ InboxOrigins /\ FateOrigins
<1> SUFFICES ASSUME TypeOK, [Next]_vars
             PROVE  DrainOrigins /\ InboxOrigins /\ FateOrigins
  OBVIOUS
<1>1. ASSUME UNCHANGED <<fate, inbox, drain>>
      PROVE  DrainOrigins /\ InboxOrigins /\ FateOrigins
  BY <1>1 DEF DrainOrigins, InboxOrigins, FateOrigins
<1>2. ASSUME UNCHANGED <<fate, inbox>>, drain' = [e \in 1..Effects |-> <<>>]
      PROVE  DrainOrigins /\ InboxOrigins /\ FateOrigins
  BY <1>2 DEF DrainOrigins, InboxOrigins, FateOrigins
<1>3. CASE ServerStep
  <2>1. CASE RegisterKey \/ GetKey \/ \E s \in Sends : MessageSent(s)
    BY <1>1, <2>1 DEF RegisterKey, GetKey, MessageSent, serverVars
  <2>2. ASSUME NEW e \in 1..Effects, InboxReady(e)
        PROVE  DrainOrigins /\ InboxOrigins /\ FateOrigins
    <3>1. /\ UNCHANGED <<fate, inbox>>
          /\ \A f \in 1..Effects : drain'[f] = IF f = e THEN inbox ELSE drain[f]
      BY <2>2 DEF InboxReady, TypeOK
    <3>2. QED BY <2>2, <3>1 DEF DrainOrigins, InboxOrigins, FateOrigins
  <2>3. ASSUME NEW e \in 1..Effects, BatchTaken(e)
        PROVE  DrainOrigins /\ InboxOrigins /\ FateOrigins
    <3>1. /\ UNCHANGED fate
          /\ inbox' = inbox \/ inbox' = <<>>
          /\ \A f \in 1..Effects : drain'[f] = drain[f] \/ drain'[f] = <<>>
      BY <2>3 DEF BatchTaken, TypeOK
    <3>2. QED BY <2>3, <3>1 DEF DrainOrigins, InboxOrigins, FateOrigins
  <2>4. ASSUME NEW e \in 1..Effects, DrainTimeout(e)
        PROVE  DrainOrigins /\ InboxOrigins /\ FateOrigins
    <3>1. /\ UNCHANGED <<fate, inbox>>
          /\ \A f \in 1..Effects : drain'[f] = drain[f] \/ drain'[f] = <<>>
      BY <2>4 DEF DrainTimeout, TypeOK
    <3>2. QED BY <3>1 DEF DrainOrigins, InboxOrigins, FateOrigins
  <2>5. ASSUME NEW m \in Msgs, MessageTaken(m)
        PROVE  DrainOrigins /\ InboxOrigins /\ FateOrigins
    <3>1. /\ UNCHANGED <<inbox, drain>>
          /\ \A n \in Msgs : fate'[n] = fate[n] \/ (n = m /\ fate[n] = "offered")
      BY <2>5 DEF MessageTaken, TypeOK
    <3>2. QED BY <2>5, <3>1 DEF DrainOrigins, InboxOrigins, FateOrigins
  <2>6. ASSUME NEW m \in Msgs, Push(m)
        PROVE  DrainOrigins /\ InboxOrigins /\ FateOrigins
    <3>1. UNCHANGED drain /\ \A n \in Msgs : fate'[n] = fate[n] \/ n = m
      BY <2>6 DEF Push, TypeOK
    <3>2. QED BY <2>6, <3>1 DEF DrainOrigins, InboxOrigins, FateOrigins
  <2>7. ASSUME NEW m \in Msgs, OfferTimeout(m)
        PROVE  DrainOrigins /\ InboxOrigins /\ FateOrigins
    <3>1. /\ UNCHANGED <<inbox, drain>>
          /\ \A n \in Msgs : \/ fate'[n] = fate[n]
                             \/ fate[n] = "offered" /\ fate'[n] = "failed"
      BY <2>7 DEF OfferTimeout, TypeOK
    <3>2. QED BY <3>1 DEF DrainOrigins, InboxOrigins, FateOrigins
  <2>8. QED BY <1>3, <2>1, <2>2, <2>3, <2>4, <2>5, <2>6, <2>7 DEF ServerStep
<1>4. CASE PageStep
  BY <1>1, <1>2, <1>4
  DEF PageStep, Unheard, HandleMessageIncoming, HandleInboxIncoming, HandleKeyResponse,
      UseKey, KeyTimeout, HandlePublicKeyError, HandleAck, HandleMessageError,
      HandleServerError, Retry, Cut, serverVars
<1>5. ASSUME NEW m \in Msgs, Offer(m)
      PROVE  DrainOrigins /\ InboxOrigins /\ FateOrigins
  <2>1. UNCHANGED <<inbox, drain>> /\ \A n \in Msgs : fate'[n] = fate[n] \/ n = m
    BY <1>5 DEF Offer, TypeOK
  <2>2. QED BY <1>5, <2>1 DEF DrainOrigins, InboxOrigins, FateOrigins
<1>6. CASE Mount \/ Close \/ SaveMessages \/ Drop \/ \E s \in Sends : Send(s)
  BY <1>1, <1>2, <1>6 DEF Mount, Close, SaveMessages, Drop, Cut, Send, serverVars
<1>7. CASE Connected \/ UNCHANGED vars
  BY <1>1, <1>7 DEF Connected, vars, serverVars
<1>8. QED
  BY <1>3, <1>4, <1>5, <1>6, <1>7 DEF Next, EnvironmentStep

-----------------------------------------------------------------------------
(* A drain from the request to the acknowledgement.                         *)

BatchesFor(e) == {p \in Range(toPage) \cap Batches : p.of = e}

\* A page asks for its inbox once a visit and effect: no drain is under way before
\* the request is served, and the batch is what the drain waits for to be taken.
StageInv ==
  \A e \in 1..Effects :
    /\ Once(toServer, About("ready", e))
    /\ Ready(e) => ~TookBatch(e) /\ drain[e] = <<>> /\ BatchesFor(e) = {}
    /\ drain[e] # <<>> => \A p \in BatchesFor(e) : p.msgs = drain[e]

LEMMA StageNext ==
  TypeOK /\ PlaceInv /\ StageInv /\ [Next]_vars => StageInv'
<1> SUFFICES ASSUME TypeOK, PlaceInv, StageInv, [Next]_vars,
                    NEW e \in 1..Effects
             PROVE  /\ Once(toServer', About("ready", e))
                    /\ Ready(e)' => ~TookBatch(e)' /\ drain'[e] = <<>> /\ BatchesFor(e)' = {}
                    /\ drain'[e] # <<>> => \A p \in BatchesFor(e)' : p.msgs = drain'[e]
  BY DEF StageInv
<1>1. PageOrigins /\ ServerOrigins /\ DrainOrigins
  BY Origins, DataOrigins
<1>2. /\ Once(toServer, About("ready", e))
      /\ Ready(e) => ~TookBatch(e) /\ drain[e] = <<>> /\ BatchesFor(e) = {}
      /\ drain[e] # <<>> => \A p \in BatchesFor(e) : p.msgs = drain[e]
  BY DEF StageInv
<1>3. \A f : \A ms : Batch(f, ms).of = f /\ Batch(f, ms).msgs = ms
  BY DEF Batch
<1>4. CASE Mount
  <2>1. /\ toServer = <<>> /\ drain[e] = <<>>
        /\ \A p \in Range(toPage) : IsMessage(p)
        /\ drain' = drain /\ toPage' = toPage
    BY <1>4 DEF Mount, PlaceInv, AwayInv, serverVars
  <2>2. BatchesFor(e)' = {}
    BY <2>1, NoBatch DEF BatchesFor, IsMessage
  <2>3. /\ Range(toServer') = {Packet("register")} \cup {About("ready", f) : f \in 1..Effects}
        /\ Once(toServer', About("ready", e))
    <3> DEFINE ps == IF Effects = 1 THEN MountEffect(1) ELSE MountEffect(1) \o MountEffect(2)
    <3>1. /\ ps \in Seq(ToServer)
          /\ Range(ps) = {Packet("register")} \cup {About("ready", f) : f \in 1..Effects}
          /\ Once(ps, About("ready", e))
      BY MountPackets
    <3>2. Emit(ps)
      BY <1>4 DEF Mount
    <3> HIDE DEF ps
    <3>3. Range(toServer) = {} /\ Once(toServer, About("ready", e))
      BY <2>1, RangeEmpty, OnceAbsent
    <3>4. QED BY <3>1, <3>2, <3>3, PageEmits
  <2>4. ~TookBatch(e)'
    BY <2>3, SamePacket DEF TookBatch
  <2>5. QED BY <2>1, <2>2, <2>3, <2>4
<1>5. CASE InboxReady(e)
  <2>1. Arrives(About("ready", e)) /\ drain'[e] = inbox
    BY <1>5 DEF InboxReady, TypeOK
  <2>2. Ready(e) /\ ~Ready(e)' /\ Once(toServer', About("ready", e))
    BY <1>2, <2>1, Arrived DEF Ready
  <2>3. \A p \in BatchesFor(e)' : p.msgs = drain'[e]
    BY <1>1, <1>2, <1>3, <2>1, <2>2 DEF ServerOrigins, BatchesFor
  <2>4. QED BY <2>2, <2>3
<1>6. CASE ~Mount /\ ~InboxReady(e)
  <2>1. /\ Once(toServer', About("ready", e))
        /\ Ready(e)' => Ready(e)
        /\ TookBatch(e)' => TookBatch(e) \/ HandleInboxIncoming(e)
    BY <1>1, <1>2, <1>6 DEF PageOrigins
  <2>2. BatchesFor(e)' \subseteq BatchesFor(e)
    BY <1>1, <1>3, <1>6 DEF ServerOrigins, BatchesFor
  <2>3. drain'[e] = drain[e] \/ drain'[e] = <<>>
    BY <1>1, <1>6 DEF DrainOrigins
  <2>4. HandleInboxIncoming(e) => BatchesFor(e) # {}
    BY ReachesPage, BatchIs DEF HandleInboxIncoming, BatchesFor
  <2>5. QED BY <1>2, <2>1, <2>2, <2>3, <2>4
<1>7. QED BY <1>4, <1>5, <1>6

-----------------------------------------------------------------------------
(* Nothing vanishes.                                                        *)

Waits(m) == m \in Range(fetching) \cup Range(ready)

\* The page has m: it waits for its key or the callback that has it, is shown, or
\* was given up.
Have(m) == Waits(m) \/ shown[m] > 0 \/ cause[m] # "none"

\* The page handles a batch: what it has not seen is received.
LEMMA HandlesBatch ==
  ASSUME TypeOK, NEW e \in 1..Effects, HandleInboxIncoming(e)
  PROVE  \E p \in BatchesFor(e), fresh \in Seq(Msgs) :
           /\ Heard(p)
           /\ p.msgs \in Seq(Msgs)
           /\ seen' = seen \cup Range(p.msgs)
           /\ Range(fresh) = Range(p.msgs) \ seen
           /\ \A x : Once(p.msgs, x) => Once(fresh, x)
           /\ Receive(fresh, About("tookBatch", e))
<1>1. PICK p \in Range(toPage) :
        /\ p.kind = "inbox" /\ p.of = e
        /\ Heard(p)
        /\ Receive(Filter(p.msgs, {m \in Msgs : ~IsDuplicateIncoming(m)}),
                   About("tookBatch", e))
        /\ seen' = seen \cup Range(p.msgs)
  BY DEF HandleInboxIncoming
<1>2. p \in BatchesFor(e) /\ p.msgs \in Seq(Msgs)
  BY <1>1, ReachesPage, BatchIs DEF BatchesFor
<1> DEFINE new == {m \in Msgs : m \notin seen}
           fresh == Filter(p.msgs, new)
<1>3. /\ fresh \in Seq(Msgs \cap new)
      /\ Range(fresh) = Range(p.msgs) \cap new
      /\ \A x : Once(p.msgs, x) => Once(fresh, x)
  BY <1>2, Filters
<1>4. fresh \in Seq(Msgs)
  BY <1>3, SeqMonotonic
<1>5. Range(fresh) = Range(p.msgs) \ seen
  BY <1>2, <1>3, RangeSubset
<1>6. Receive(fresh, About("tookBatch", e))
  BY <1>1 DEF IsDuplicateIncoming
<1> HIDE DEF fresh
<1>7. QED BY <1>1, <1>2, <1>3, <1>4, <1>5, <1>6

\* What is received is there from then on.
LEMMA ReceivedIsThere ==
  ASSUME TypeOK, NEW ms \in Seq(Msgs), NEW ack \in ToServer, Receive(ms, ack)
  PROVE  \A m \in Msgs : Have(m) \/ m \in Range(ms) => Have(m)'
<1>1. /\ UNCHANGED <<shown, cause>>
      /\ \/ Range(ready') = Range(ready) \cup Range(ms) /\ UNCHANGED fetching
         \/ Range(fetching') = Range(fetching) \cup Range(ms) /\ UNCHANGED ready
  BY Receives DEF Joins
<1>2. QED BY <1>1 DEF Have, Waits

\* What the page has it keeps, shows or gives up.
LEMMA HaveStays ==
  ASSUME TypeOK, PlaceInv, [Next]_vars
  PROVE  \A m \in Msgs : Have(m) => Have(m)'
<1>1. ASSUME UNCHANGED <<fetching, ready, shown, cause>>
      PROVE  \A m \in Msgs : Have(m) => Have(m)'
  BY <1>1 DEF Have, Waits
<1>2. ASSUME NEW e \in 1..Effects, BatchTaken(e)
      PROVE  \A m \in Msgs : Have(m) => Have(m)'
  <2>1. \A m \in Msgs : cause[m] # "none" => cause'[m] # "none"
    BY <1>2, Blames DEF BatchTaken, Causes
  <2>2. QED BY <1>2, <2>1 DEF BatchTaken, Have, Waits, keyVars
<1>3. ASSUME NEW m \in Msgs, HandleMessageIncoming(m)
      PROVE  \A n \in Msgs : Have(n) => Have(n)'
  <2>1. <<m>> \in Seq(Msgs) /\ About("took", m) \in ToServer
    BY Single, PacketTypes
  <2>2. QED BY <1>3, <2>1, ReceivedIsThere DEF HandleMessageIncoming
<1>4. ASSUME NEW e \in 1..Effects, HandleInboxIncoming(e)
      PROVE  \A m \in Msgs : Have(m) => Have(m)'
  <2>1. About("tookBatch", e) \in ToServer
    BY PacketTypes
  <2>2. QED BY <1>4, <2>1, HandlesBatch, ReceivedIsThere
<1>5. CASE HandleKeyResponse
  <2>1. CASE ready' = ready \o fetching /\ UNCHANGED cause
    <3>1. ready \in Seq(Msgs \cup Sends) /\ fetching \in Seq(Msgs \cup Sends)
      BY DEF TypeOK
    <3>2. Range(ready') = Range(ready) \cup Range(fetching)
      BY <2>1, <3>1, Concat
    <3>3. QED BY <1>5, <2>1, <3>2 DEF HandleKeyResponse, Have, Waits
  <2>2. CASE Blame(Range(fetching) \cap Msgs, "undecryptable") /\ UNCHANGED ready
    <3>1. \A m \in Msgs : m \in Range(fetching) \/ cause[m] # "none" => cause'[m] # "none"
      BY <2>2, Blames DEF Causes
    <3>2. QED BY <1>5, <2>2, <3>1 DEF HandleKeyResponse, Have, Waits
  <2>3. QED BY <1>5, <2>1, <2>2 DEF HandleKeyResponse
<1>6. CASE UseKey
  <2>1. Range(ready) = Range(ready') \cup {Head(ready)} /\ fetching' = fetching
    BY <1>6, Taken DEF UseKey
  <2>2. CASE Head(ready) \in Msgs /\ Decrypt(Head(ready))
    <3>1. /\ shown'[Head(ready)] > 0 \/ cause'[Head(ready)] # "none"
          /\ \A m \in Msgs : /\ cause[m] # "none" => cause'[m] # "none"
                             /\ shown[m] <= shown'[m]
          /\ shown \in [Msgs -> Nat] /\ shown' \in [Msgs -> Nat]
      BY <2>2, Decrypts DEF TypeOK
    <3>2. \A m \in Msgs : shown[m] > 0 => shown'[m] > 0
      BY <3>1
    <3>3. QED BY <2>1, <3>1, <3>2 DEF Have, Waits
  <2>3. CASE Head(ready) \in Sends /\ UNCHANGED <<shown, cause>>
    BY <2>1, <2>3, ChatAssumption DEF Have, Waits
  <2>4. QED BY <1>6, <2>2, <2>3 DEF UseKey
<1>7. CASE KeyTimeout
  <2>1. fetching \in Seq(Msgs \cup Sends) /\ fetching # <<>> /\ fetching' = Tail(fetching)
    BY <1>7 DEF KeyTimeout, TypeOK
  <2>2. Range(fetching) = Range(fetching') \cup {Head(fetching)}
    BY <2>1, TailOnce
  <2>3. \A m \in Msgs : m = Head(fetching) \/ cause[m] # "none" => cause'[m] # "none"
    BY <1>7, Blames DEF KeyTimeout, Causes
  <2>4. QED BY <1>7, <2>2, <2>3 DEF KeyTimeout, Have, Waits
<1>8. CASE Mount
  <2>1. PICK old : shown' = LoadStoredMessages(old) /\ Blame(old, "expired")
    BY <1>8 DEF Mount
  <2>2. \A m \in Msgs : m \in old \/ cause[m] # "none" => cause'[m] # "none"
    BY <2>1, Blames DEF Causes
  <2>3. \A m \in Msgs : m \notin old => shown'[m] = shown[m]
    BY <1>8, <2>1 DEF Mount, LoadStoredMessages, PlaceInv, AwayInv
  <2>4. QED BY <1>8, <2>2, <2>3 DEF Mount, Have, Waits
<1>9. CASE Close
  <2>1. \A m \in Msgs : Have(m) => shown'[m] > 0 \/ cause'[m] # "none"
    <3> SUFFICES ASSUME NEW m \in Msgs, Have(m), ~(shown'[m] > 0)
                 PROVE  cause'[m] # "none"
      OBVIOUS
    <3>1. stored[m] = 0
      BY <1>9 DEF Close, TypeOK
    <3>2. QED BY <1>9, <3>1 DEF Close, Have, Waits
  <2>2. QED BY <2>1 DEF Have
<1>10. ASSUME NEW s \in Sends, Send(s)
      PROVE  \A m \in Msgs : Have(m) => Have(m)'
  <2>1. Range(fetching) \subseteq Range(fetching') /\ Range(ready) \subseteq Range(ready')
    <3>1. /\ fetching \in Seq(Msgs \cup Sends) /\ ready \in Seq(Msgs \cup Sends)
          /\ s \in Msgs \cup Sends
      BY DEF TypeOK
    <3>2. /\ Range(Append(fetching, s)) = Range(fetching) \cup {s}
          /\ Range(Append(ready, s)) = Range(ready) \cup {s}
      BY <3>1, RangeAppend
    <3>3. /\ fetching' = fetching \/ fetching' = Append(fetching, s)
          /\ ready' = ready \/ ready' = Append(ready, s)
      BY <1>10 DEF Send
    <3>4. QED BY <3>2, <3>3
  <2>2. QED BY <1>10, <2>1 DEF Send, Have, Waits
<1>11. CASE ServerStep
  BY <1>1, <1>2, <1>11
  DEF ServerStep, RegisterKey, GetKey, InboxReady, DrainTimeout, MessageTaken, Push,
      OfferTimeout, MessageSent, keyVars
<1>12. CASE PageStep
  BY <1>1, <1>3, <1>4, <1>5, <1>6, <1>7, <1>12
  DEF PageStep, Unheard, HandlePublicKeyError, HandleAck, HandleMessageError,
      HandleServerError, Retry, keyVars
<1>13. CASE Connected \/ SaveMessages \/ Drop \/ (\E m \in Msgs : Offer(m))
            \/ UNCHANGED vars
  BY <1>1, <1>13 DEF Connected, SaveMessages, Drop, Offer, vars, keyVars
<1>14. QED
  BY <1>8, <1>9, <1>10, <1>11, <1>12, <1>13 DEF Next, EnvironmentStep

\* What the page has acknowledged, or will not take again, it has.
HaveInv ==
  /\ \A m \in Msgs : Took(m) => Have(m)
  /\ \A m \in seen : Have(m)
  /\ \A e \in 1..Effects : TookBatch(e) => \A m \in Range(drain[e]) : Have(m)
  /\ NothingVanishes

\* The page remembers what it has seen until it is closed.
LEMMA SeenOrigins ==
  ASSUME [Next]_vars
  PROVE  seen' = seen \/ Close \/ \E e \in 1..Effects : HandleInboxIncoming(e)
<1>1. CASE ServerStep
  BY <1>1
  DEF ServerStep, RegisterKey, GetKey, InboxReady, BatchTaken, DrainTimeout,
      MessageTaken, Push, OfferTimeout, MessageSent
<1>2. CASE PageStep
  BY <1>2
  DEF PageStep, Unheard, HandleMessageIncoming, HandleKeyResponse, UseKey,
      KeyTimeout, HandlePublicKeyError, HandleAck, HandleMessageError,
      HandleServerError, Retry
<1>3. CASE EnvironmentStep
  BY <1>3 DEF EnvironmentStep, Mount, SaveMessages, Drop, Offer, Send
<1>4. QED BY <1>1, <1>2, <1>3 DEF Next, Connected, vars

LEMMA HaveNext ==
  TypeOK /\ PlaceInv /\ StageInv /\ HaveInv /\ [Next]_vars => HaveInv'
<1> SUFFICES ASSUME TypeOK, PlaceInv, StageInv, HaveInv, [Next]_vars
             PROVE  HaveInv'
  OBVIOUS
<1>1. \A m \in Msgs : Have(m) => Have(m)'
  BY HaveStays
<1>2. PageOrigins /\ DrainOrigins /\ InboxOrigins /\ FateOrigins
  BY Origins, DataOrigins
<1>3. \A e \in 1..Effects :
        HandleInboxIncoming(e) =>
          \E p \in BatchesFor(e) : /\ p.msgs \in Seq(Msgs)
                                   /\ seen' = seen \cup Range(p.msgs)
                                   /\ \A m \in Range(p.msgs) : Have(m)'
  <2> SUFFICES ASSUME NEW e \in 1..Effects, HandleInboxIncoming(e)
               PROVE  \E p \in BatchesFor(e) : /\ p.msgs \in Seq(Msgs)
                                               /\ seen' = seen \cup Range(p.msgs)
                                               /\ \A m \in Range(p.msgs) : Have(m)'
    OBVIOUS
  <2>1. PICK p \in BatchesFor(e), fresh \in Seq(Msgs) :
          /\ p.msgs \in Seq(Msgs)
          /\ seen' = seen \cup Range(p.msgs)
          /\ Range(fresh) = Range(p.msgs) \ seen
          /\ Receive(fresh, About("tookBatch", e))
    BY HandlesBatch
  <2>2. About("tookBatch", e) \in ToServer
    BY PacketTypes
  <2>3. \A m \in Msgs : m \in Range(fresh) => Have(m)'
    BY <2>1, <2>2, ReceivedIsThere
  <2>4. \A m \in Range(p.msgs) : m \in Msgs
    BY <2>1, RangeSubset
  <2>5. \A m \in seen : m \in Msgs /\ Have(m)'
    BY <1>1 DEF HaveInv, TypeOK
  <2>6. QED BY <2>1, <2>3, <2>4, <2>5
<1>4. ASSUME NEW m \in Msgs, Took(m)'
      PROVE  Have(m)'
  <2>1. CASE Took(m)
    BY <1>1, <2>1 DEF HaveInv
  <2>2. CASE HandleMessageIncoming(m)
    <3>1. <<m>> \in Seq(Msgs) /\ Range(<<m>>) = {m} /\ About("took", m) \in ToServer
      BY Single, PacketTypes
    <3>2. QED BY <2>2, <3>1, ReceivedIsThere DEF HandleMessageIncoming
  <2>3. QED BY <1>2, <1>4, <2>1, <2>2 DEF PageOrigins
<1>5. ASSUME NEW m \in seen'
      PROVE  Have(m)'
  <2>1. CASE seen' = seen
    BY <1>1, <1>5, <2>1 DEF HaveInv, TypeOK
  <2>2. CASE \E e \in 1..Effects : HandleInboxIncoming(e)
    BY <1>1, <1>3, <1>5, <2>2 DEF HaveInv, TypeOK
  <2>3. QED BY <1>5, <2>1, <2>2, SeenOrigins DEF Close
<1>6. ASSUME NEW e \in 1..Effects, TookBatch(e)', NEW m \in Range(drain'[e])
      PROVE  Have(m)'
  <2>1. CASE TookBatch(e)
    <3>1. ~Ready(e)
      BY <2>1 DEF StageInv
    <3>2. ~InboxReady(e)
      BY <3>1, Arrived DEF InboxReady, Ready
    <3>3. drain'[e] = drain[e] \/ drain'[e] = <<>>
      BY <1>2, <3>2 DEF DrainOrigins
    <3>4. m \in Range(drain[e]) /\ drain[e] \in Seq(Msgs)
      BY <1>6, <3>3, RangeEmpty DEF TypeOK
    <3>5. m \in Msgs
      BY <3>4, RangeSubset
    <3>6. QED BY <1>1, <2>1, <3>4, <3>5 DEF HaveInv
  <2>2. CASE HandleInboxIncoming(e)
    <3>1. drain' = drain
      BY <2>2 DEF HandleInboxIncoming, serverVars
    <3>2. drain[e] # <<>>
      BY <1>6, <3>1, RangeEmpty
    <3>3. \A p \in BatchesFor(e) : p.msgs = drain[e]
      BY <3>2 DEF StageInv
    <3>4. QED BY <1>3, <1>6, <2>2, <3>1, <3>3
  <2>3. QED BY <1>2, <1>6, <2>1, <2>2 DEF PageOrigins
<1>7. ASSUME NEW m \in Msgs, fate'[m] = "kept"
      PROVE  m \in Range(inbox') \/ Have(m)'
  <2>1. CASE fate[m] = "kept"
    <3>1. m \in Range(inbox) \/ Have(m)
      BY <2>1 DEF HaveInv, NothingVanishes, Have, Waits
    <3>2. CASE inbox' = inbox
      BY <1>1, <3>1, <3>2
    <3>3. ASSUME NEW n \in Msgs, Push(n)
          PROVE  m \in Range(inbox') \/ Have(m)'
      <4>1. Range(inbox') = Range(inbox) \cup {n}
        BY <3>3, RangeAppend DEF Push, TypeOK
      <4>2. QED BY <1>1, <3>1, <4>1
    <3>4. ASSUME NEW e \in 1..Effects, BatchTaken(e), m \in Range(inbox), inbox' # inbox
          PROVE  Have(m)'
      <4>1. Blame(Range(inbox) \ Range(drain[e]), "overtaken")
        BY <3>4 DEF BatchTaken
      <4>2. m \notin Range(drain[e]) => cause'[m] # "none"
        BY <3>4, <4>1, Blames DEF Causes
      <4>3. TookBatch(e)
        BY <3>4, Arrived DEF BatchTaken, TookBatch
      <4>4. QED BY <1>1, <4>2, <4>3 DEF HaveInv, Have
    <3>5. QED BY <1>1, <1>2, <3>1, <3>2, <3>3, <3>4 DEF InboxOrigins
  <2>2. CASE Push(m)
    BY <2>2, RangeAppend DEF Push, TypeOK
  <2>3. CASE MessageTaken(m)
    <3>1. Took(m)
      BY <2>3, Arrived DEF MessageTaken, Took
    <3>2. QED BY <1>1, <3>1 DEF HaveInv
  <2>4. ~Offer(m)
    BY <1>7 DEF Offer, TypeOK
  <2>5. QED BY <1>2, <1>7, <2>1, <2>2, <2>3, <2>4 DEF FateOrigins
<1>8. NothingVanishes'
  BY <1>7 DEF NothingVanishes, Have, Waits
<1>9. QED BY <1>4, <1>5, <1>6, <1>8 DEF HaveInv

LEMMA StageInvariant == Spec => [](TypeOK /\ PlaceInv /\ StageInv)
<1>1. Init => StageInv
  BY RangeEmpty, OnceAbsent DEF Init, StageInv, Ready, BatchesFor
<1>2. QED BY <1>1, PlaceInvariant, StageNext, PTL DEF Spec

\* A message whose sender was told of its success is in the inbox, waits for its
\* key or the callback that has it, or is in the conversation, unless the page, which
\* acknowledges before it decrypts and stores (useChat.ts:388, 439), could not decrypt
\* it, did not get the key in time, was closed before it had used the key or before
\* the conversation was stored, if it could be (useChat.ts:168-170,
\* messageStore.ts:55-68), the TTL of the store has passed, or the message was pushed
\* while a drain was going on.
THEOREM NothingVanishesCorrect == Spec => []NothingVanishes
<1>1. Init => HaveInv
  BY RangeEmpty DEF Init, HaveInv, NothingVanishes, Took, TookBatch
<1>2. HaveInv => NothingVanishes
  BY DEF HaveInv
<1>3. QED BY <1>1, <1>2, StageInvariant, HaveNext, PTL DEF Spec

-----------------------------------------------------------------------------
(* Nothing is shown twice.                                                  *)

\* m has come to the page: it waits for its key or a callback, or is shown.
Come(m) == Waits(m) \/ shown[m] > 0

\* The page has one copy of m at most.
OneCopy(m) ==
  /\ shown[m] <= 1 /\ (Waits(m) => shown[m] = 0)
  /\ Once(fetching, m) /\ Once(ready, m)
  /\ m \notin Range(fetching) \/ m \notin Range(ready)

\* This step hands m to the page.
Receiving(m) ==
  \/ HandleMessageIncoming(m)
  \/ \E p \in Range(toPage) \cap Batches :
       Heard(p) /\ HandleInboxIncoming(p.of) /\ m \in Range(p.msgs) \ seen

\* What is received adds a copy of each of its messages.
LEMMA ReceivedCopies ==
  ASSUME TypeOK, NEW ms \in Seq(Msgs), NEW ack \in ToServer, Receive(ms, ack),
         NEW m \in Msgs
  PROVE  /\ Come(m)' => Come(m) \/ m \in Range(ms)
         /\ OneCopy(m) /\ Once(ms, m) /\ (m \in Range(ms) => ~Come(m)) => OneCopy(m)'
<1>0. shown[m] \in Nat
  BY DEF TypeOK
<1>1. UNCHANGED shown
  BY Receives
<1>2. CASE Joins(ready, ms, ready') /\ UNCHANGED fetching
  <2>1. /\ Range(ready') = Range(ready) \cup Range(ms)
        /\ Once(ready, m) /\ Once(ms, m) /\ (m \notin Range(ready) \/ m \notin Range(ms))
             => Once(ready', m)
    BY <1>2 DEF Joins
  <2>2. Waits(m)' <=> Waits(m) \/ m \in Range(ms)
    BY <1>2, <2>1 DEF Waits
  <2>3. Come(m)' => Come(m) \/ m \in Range(ms)
    BY <1>1, <2>2 DEF Come
  <2>4. ASSUME OneCopy(m), Once(ms, m), m \in Range(ms) => ~Come(m)
        PROVE  OneCopy(m)'
    <3>1. m \in Range(ms) => shown[m] = 0 /\ ~Waits(m)
      BY <1>0, <2>4 DEF Come
    <3>2. Once(ready', m) /\ (m \notin Range(fetching') \/ m \notin Range(ready'))
      BY <1>2, <2>1, <2>4, <3>1 DEF OneCopy, Waits
    <3>3. QED BY <1>1, <1>2, <2>2, <2>4, <3>1, <3>2 DEF OneCopy
  <2>5. QED BY <2>3, <2>4
<1>3. CASE Joins(fetching, ms, fetching') /\ UNCHANGED ready
  <2>1. /\ Range(fetching') = Range(fetching) \cup Range(ms)
        /\ Once(fetching, m) /\ Once(ms, m) /\ (m \notin Range(fetching) \/ m \notin Range(ms))
             => Once(fetching', m)
    BY <1>3 DEF Joins
  <2>2. Waits(m)' <=> Waits(m) \/ m \in Range(ms)
    BY <1>3, <2>1 DEF Waits
  <2>3. Come(m)' => Come(m) \/ m \in Range(ms)
    BY <1>1, <2>2 DEF Come
  <2>4. ASSUME OneCopy(m), Once(ms, m), m \in Range(ms) => ~Come(m)
        PROVE  OneCopy(m)'
    <3>1. m \in Range(ms) => shown[m] = 0 /\ ~Waits(m)
      BY <1>0, <2>4 DEF Come
    <3>2. Once(fetching', m) /\ (m \notin Range(fetching') \/ m \notin Range(ready'))
      BY <1>3, <2>1, <2>4, <3>1 DEF OneCopy, Waits
    <3>3. QED BY <1>1, <1>3, <2>2, <2>4, <3>1, <3>2 DEF OneCopy
  <2>5. QED BY <2>3, <2>4
<1>4. QED BY <1>2, <1>3, Receives

LEMMA Copies ==
  ASSUME TypeOK, PlaceInv, [Next]_vars,
         \A p \in Range(toPage) \cap Batches : Distinct(p.msgs),
         NEW m \in Msgs
  PROVE  /\ Come(m)' => Come(m) \/ Receiving(m)
         /\ OneCopy(m) /\ (Receiving(m) => ~Come(m)) => OneCopy(m)'
<1> DEFINE Goal == /\ Come(m)' => Come(m) \/ Receiving(m)
                   /\ OneCopy(m) /\ (Receiving(m) => ~Come(m)) => OneCopy(m)'
<1> SUFFICES Goal
  OBVIOUS
<1>0. shown[m] \in Nat /\ shown'[m] \in Nat
  BY TypeNext DEF TypeOK
<1>1. ASSUME UNCHANGED <<fetching, ready, shown>>
      PROVE  Goal
  BY <1>1 DEF Come, OneCopy, Waits
<1>2. ASSUME NEW n \in Msgs, HandleMessageIncoming(n)
      PROVE  Goal
  <2>1. /\ <<n>> \in Seq(Msgs) /\ Range(<<n>>) = {n} /\ Once(<<n>>, m)
        /\ About("took", n) \in ToServer
    BY Single, PacketTypes
  <2>2. /\ Come(m)' => Come(m) \/ m \in {n}
        /\ OneCopy(m) /\ (m \in {n} => ~Come(m)) => OneCopy(m)'
    BY <1>2, <2>1, ReceivedCopies DEF HandleMessageIncoming
  <2>3. m \in {n} => Receiving(m)
    BY <1>2 DEF Receiving
  <2>4. QED BY <2>2, <2>3
<1>3. ASSUME NEW e \in 1..Effects, HandleInboxIncoming(e)
      PROVE  Goal
  <2>1. PICK p \in BatchesFor(e), fresh \in Seq(Msgs) :
          /\ Heard(p)
          /\ Range(fresh) = Range(p.msgs) \ seen
          /\ \A x : Once(p.msgs, x) => Once(fresh, x)
          /\ Receive(fresh, About("tookBatch", e))
    BY <1>3, HandlesBatch
  <2>2. About("tookBatch", e) \in ToServer
    BY PacketTypes
  <2>3. p \in Range(toPage) \cap Batches /\ p.of = e
    BY DEF BatchesFor
  <2>4. Once(fresh, m)
    BY <2>1, <2>3 DEF Distinct, Once
  <2>5. m \in Range(fresh) => Receiving(m)
    BY <1>3, <2>1, <2>3 DEF Receiving
  <2>6. /\ Come(m)' => Come(m) \/ m \in Range(fresh)
        /\ OneCopy(m) /\ (m \in Range(fresh) => ~Come(m)) => OneCopy(m)'
    BY <2>1, <2>2, <2>4, ReceivedCopies
  <2>7. QED BY <2>5, <2>6
<1>4. CASE HandleKeyResponse
  <2>1. /\ fetching' = <<>> /\ m \notin Range(fetching') /\ Once(fetching', m)
        /\ shown' = shown
    BY <1>4, RangeEmpty, OnceAbsent DEF HandleKeyResponse
  <2>2. CASE ready' = ready \o fetching
    <3>1. ready \in Seq(Msgs \cup Sends) /\ fetching \in Seq(Msgs \cup Sends)
      BY DEF TypeOK
    <3>2. Joins(ready, fetching, ready')
      BY <2>2, <3>1, Joined
    <3>3. QED BY <2>1, <3>2 DEF Joins, Come, OneCopy, Waits
  <2>3. CASE UNCHANGED ready
    BY <2>1, <2>3 DEF Come, OneCopy, Waits
  <2>4. QED BY <1>4, <2>2, <2>3 DEF HandleKeyResponse
<1>5. CASE UseKey
  <2>1. /\ Range(ready) = Range(ready') \cup {Head(ready)} /\ fetching' = fetching
        /\ Once(ready, m) => Once(ready', m)
        /\ Once(ready, m) /\ m = Head(ready) => m \notin Range(ready')
    BY <1>5, Taken DEF UseKey
  <2>2. CASE Head(ready) \in Msgs /\ Decrypt(Head(ready))
    <3>1. /\ m = Head(ready) => shown'[m] <= shown[m] + 1
          /\ m # Head(ready) => shown'[m] = shown[m]
      BY <2>2, Decrypts
    <3>2. CASE m = Head(ready)
      <4>1. Waits(m) /\ Come(m)
        BY <2>1, <3>2 DEF Waits, Come
      <4>2. ASSUME OneCopy(m)
            PROVE  OneCopy(m)'
        <5>1. shown[m] = 0 /\ m \notin Range(fetching') /\ m \notin Range(ready')
          BY <2>1, <3>2, <4>1, <4>2 DEF OneCopy
        <5>2. shown'[m] <= 1
          BY <3>1, <3>2, <5>1
        <5>3. ~Waits(m)'
          BY <5>1 DEF Waits
        <5>4. QED BY <2>1, <4>2, <5>1, <5>2, <5>3 DEF OneCopy
      <4>3. QED BY <4>1, <4>2
    <3>3. CASE m # Head(ready)
      BY <2>1, <3>1, <3>3 DEF Come, OneCopy, Waits
    <3>4. QED BY <3>2, <3>3
  <2>3. CASE Head(ready) \in Sends /\ UNCHANGED shown
    BY <2>1, <2>3, ChatAssumption DEF Come, OneCopy, Waits
  <2>4. QED BY <1>5, <2>2, <2>3 DEF UseKey
<1>6. CASE KeyTimeout
  <2>1. fetching \in Seq(Msgs \cup Sends) /\ fetching # <<>> /\ fetching' = Tail(fetching)
    BY <1>6 DEF KeyTimeout, TypeOK
  <2>2. /\ Range(fetching') \subseteq Range(fetching)
        /\ Once(fetching, m) => Once(fetching', m)
    BY <2>1, TailOnce
  <2>3. QED BY <1>6, <2>2 DEF KeyTimeout, Come, OneCopy, Waits
<1>7. CASE Mount
  <2>1. /\ fetching' = fetching /\ ready' = ready
        /\ shown'[m] = 0 \/ shown'[m] = stored[m]
    BY <1>7 DEF Mount, LoadStoredMessages
  <2>2. stored[m] \in Nat /\ stored[m] <= shown[m]
    BY DEF PlaceInv, SaveInv, TypeOK
  <2>3. QED BY <1>0, <2>1, <2>2 DEF Come, OneCopy, Waits
<1>8. CASE Close
  <2>1. /\ m \notin Range(fetching') /\ Once(fetching', m)
        /\ m \notin Range(ready') /\ Once(ready', m)
        /\ ~Waits(m)'
    BY <1>8, RangeEmpty, OnceAbsent DEF Close, Waits
  <2>2. shown'[m] = stored[m] /\ stored[m] \in Nat /\ stored[m] <= shown[m]
    BY <1>8 DEF Close, PlaceInv, SaveInv, TypeOK
  <2>3. (shown'[m] > 0 => shown[m] > 0) /\ (shown[m] <= 1 => shown'[m] <= 1)
    BY <1>0, <2>2
  <2>4. QED BY <2>1, <2>3 DEF Come, OneCopy
<1>9. ASSUME NEW s \in Sends, Send(s)
      PROVE  Goal
  <2>1. /\ fetching \in Seq(Msgs \cup Sends) /\ ready \in Seq(Msgs \cup Sends)
        /\ s \in Msgs \cup Sends /\ s # m
    BY ChatAssumption DEF TypeOK
  <2>2. ASSUME NEW q \in Seq(Msgs \cup Sends), NEW new, new = q \/ new = Append(q, s)
        PROVE  /\ m \in Range(new) <=> m \in Range(q)
               /\ Once(q, m) => Once(new, m)
    <3>1. /\ Range(Append(q, s)) = Range(q) \cup {s}
          /\ Once(q, m) => Once(Append(q, s), m)
      BY <2>1, AppendOnce
    <3>2. CASE new = q
      BY <3>2
    <3>3. CASE new = Append(q, s)
      BY <2>1, <3>1, <3>3
    <3>4. QED BY <2>2, <3>2, <3>3
  <2>3. /\ fetching' = fetching \/ fetching' = Append(fetching, s)
        /\ ready' = ready \/ ready' = Append(ready, s)
        /\ shown' = shown
    BY <1>9 DEF Send
  <2>4. /\ m \in Range(fetching') <=> m \in Range(fetching)
        /\ Once(fetching, m) => Once(fetching', m)
        /\ m \in Range(ready') <=> m \in Range(ready)
        /\ Once(ready, m) => Once(ready', m)
    BY <2>1, <2>2, <2>3
  <2>5. QED BY <2>3, <2>4 DEF Come, OneCopy, Waits
<1>10. CASE ServerStep
  BY <1>1, <1>10
  DEF ServerStep, RegisterKey, GetKey, InboxReady, BatchTaken, DrainTimeout,
      MessageTaken, Push, OfferTimeout, MessageSent, keyVars
<1>11. CASE PageStep
  BY <1>1, <1>2, <1>3, <1>4, <1>5, <1>6, <1>11
  DEF PageStep, Unheard, HandlePublicKeyError, HandleAck, HandleMessageError,
      HandleServerError, Retry, keyVars
<1>12. CASE Connected \/ SaveMessages \/ Drop \/ (\E n \in Msgs : Offer(n))
            \/ UNCHANGED vars
  BY <1>1, <1>12 DEF Connected, SaveMessages, Drop, Offer, vars, keyVars
<1>13. QED
  BY <1>7, <1>8, <1>9, <1>10, <1>11, <1>12 DEF Next, EnvironmentStep

\* A message stays marked as revisited; it is so if the page closes before the
\* inbox is emptied of it.
LEMMA Revisits ==
  ASSUME [Next]_vars
  PROVE  revisited \subseteq revisited' /\ (Close => Range(inbox) \subseteq revisited')
<1>1. CASE ServerStep
  BY <1>1
  DEF ServerStep, RegisterKey, GetKey, InboxReady, BatchTaken, DrainTimeout,
      MessageTaken, Push, OfferTimeout, MessageSent, Close
<1>2. CASE PageStep
  BY <1>2
  DEF PageStep, Unheard, HandleMessageIncoming, HandleInboxIncoming, HandleKeyResponse,
      UseKey, KeyTimeout, HandlePublicKeyError, HandleAck, HandleMessageError,
      HandleServerError, Retry, Close
<1>3. CASE EnvironmentStep
  BY <1>3 DEF EnvironmentStep, Mount, Close, SaveMessages, Drop, Offer, Send
<1>4. CASE Connected \/ UNCHANGED vars
  BY <1>4 DEF Connected, vars, Close
<1>5. QED BY <1>1, <1>2, <1>3, <1>4 DEF Next

\* m is in the inbox, or in a batch under way.
InBatch(m) == \E p \in Range(toPage) \cap Batches : m \in Range(p.msgs)

Stored(m) == m \in Range(inbox) \/ InBatch(m)

\* A message takes one way to the page: what is offered is never stored, and it
\* has not come before it is there. What is stored and has come is remembered,
\* unless its page was closed.
PathInv(m) ==
  /\ fate[m] \in {"unsent", "pushing"} => ~Come(m) /\ ~Due(m) /\ ~Stored(m)
  /\ Due(m) => ~Come(m) /\ ~Stored(m) /\ Once(toPage, About("message", m))
  /\ Stored(m) => fate[m] = "kept"
  /\ m \notin revisited /\ Stored(m) /\ Come(m) => m \in seen
  /\ m \notin revisited => OneCopy(m)

OnceInv ==
  /\ Distinct(inbox)
  /\ \A p \in Range(toPage) \cap Batches : Distinct(p.msgs)
  /\ \A m \in Msgs : PathInv(m)

\* What is stored was stored or is pushed now.
LEMMA StoredOrigins ==
  ASSUME TypeOK, [Next]_vars, NEW m \in Msgs, Stored(m)'
  PROVE  Stored(m) \/ Push(m)
<1>1. ServerOrigins /\ InboxOrigins
  BY Origins, DataOrigins
<1>2. CASE m \in Range(inbox')
  <2>1. ASSUME NEW n \in Msgs, Push(n)
        PROVE  Range(inbox') = Range(inbox) \cup {n}
    BY <2>1, RangeAppend DEF Push, TypeOK
  <2>2. QED BY <1>1, <1>2, <2>1, RangeEmpty DEF InboxOrigins, Stored
<1>3. CASE InBatch(m)'
  <2>1. PICK p \in Range(toPage') \cap Batches : m \in Range(p.msgs)
    BY <1>3 DEF InBatch
  <2>2. CASE p \in Range(toPage)
    BY <2>1, <2>2 DEF Stored, InBatch
  <2>3. CASE \E e \in 1..Effects : p = Batch(e, inbox)
    BY <2>1, <2>3 DEF Batch, Stored
  <2>4. QED BY <1>1, <2>1, <2>2, <2>3 DEF ServerOrigins
<1>4. QED BY <1>2, <1>3 DEF Stored

\* What is handed to the page was under way to it.
LEMMA ReceivingWhat ==
  ASSUME TypeOK, NEW m \in Msgs, Receiving(m)
  PROVE  \/ HandleMessageIncoming(m) /\ Due(m)
         \/ Stored(m) /\ m \notin seen /\ m \in seen'
<1>1. CASE HandleMessageIncoming(m)
  BY <1>1, ReachesPage DEF HandleMessageIncoming, Due
<1>2. ASSUME NEW p \in Range(toPage) \cap Batches, Heard(p),
             HandleInboxIncoming(p.of), m \in Range(p.msgs) \ seen
      PROVE  Stored(m) /\ m \notin seen /\ m \in seen'
  <2>1. p.of \in 1..Effects
    BY DEF Batches
  <2>2. PICK q : Heard(q) /\ seen' = seen \cup Range(q.msgs)
    BY <1>2, <2>1, HandlesBatch
  <2>3. q = p
    BY <1>2, <2>2 DEF Heard
  <2>4. QED BY <1>2, <2>2, <2>3 DEF Stored, InBatch
<1>3. QED BY <1>1, <1>2 DEF Receiving

LEMMA PathNext ==
  ASSUME TypeOK, PlaceInv, OnceInv, [Next]_vars, NEW m \in Msgs
  PROVE  PathInv(m)'
<1>1. PathInv(m) /\ \A p \in Range(toPage) \cap Batches : Distinct(p.msgs)
  BY DEF OnceInv
<1>2. PageOrigins /\ ServerOrigins /\ FateOrigins
  BY Origins, DataOrigins
<1>3. /\ Come(m)' => Come(m) \/ Receiving(m)
      /\ OneCopy(m) /\ (Receiving(m) => ~Come(m)) => OneCopy(m)'
  BY <1>1, Copies
<1>4. Stored(m)' => Stored(m) \/ Push(m)
  BY StoredOrigins
<1>5. Receiving(m) => \/ HandleMessageIncoming(m) /\ Due(m)
                      \/ Stored(m) /\ m \notin seen /\ m \in seen'
  BY ReceivingWhat
<1>6. /\ Push(m) => fate[m] = "pushing" /\ fate'[m] = "kept"
      /\ Offer(m) => /\ fate[m] = "unsent"
                     /\ \/ fate'[m] = "pushing" /\ toPage' = toPage
                        \/ /\ fate'[m] = "offered"
                           /\ toPage' = Append(toPage, About("message", m))
      /\ MessageTaken(m) => fate'[m] = IF fate[m] = "offered" THEN "kept" ELSE fate[m]
  BY DEF Push, Offer, MessageTaken, TypeOK
<1>7. /\ fate'[m] \in {"unsent", "pushing"} => fate[m] \in {"unsent", "pushing"}
      /\ fate[m] = "kept" => fate'[m] = "kept"
  BY <1>2, <1>6 DEF FateOrigins
<1>8. ASSUME fate'[m] \in {"unsent", "pushing"}
      PROVE  ~Come(m)' /\ ~Due(m)' /\ ~Stored(m)'
  <2>1. ~Come(m) /\ ~Due(m) /\ ~Stored(m)
    BY <1>1, <1>7, <1>8 DEF PathInv
  <2>2. ~Due(m)'
    BY <1>2, <1>6, <1>8, <2>1 DEF ServerOrigins, Due
  <2>3. QED BY <1>3, <1>4, <1>5, <1>6, <1>8, <2>1, <2>2
<1>9. ASSUME Due(m)'
      PROVE  ~Come(m)' /\ ~Stored(m)' /\ Once(toPage', About("message", m))
  <2>1. CASE Due(m)
    <3>1. /\ ~Come(m) /\ ~Stored(m) /\ Once(toPage, About("message", m))
          /\ fate[m] \notin {"unsent", "pushing"}
      BY <1>1, <2>1 DEF PathInv
    <3>2. ~HandleMessageIncoming(m)
      BY <1>9, <3>1, ReachesPage DEF HandleMessageIncoming, Due
    <3>3. QED BY <1>2, <1>3, <1>4, <1>5, <1>6, <3>1, <3>2 DEF ServerOrigins
  <2>2. CASE ~Due(m)
    <3>1. Offer(m)
      BY <1>2, <1>9, <2>2 DEF ServerOrigins
    <3>2. ~Come(m) /\ ~Stored(m)
      BY <1>1, <1>6, <3>1 DEF PathInv
    <3>3. toPage' = Append(toPage, About("message", m))
      BY <1>6, <1>9, <2>2, <3>1 DEF Due
    <3>4. Once(toPage', About("message", m))
      <4>1. About("message", m) \notin Range(toPage)
        BY <2>2 DEF Due
      <4>2. About("message", m) \in FromServer
        BY PacketTypes
      <4>3. QED BY <3>3, <4>1, <4>2, ServerEmits, OnceAbsent
    <3>5. QED BY <1>3, <1>4, <1>5, <1>6, <2>2, <3>1, <3>2, <3>4
  <2>3. QED BY <2>1, <2>2
<1>10. Stored(m)' => fate'[m] = "kept"
  BY <1>1, <1>4, <1>6, <1>7 DEF PathInv
<1>11. ASSUME m \notin revisited', Stored(m)', Come(m)'
       PROVE  m \in seen'
  <2>1. m \notin revisited
    BY <1>11, Revisits
  <2>2. Stored(m)
    BY <1>1, <1>3, <1>4, <1>5, <1>6, <1>11 DEF PathInv
  <2>3. CASE Receiving(m)
    BY <1>1, <1>5, <2>2, <2>3 DEF PathInv
  <2>4. CASE Come(m)
    <3>1. m \in seen
      BY <1>1, <2>1, <2>2, <2>4 DEF PathInv
    <3>2. ~Close
      <4>1. SUFFICES ASSUME Close
                     PROVE  FALSE
        OBVIOUS
      <4>2. toPage' = <<>> /\ inbox' = inbox
        BY <4>1 DEF Close
      <4>3. m \in Range(inbox)
        BY <1>11, <4>2, RangeEmpty DEF Stored, InBatch
      <4>4. QED BY <1>11, <4>1, <4>3, Revisits
    <3>3. \A e \in 1..Effects : HandleInboxIncoming(e) => seen \subseteq seen'
      BY HandlesBatch
    <3>4. QED BY <3>1, <3>2, <3>3, SeenOrigins
  <2>5. QED BY <1>3, <1>11, <2>3, <2>4
<1>12. ASSUME m \notin revisited'
       PROVE  OneCopy(m)'
  <2>1. m \notin revisited
    BY <1>12, Revisits
  <2>2. Receiving(m) => ~Come(m)
    BY <1>1, <1>5, <2>1 DEF PathInv
  <2>3. QED BY <1>1, <1>3, <2>1, <2>2 DEF PathInv
<1>13. QED BY <1>8, <1>9, <1>10, <1>11, <1>12 DEF PathInv

LEMMA OnceNext == TypeOK /\ PlaceInv /\ OnceInv /\ [Next]_vars => OnceInv'
<1> SUFFICES ASSUME TypeOK, PlaceInv, OnceInv, [Next]_vars
             PROVE  OnceInv'
  OBVIOUS
<1>1. ServerOrigins /\ InboxOrigins
  BY Origins, DataOrigins
<1>2. Distinct(inbox')
  <2>1. ASSUME NEW m \in Msgs, Push(m)
        PROVE  Distinct(inbox')
    <3>1. fate[m] = "pushing" /\ inbox' = Append(inbox, m) /\ inbox \in Seq(Msgs)
      BY <2>1 DEF Push, TypeOK
    <3>2. m \notin Range(inbox) /\ Distinct(inbox)
      BY <3>1 DEF OnceInv, PathInv, Stored
    <3>3. QED BY <3>1, <3>2, JoinQueue
  <2>2. QED BY <1>1, <2>1, EmptyQueue DEF InboxOrigins, OnceInv
<1>3. ASSUME NEW p \in Range(toPage') \cap Batches
      PROVE  Distinct(p.msgs)
  <2>1. \A e : Batch(e, inbox).msgs = inbox
    BY DEF Batch
  <2>2. QED BY <1>1, <2>1 DEF ServerOrigins, OnceInv
<1>4. \A m \in Msgs : PathInv(m)'
  BY PathNext
<1>5. QED BY <1>2, <1>3, <1>4 DEF OnceInv

\* No message is shown twice, whatever is delivered again or out of turn (StrictMode
\* drains the inbox twice at once, useChat.ts:394-409), unless its page was closed
\* with the message still in the inbox.
THEOREM ShownOnceCorrect == Spec => []ShownOnce
<1>1. Init => OnceInv
  <2> SUFFICES ASSUME Init
               PROVE  OnceInv
    OBVIOUS
  <2>1. /\ inbox = <<>> /\ toPage = <<>> /\ fetching = <<>> /\ ready = <<>>
        /\ \A m \in Msgs : fate[m] = "unsent" /\ shown[m] = 0
    BY DEF Init
  <2>2. \A m \in Msgs : /\ ~Waits(m) /\ ~Due(m) /\ ~Stored(m)
                        /\ Once(fetching, m) /\ Once(ready, m)
    BY <2>1, RangeEmpty, OnceAbsent DEF Waits, Due, Stored, InBatch
  <2>3. Distinct(inbox) /\ \A p \in Range(toPage) \cap Batches : Distinct(p.msgs)
    BY <2>1, EmptyQueue
  <2>4. \A m \in Msgs : ~Come(m) /\ OneCopy(m)
    BY <2>1, <2>2, RangeEmpty DEF Come, OneCopy
  <2>5. QED BY <2>2, <2>3, <2>4 DEF OnceInv, PathInv
<1>2. TypeOK /\ OnceInv => ShownOnce
  <2> SUFFICES ASSUME TypeOK, OnceInv, NEW m \in Msgs, shown[m] > 1, m \notin revisited
               PROVE  FALSE
    BY DEF ShownOnce
  <2>1. shown[m] <= 1 /\ shown[m] \in Nat
    BY DEF OnceInv, PathInv, OneCopy, TypeOK
  <2>2. QED BY <2>1
<1>3. QED BY <1>1, <1>2, PlaceInvariant, OnceNext, PTL DEF Spec
=============================================================================
