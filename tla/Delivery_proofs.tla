-------------------------- MODULE Delivery_proofs --------------------------
(***************************************************************************)
(* Theorems about Delivery, for every number of messages, connections,     *)
(* drains and crashes: its type invariant, that an acknowledged message is *)
(* kept unless its push overlaps a drain, and, for pages that answer "ok",  *)
(* that a message takes one path and that the inbox keeps its order; and   *)
(* that Delivery implements Mailbox.                                       *)
(***************************************************************************)
EXTENDS Delivery, Queue_proofs

-----------------------------------------------------------------------------
(* Type correctness.                                                        *)

\* Changing one field of a run leaves a run.
LEMMA RunFields ==
  ASSUME NEW run \in DrainRun
  PROVE  /\ \A p \in DrainStates : [run EXCEPT !.pc = p] \in DrainRun
         /\ \A q \in PacketStates : [run EXCEPT !.packet = q] \in DrainRun
         /\ \A p \in DrainStates, q \in PacketStates :
              [run EXCEPT !.pc = p, !.packet = q] \in DrainRun
         /\ \A p \in DrainStates, c \in Conns :
              [run EXCEPT !.pc = p, !.conn = c] \in DrainRun
         /\ \A p \in DrainStates, b \in Seq(Msgs) :
              [run EXCEPT !.pc = p, !.batch = b] \in DrainRun
BY DEF DrainRun

\* The initial state is type correct.
LEMMA TypeInit == Init => TypeOK
<1> SUFFICES ASSUME Init PROVE TypeOK
  OBVIOUS
<1>1. NoDrain \in DrainRun
  BY EmptySeq DEF NoDrain, DrainRun, DrainStates, PacketStates
<1>2. QED BY <1>1, EmptySeq, MaxCrashesAssumption DEF Init, TypeOK, PacketStates

\* AskTtl keeps the types of the two variables it changes.
LEMMA TypeAskTtl ==
  ASSUME TypeOK, NEW m \in Msgs, AskTtl(m)
  PROVE  /\ pc' \in [Msgs -> {"unsent"} \cup InProgress \cup Settled]
         /\ replies' \in Seq(Msgs \cup Drains)
<1>1. pc' \in [Msgs -> {"unsent"} \cup InProgress \cup Settled]
  BY DEF TypeOK, AskTtl, InProgress, Settled
<1>2. Append(replies, m) \in Seq(Msgs \cup Drains)
  BY AppendProperties DEF TypeOK
<1>3. replies' \in Seq(Msgs \cup Drains)
  BY <1>2 DEF TypeOK, AskTtl
<1>4. QED BY <1>1, <1>3

\* The recipient's steps keep the types.
LEMMA TypeClient == TypeOK /\ ClientStep => TypeOK'
<1> SUFFICES ASSUME TypeOK, ClientStep PROVE TypeOK'
  OBVIOUS
<1>1. ASSUME NEW c \in Conns, NEW a \in BOOLEAN, Connect(c, a) PROVE TypeOK'
  BY <1>1 DEF TypeOK, Connect, historyVars
<1>2. ASSUME NEW c \in Conns, Disconnect(c) PROVE TypeOK'
  BY <1>2 DEF TypeOK, Disconnect, historyVars
<1>3. ASSUME NEW c \in Conns, NEW d \in Drains, Mount(c, d) PROVE TypeOK'
  <2>1. drain' \in [Drains -> DrainRun]
    BY <1>3, RunFields DEF TypeOK, Mount, DrainStates
  <2>2. QED BY <1>3, <2>1 DEF TypeOK, Mount, historyVars
<1>4. ASSUME NEW c \in Conns, Unmount(c) PROVE TypeOK'
  BY <1>4 DEF TypeOK, Unmount, historyVars
<1>5. ASSUME NEW c \in Conns, NEW m \in Msgs, NEW s \in AckStatuses,
             TakeMessage(m, c, s)
      PROVE  TypeOK'
  BY <1>5, AckStatusAssumption DEF TypeOK, TakeMessage, clientVars,
     PacketStates
<1>6. ASSUME NEW d \in Drains, NEW s \in AckStatuses, TakeBatch(d, s) PROVE TypeOK'
  <2>1. Range(drain[d].batch) \subseteq Msgs
    <3>1. drain[d].batch \in Seq(Msgs)
      BY DEF TypeOK, DrainRun
    <3>2. QED BY <3>1, RangeSubset
  <2>2. received' \subseteq Msgs
    BY <1>6, <2>1 DEF TypeOK, TakeBatch
  <2>3. drain' \in [Drains -> DrainRun]
    BY <1>6, RunFields, AckStatusAssumption DEF TypeOK, TakeBatch, PacketStates
  <2>4. QED BY <1>6, <2>2, <2>3 DEF TypeOK, TakeBatch, clientVars
<1>7. QED BY <1>1, <1>2, <1>3, <1>4, <1>5, <1>6 DEF ClientStep

\* The steps of message handlers keep the types.
LEMMA TypeSend == TypeOK /\ SendStep => TypeOK'
<1> SUFFICES ASSUME TypeOK, NEW m \in Msgs,
                    \/ SendToRoom(m)
                    \/ SendToEmptyRoom(m)
                    \/ \E c \in Conns : AckArrives(m, c)
                    \/ AckTimeout(m)
                    \/ Push(m)
                    \/ AckSender(m)
             PROVE  TypeOK'
  BY DEF SendStep
<1>1. CASE SendToRoom(m)
  BY <1>1 DEF TypeOK, SendToRoom, historyVars, clientVars, InProgress, PacketStates
<1>2. CASE SendToEmptyRoom(m)
  BY <1>2, TypeAskTtl DEF TypeOK, SendToEmptyRoom, historyVars, clientVars
<1>3. ASSUME NEW c \in Conns, AckArrives(m, c) PROVE TypeOK'
  <2>1. /\ flight' \in [Msgs -> [Conns -> PacketStates]]
        /\ first' \in [Msgs -> {"none", "ok", "error"}]
    BY <1>3, AckStatusAssumption DEF TypeOK, AckArrives, PacketStates
  <2>2. /\ pc' \in [Msgs -> {"unsent"} \cup InProgress \cup Settled]
        /\ replies' \in Seq(Msgs \cup Drains)
    BY <1>3, TypeAskTtl DEF TypeOK, AckArrives, InProgress, Settled
  <2>3. QED BY <1>3, <2>1, <2>2 DEF TypeOK, AckArrives, historyVars, clientVars
<1>4. CASE AckTimeout(m)
  BY <1>4 DEF TypeOK, AckTimeout, historyVars, clientVars, Settled
<1>5. CASE Push(m)
  <2>1. /\ replies' \in Seq(Msgs \cup Drains)
        /\ inbox' \in Seq(Msgs)
    BY <1>5, AppendProperties, HeadTailProperties DEF TypeOK, Push
  <2>2. QED BY <1>5, <2>1 DEF TypeOK, Push, clientVars, InProgress
<1>6. CASE AckSender(m)
  <2>1. replies' \in Seq(Msgs \cup Drains)
    BY <1>6, HeadTailProperties DEF TypeOK, AckSender
  <2>2. QED BY <1>6, <2>1 DEF TypeOK, AckSender, historyVars, clientVars, Settled
<1>7. QED BY <1>1, <1>2, <1>3, <1>4, <1>5, <1>6

\* The steps of drains keep the types.
LEMMA TypeDrain == TypeOK /\ DrainStep => TypeOK'
<1> SUFFICES ASSUME TypeOK, NEW d \in Drains,
                    \/ StartDrain(d) \/ EmitBatch(d) \/ DrainAckArrives(d)
                    \/ DrainTimeout(d) \/ DrainReturns(d)
             PROVE  TypeOK'
  BY DEF DrainStep
<1>1. CASE StartDrain(d)
  <2>1. replies' \in Seq(Msgs \cup Drains)
    BY <1>1, AppendProperties DEF TypeOK, StartDrain
  <2>2. drain' \in [Drains -> DrainRun]
    BY <1>1, RunFields DEF TypeOK, StartDrain, DrainStates
  <2>3. QED BY <1>1, <2>1, <2>2 DEF TypeOK, StartDrain, historyVars, clientVars
<1>2. CASE EmitBatch(d)
  <2>1. replies' \in Seq(Msgs \cup Drains)
    BY <1>2, HeadTailProperties DEF TypeOK, EmitBatch
  <2>2. drain' \in [Drains -> DrainRun]
    <3>1. /\ [drain[d] EXCEPT !.pc = "done"] \in DrainRun
          /\ [drain[d] EXCEPT !.pc = "waiting", !.packet = "sent"] \in DrainRun
      BY RunFields DEF TypeOK, DrainStates, PacketStates
    <3>2. \/ drain' = [drain EXCEPT ![d] = [drain[d] EXCEPT !.pc = "done"]]
          \/ drain' = [drain EXCEPT ![d] =
                         [drain[d] EXCEPT !.pc = "waiting", !.packet = "sent"]]
      BY <1>2 DEF EmitBatch, TypeOK, DrainRun
    <3>3. QED BY <3>1, <3>2 DEF TypeOK
  <2>3. QED BY <1>2, <2>1, <2>2 DEF TypeOK, EmitBatch, historyVars, clientVars
<1>3. CASE DrainAckArrives(d)
  <2>1. Append(replies, d) \in Seq(Msgs \cup Drains) /\ <<>> \in Seq(Msgs)
    BY AppendProperties, EmptySeq DEF TypeOK
  <2>2. replies' \in Seq(Msgs \cup Drains) /\ inbox' \in Seq(Msgs)
    BY <1>3, <2>1 DEF TypeOK, DrainAckArrives
  <2>3. drain' \in [Drains -> DrainRun]
    <3>1. \A p \in {"del", "done"} :
            [drain[d] EXCEPT !.pc = p, !.packet = "answered"] \in DrainRun
      BY RunFields DEF TypeOK, DrainStates, PacketStates
    <3>2. \E p \in {"del", "done"} :
            drain' = [drain EXCEPT ![d] =
                        [drain[d] EXCEPT !.pc = p, !.packet = "answered"]]
      BY <1>3 DEF DrainAckArrives, TypeOK, DrainRun
    <3>3. QED BY <3>1, <3>2 DEF TypeOK
  <2>4. QED
    BY <1>3, <2>2, <2>3 DEF TypeOK, DrainAckArrives, historyVars, clientVars
<1>4. CASE DrainTimeout(d)
  <2>1. drain' \in [Drains -> DrainRun]
    BY <1>4, RunFields DEF TypeOK, DrainTimeout, DrainStates
  <2>2. QED BY <1>4, <2>1 DEF TypeOK, DrainTimeout, historyVars, clientVars
<1>5. CASE DrainReturns(d)
  <2>1. replies' \in Seq(Msgs \cup Drains)
    BY <1>5, HeadTailProperties DEF TypeOK, DrainReturns
  <2>2. drain' \in [Drains -> DrainRun]
    BY <1>5, RunFields DEF TypeOK, DrainReturns, DrainStates
  <2>3. QED BY <1>5, <2>1, <2>2 DEF TypeOK, DrainReturns, historyVars, clientVars
<1>6. QED BY <1>1, <1>2, <1>3, <1>4, <1>5

\* Expiry and crashes keep the types.
LEMMA TypeEnvironment == TypeOK /\ EnvironmentStep => TypeOK'
<1> SUFFICES ASSUME TypeOK, EnvironmentStep PROVE TypeOK'
  OBVIOUS
<1>1. CASE AccountEnds
  BY <1>1 DEF TypeOK, AccountEnds, historyVars, clientVars
<1>2. CASE InboxExpires
  BY <1>2, EmptySeq DEF TypeOK, InboxExpires, historyVars, clientVars
<1>3. CASE Crash
  <2>1. replies' \in Seq(Msgs \cup Drains)
    BY <1>3, EmptySeq DEF Crash
  <2>2. crashes' \in 0..MaxCrashes
    BY <1>3, MaxCrashesAssumption DEF TypeOK, Crash
  <2>3. pc' \in [Msgs -> {"unsent"} \cup InProgress \cup Settled]
    BY <1>3 DEF TypeOK, Crash, Settled
  <2>4. drain' \in [Drains -> DrainRun]
    BY <1>3, RunFields DEF TypeOK, Crash, DrainStates
  <2>5. conn' \in [Conns -> {"new", "up", "down"}]
    BY <1>3 DEF TypeOK, Crash
  <2>6. QED BY <1>3, <2>1, <2>2, <2>3, <2>4, <2>5 DEF TypeOK, Crash, historyVars
<1>4. QED BY <1>1, <1>2, <1>3 DEF EnvironmentStep

\* Every step keeps the types.
LEMMA TypeNext == TypeOK /\ [Next]_vars => TypeOK'
<1> SUFFICES ASSUME TypeOK, [Next]_vars PROVE TypeOK'
  OBVIOUS
<1>1. CASE UNCHANGED vars
  BY <1>1 DEF TypeOK, vars
<1>2. QED
  BY <1>1, TypeClient, TypeSend, TypeDrain, TypeEnvironment DEF Next

\* Delivery is type correct: every variable keeps its type whatever the
\* recipient, the network, Redis and the process do.
THEOREM TypeCorrect == Spec => []TypeOK
<1>1. QED BY TypeInit, TypeNext, PTL DEF Spec

-----------------------------------------------------------------------------
(* An acknowledged message is kept.  AckedIsKept alone is not inductive: a   *)
(* drain's DEL keeps it only because what the drain's socket acknowledged    *)
(* was taken by the page, and because everything that has entered the inbox  *)
(* since the drain's LRANGE is known to have overtaken it.                   *)

Kept(m) == m \in received \cup Range(inbox) \cup overtaken

\* A page that answered "ok" has taken the message, and so has the page whose
\* answer was the first.
OkMeansTaken ==
  /\ \A m \in Msgs, c \in Conns : flight[m][c] = "ok" => m \in received
  /\ \A m \in Msgs : first[m] = "ok" => m \in received

\* A page that answered "ok" to a batch has taken all of it; there is no answer
\* before there is a batch.
OkMeansBatchTaken ==
  \A d \in Drains :
    /\ drain[d].packet = "ok" => Range(drain[d].batch) \subseteq received
    /\ drain[d].pc \in {"idle", "requested", "range"} => drain[d].packet = "none"

\* What is in the inbox during a drain was read by it or has overtaken it.
DrainsCover ==
  \A d \in ActiveDrains : Range(inbox) \subseteq Range(drain[d].batch) \cup overtaken

\* A message whose push has been issued is kept while the account lives.
PushedIsKept ==
  account = "live" => \A m \in Msgs : pc[m] \in {"push", "acked"} => Kept(m)

\* What is in the inbox was pushed by a handler that went on to acknowledge it,
\* or that died with the process.
StoredIsAccepted ==
  \A m \in Range(inbox) : pc[m] \in {"push", "acked", "lost"}

KeepInv == /\ OkMeansTaken
           /\ OkMeansBatchTaken
           /\ DrainsCover
           /\ PushedIsKept
           /\ StoredIsAccepted

\* The invariant holds initially.
LEMMA KeepInit == Init => KeepInv
BY RangeEmpty DEF Init, KeepInv, OkMeansTaken, OkMeansBatchTaken, DrainsCover,
  PushedIsKept, StoredIsAccepted, ActiveDrains, NoDrain

\* The parts that speak of the recipient's answers, the drains and the inbox
\* depend on nothing else.
LEMMA KeepFrame ==
  ASSUME KeepInv, UNCHANGED <<flight, first, inbox, drain, received, overtaken>>,
         account' = "live" => account = "live",
         \A m \in Msgs : pc'[m] \in {"push", "acked"} =>
                           pc[m] \in {"push", "acked"} \/ m \in received,
         \A m \in Range(inbox) : pc'[m] \in {"push", "acked", "lost"}
  PROVE  KeepInv'
BY DEF KeepInv, OkMeansTaken, OkMeansBatchTaken, DrainsCover, PushedIsKept,
  StoredIsAccepted, ActiveDrains, Kept

\* The recipient's steps preserve it.
LEMMA KeepClient == TypeOK /\ KeepInv /\ ClientStep => KeepInv'
<1> SUFFICES ASSUME TypeOK, KeepInv, ClientStep PROVE KeepInv'
  OBVIOUS
<1>1. ASSUME NEW c \in Conns, NEW a \in BOOLEAN, Connect(c, a) PROVE KeepInv'
  BY <1>1, KeepFrame DEF Connect, historyVars, KeepInv, StoredIsAccepted
<1>2. ASSUME NEW c \in Conns, Disconnect(c) PROVE KeepInv'
  BY <1>2, KeepFrame DEF Disconnect, historyVars, KeepInv, StoredIsAccepted
<1>3. ASSUME NEW c \in Conns, NEW d \in Drains, Mount(c, d) PROVE KeepInv'
  BY <1>3 DEF Mount, historyVars, KeepInv, OkMeansTaken, OkMeansBatchTaken,
    DrainsCover, PushedIsKept, StoredIsAccepted, ActiveDrains, Kept, TypeOK, DrainRun
<1>4. ASSUME NEW c \in Conns, Unmount(c) PROVE KeepInv'
  BY <1>4, KeepFrame DEF Unmount, historyVars, KeepInv, StoredIsAccepted
<1>5. ASSUME NEW c \in Conns, NEW m \in Msgs, NEW s \in AckStatuses,
             TakeMessage(m, c, s)
      PROVE  KeepInv'
  BY <1>5 DEF TakeMessage, clientVars, KeepInv, OkMeansTaken, OkMeansBatchTaken,
    DrainsCover, PushedIsKept, StoredIsAccepted, ActiveDrains, Kept, TypeOK
<1>6. ASSUME NEW d \in Drains, NEW s \in AckStatuses, TakeBatch(d, s) PROVE KeepInv'
  BY <1>6 DEF TakeBatch, clientVars, KeepInv, OkMeansTaken, OkMeansBatchTaken,
    DrainsCover, PushedIsKept, StoredIsAccepted, ActiveDrains, Kept, TypeOK, DrainRun
<1>7. QED BY <1>1, <1>2, <1>3, <1>4, <1>5, <1>6 DEF ClientStep

\* The steps of message handlers preserve it.
LEMMA KeepSend == TypeOK /\ KeepInv /\ SendStep => KeepInv'
<1> SUFFICES ASSUME TypeOK, KeepInv, NEW m \in Msgs,
                    \/ SendToRoom(m)
                    \/ SendToEmptyRoom(m)
                    \/ \E c \in Conns : AckArrives(m, c)
                    \/ AckTimeout(m)
                    \/ Push(m)
                    \/ AckSender(m)
             PROVE  KeepInv'
  BY DEF SendStep
<1>0. Range(inbox) \subseteq Msgs
  BY RangeSubset DEF TypeOK
<1>1. CASE SendToRoom(m)
  BY <1>0, <1>1 DEF SendToRoom, Starts, historyVars, KeepInv, OkMeansTaken,
    OkMeansBatchTaken, DrainsCover, PushedIsKept, StoredIsAccepted, ActiveDrains,
    Kept, TypeOK
<1>2. CASE SendToEmptyRoom(m)
  BY <1>0, <1>2, KeepFrame DEF SendToEmptyRoom, Starts, AskTtl, historyVars,
    KeepInv, StoredIsAccepted, TypeOK
<1>3. ASSUME NEW c \in Conns, AckArrives(m, c) PROVE KeepInv'
  BY <1>0, <1>3 DEF AckArrives, AskTtl, historyVars, KeepInv, OkMeansTaken,
    OkMeansBatchTaken, DrainsCover, PushedIsKept, StoredIsAccepted, ActiveDrains,
    Kept, TypeOK
<1>4. CASE AckTimeout(m)
  BY <1>0, <1>4, KeepFrame DEF AckTimeout, historyVars, KeepInv, StoredIsAccepted,
    TypeOK
<1>5. CASE Push(m)
  <2>1. Range(inbox') = Range(inbox) \cup {m}
    BY <1>5, RangeAppend DEF Push, TypeOK
  <2>2. QED
    BY <1>0, <1>5, <2>1 DEF Push, KeepInv, OkMeansTaken, OkMeansBatchTaken,
      DrainsCover, PushedIsKept, StoredIsAccepted, ActiveDrains, Kept, TypeOK
<1>6. CASE AckSender(m)
  BY <1>0, <1>6, KeepFrame DEF AckSender, historyVars, KeepInv, StoredIsAccepted,
    TypeOK
<1>7. QED BY <1>1, <1>2, <1>3, <1>4, <1>5, <1>6

\* The steps of drains preserve it.
LEMMA KeepDrain == TypeOK /\ KeepInv /\ DrainStep => KeepInv'
<1> SUFFICES ASSUME TypeOK, KeepInv, NEW d \in Drains,
                    \/ StartDrain(d) \/ EmitBatch(d) \/ DrainAckArrives(d)
                    \/ DrainTimeout(d) \/ DrainReturns(d)
             PROVE  KeepInv'
  BY DEF DrainStep
<1>0. Range(inbox) \subseteq Msgs
  BY RangeSubset DEF TypeOK
<1> USE DEF KeepInv, OkMeansTaken, OkMeansBatchTaken, DrainsCover, PushedIsKept,
      StoredIsAccepted, ActiveDrains, Kept, TypeOK, DrainRun, historyVars, clientVars
<1>1. CASE StartDrain(d)
  BY <1>0, <1>1 DEF StartDrain
<1>2. CASE EmitBatch(d)
  <2>1. /\ \A e \in Drains : drain'[e].batch = drain[e].batch
        /\ \A e \in Drains \ {d} : drain'[e] = drain[e]
        /\ drain[d].pc = "range" /\ drain[d].packet = "none"
        /\ \/ drain'[d].pc = "done" /\ drain'[d].packet = "none"
           \/ drain'[d].pc = "waiting" /\ drain'[d].packet = "sent"
    <3>1. drain[d].pc = "range" /\ drain[d].packet = "none"
      BY <1>2 DEF EmitBatch
    <3>2. \/ drain' = [drain EXCEPT ![d] = [drain[d] EXCEPT !.pc = "done"]]
          \/ drain' = [drain EXCEPT ![d] =
                         [drain[d] EXCEPT !.pc = "waiting", !.packet = "sent"]]
      BY <1>2 DEF EmitBatch
    <3>3. CASE drain' = [drain EXCEPT ![d] = [drain[d] EXCEPT !.pc = "done"]]
      BY <3>1, <3>3
    <3>4. CASE drain' = [drain EXCEPT ![d] =
                         [drain[d] EXCEPT !.pc = "waiting", !.packet = "sent"]]
      BY <3>1, <3>4
    <3>5. QED BY <3>2, <3>3, <3>4
  <2>2. UNCHANGED <<account, pc, flight, first, inbox, received, overtaken>>
    BY <1>2 DEF EmitBatch
  <2>3. OkMeansTaken' /\ PushedIsKept' /\ StoredIsAccepted'
    BY <1>0, <2>2
  <2>4. OkMeansBatchTaken'
    <3>1. ASSUME NEW e \in Drains \ {d}
          PROVE  /\ drain'[e].packet = "ok" => Range(drain'[e].batch) \subseteq received'
                 /\ drain'[e].pc \in {"idle", "requested", "range"}
                      => drain'[e].packet = "none"
      BY <2>1, <2>2
    <3>2. /\ drain'[d].packet # "ok"
          /\ drain'[d].pc \notin {"idle", "requested", "range"}
      BY <2>1
    <3>3. QED BY <3>1, <3>2
  <2>5. DrainsCover'
    <3>1. ActiveDrains' \subseteq ActiveDrains
      BY <2>1
    <3>2. \A e \in ActiveDrains' :
            Range(inbox) \subseteq Range(drain'[e].batch) \cup overtaken
      BY <2>1, <3>1
    <3>3. QED BY <2>2, <3>2
  <2>6. QED BY <2>3, <2>4, <2>5
<1>3. CASE DrainAckArrives(d)
  <2>1. /\ \A e \in Drains : drain'[e].batch = drain[e].batch
        /\ \A e \in Drains \ {d} : drain'[e] = drain[e]
        /\ drain'[d].pc \in {"del", "done"} /\ drain'[d].packet = "answered"
    <3>1. \E p \in {"del", "done"} :
            drain' = [drain EXCEPT ![d] =
                        [drain[d] EXCEPT !.pc = p, !.packet = "answered"]]
      BY <1>3 DEF DrainAckArrives
    <3>2. QED BY <3>1
  <2>2. UNCHANGED <<account, pc, flight, first, received, overtaken>>
    BY <1>3 DEF DrainAckArrives
  <2>3. inbox' = inbox \/ Range(inbox') = {}
    BY <1>3, RangeEmpty DEF DrainAckArrives
  \* What DEL removes was in the batch, hence taken, or has overtaken it.
  <2>4. \A m \in Range(inbox) : m \in Range(inbox') \cup received \cup overtaken
    <3>1. CASE drain[d].packet = "ok"
      <4>1. Range(inbox) \subseteq Range(drain[d].batch) \cup overtaken
        BY <1>3 DEF DrainAckArrives
      <4>2. Range(drain[d].batch) \subseteq received
        BY <3>1
      <4>3. QED BY <4>1, <4>2
    <3>2. CASE drain[d].packet # "ok"
      BY <1>3, <3>2 DEF DrainAckArrives
    <3>3. QED BY <3>1, <3>2
  <2>5. Range(inbox') \subseteq Range(inbox)
    BY <2>3
  <2>6. OkMeansTaken'
    BY <2>2
  <2>7. OkMeansBatchTaken'
    BY <2>1, <2>2
  <2>8. DrainsCover'
    BY <2>1, <2>2, <2>5
  <2>9. PushedIsKept' /\ StoredIsAccepted'
    BY <2>2, <2>4, <2>5
  <2>10. QED BY <2>6, <2>7, <2>8, <2>9
<1>4. CASE DrainTimeout(d)
  BY <1>0, <1>4 DEF DrainTimeout
<1>5. CASE DrainReturns(d)
  BY <1>0, <1>5 DEF DrainReturns
<1>6. QED BY <1>1, <1>2, <1>3, <1>4, <1>5

\* Expiry and crashes preserve it.
LEMMA KeepEnvironment == TypeOK /\ KeepInv /\ EnvironmentStep => KeepInv'
<1> SUFFICES ASSUME TypeOK, KeepInv, EnvironmentStep PROVE KeepInv'
  OBVIOUS
<1>1. CASE AccountEnds
  BY <1>1, KeepFrame DEF AccountEnds, historyVars, KeepInv, StoredIsAccepted
<1>2. CASE InboxExpires
  BY <1>2, RangeEmpty DEF InboxExpires, historyVars, KeepInv, OkMeansTaken,
    OkMeansBatchTaken, DrainsCover, PushedIsKept, StoredIsAccepted, ActiveDrains
<1>3. CASE Crash
  BY <1>3, RangeSubset DEF Crash, historyVars, KeepInv, OkMeansTaken,
    OkMeansBatchTaken, DrainsCover, PushedIsKept, StoredIsAccepted, ActiveDrains,
    Kept, TypeOK, DrainRun, InProgress
<1>4. QED BY <1>1, <1>2, <1>3 DEF EnvironmentStep

\* Every step preserves it.
LEMMA KeepNext == TypeOK /\ KeepInv /\ [Next]_vars => KeepInv'
<1> SUFFICES ASSUME TypeOK, KeepInv, [Next]_vars PROVE KeepInv'
  OBVIOUS
<1>1. CASE UNCHANGED vars
  BY <1>1, KeepFrame DEF vars, KeepInv, StoredIsAccepted
<1>2. QED
  BY <1>1, KeepClient, KeepSend, KeepDrain, KeepEnvironment DEF Next

\* The inductive invariant holds in every reachable state.
THEOREM KeepInvariant == Spec => []KeepInv
<1>1. QED BY KeepInit, KeepNext, TypeCorrect, PTL DEF Spec

\* An acknowledged message is taken by the recipient's page, or in the inbox,
\* or was pushed while a drain stood between its LRANGE and its end, as long as
\* the recipient's account lives.
THEOREM AckedIsKeptCorrect == Spec => []AckedIsKept
<1>1. KeepInv => AckedIsKept
  BY DEF KeepInv, PushedIsKept, Kept, AckedIsKept
<1>2. QED BY <1>1, KeepInvariant, PTL

\* A message whose sender was told of an error is not in the inbox.
THEOREM FailedIsNotQueuedCorrect == Spec => []FailedIsNotQueued
<1>1. KeepInv => FailedIsNotQueued
  BY DEF KeepInv, StoredIsAccepted, FailedIsNotQueued
<1>2. QED BY <1>1, KeepInvariant, PTL

-----------------------------------------------------------------------------
(* What holds when the recipient's pages answer "ok", as useChat.ts does: a  *)
(* message takes one path only, and the inbox keeps the order of sending.    *)
(* First, one path.                                                          *)

\* No page has answered "error".
NoErrors ==
  /\ \A m \in Msgs, c \in Conns : flight[m][c] # "error"
  /\ \A m \in Msgs : first[m] # "error"

\* A handler that has not started, or that goes by way of the inbox, has made
\* no offer; nor has one whose message is stored.
Unoffered ==
  \A m \in Msgs : pc[m] \in {"unsent", "ttl", "push"} \/ m \in Range(inbox)
                    => \A c \in Conns : flight[m][c] = "none"

PathInv == NoErrors /\ Unoffered

\* It holds initially.
LEMMA PathInit == Init => PathInv
BY DEF Init, PathInv, NoErrors, Unoffered

\* It depends on what the handlers, the offers and the inbox are.
LEMMA PathFrame ==
  ASSUME PathInv, UNCHANGED <<flight, first>>,
         \A m \in Msgs : pc'[m] \in {"unsent", "ttl", "push"} =>
                           pc[m] \in {"unsent", "ttl", "push"},
         Range(inbox') \cap Msgs \subseteq
           Range(inbox) \cup {m \in Msgs : pc[m] \in {"unsent", "ttl", "push"}}
  PROVE  PathInv'
BY DEF PathInv, NoErrors, Unoffered

\* The recipient's steps preserve it.
LEMMA PathClient ==
  ASSUME AckStatuses = {"ok"}, TypeOK, PathInv, ClientStep
  PROVE  PathInv'
<1>1. ASSUME NEW c \in Conns, NEW m \in Msgs, NEW s \in AckStatuses,
             TakeMessage(m, c, s)
      PROVE  PathInv'
  BY <1>1 DEF TakeMessage, TypeOK, PathInv, NoErrors, Unoffered
<1>2. CASE \E c \in Conns : \/ \E attached \in BOOLEAN : Connect(c, attached)
                            \/ Disconnect(c)
                            \/ \E d \in Drains : Mount(c, d)
                            \/ Unmount(c)
  BY <1>2, PathFrame DEF Connect, Disconnect, Mount, Unmount
<1>3. CASE \E d \in Drains, s \in AckStatuses : TakeBatch(d, s)
  BY <1>3, PathFrame DEF TakeBatch
<1>4. QED BY <1>1, <1>2, <1>3 DEF ClientStep

\* The steps of message handlers preserve it.
LEMMA PathSend ==
  ASSUME AckStatuses = {"ok"}, TypeOK, KeepInv, PathInv, SendStep
  PROVE  PathInv'
<1> SUFFICES ASSUME NEW m \in Msgs,
                    \/ SendToRoom(m)
                    \/ SendToEmptyRoom(m)
                    \/ \E c \in Conns : AckArrives(m, c)
                    \/ AckTimeout(m)
                    \/ Push(m)
                    \/ AckSender(m)
             PROVE  PathInv'
  BY DEF SendStep
<1>1. CASE SendToRoom(m)
  <2>1. m \notin Range(inbox)
    BY <1>1 DEF SendToRoom, Starts, KeepInv, StoredIsAccepted
  <2>2. QED BY <1>1, <2>1 DEF SendToRoom, TypeOK, PathInv, NoErrors, Unoffered
<1>2. CASE SendToEmptyRoom(m)
  <2>1. /\ pc[m] = "unsent"
        /\ UNCHANGED <<flight, first, inbox>>
        /\ \A k \in Msgs \ {m} : pc'[k] = pc[k]
    BY <1>2 DEF SendToEmptyRoom, Starts, AskTtl, TypeOK
  <2>2. QED BY <2>1, PathFrame
<1>3. ASSUME NEW c \in Conns, AckArrives(m, c) PROVE PathInv'
  <2>1. flight[m][c] = "ok" /\ pc[m] = "waiting"
    BY <1>3 DEF AckArrives
  <2>2. m \notin Range(inbox)
    BY <2>1 DEF PathInv, Unoffered
  \* The first answer was "ok": the handler does not turn to the inbox.
  <2>3. /\ first' = [first EXCEPT ![m] = "ok"]
        /\ \A k \in Msgs \ {m} : pc'[k] = pc[k]
        /\ pc'[m] \in {"waiting", "acked"}
    BY <1>3, <2>1 DEF AckArrives, PathInv, NoErrors, TypeOK
  <2>4. flight' = [flight EXCEPT ![m][c] = "answered"] /\ UNCHANGED inbox
    BY <1>3 DEF AckArrives
  <2>5. NoErrors'
    BY <2>3, <2>4 DEF PathInv, NoErrors, TypeOK
  <2>6. Unoffered'
    BY <2>2, <2>3, <2>4 DEF PathInv, Unoffered, TypeOK
  <2>7. QED BY <2>5, <2>6 DEF PathInv
<1>4. CASE AckTimeout(m)
  BY <1>4, PathFrame DEF AckTimeout, TypeOK
<1>5. CASE Push(m)
  <2>1. Range(inbox') = Range(inbox) \cup {m}
    BY <1>5, RangeAppend DEF Push, TypeOK
  <2>2. QED BY <1>5, <2>1, PathFrame DEF Push, TypeOK
<1>6. CASE AckSender(m)
  BY <1>6, PathFrame DEF AckSender, TypeOK
<1>7. QED BY <1>1, <1>2, <1>3, <1>4, <1>5, <1>6

\* Drains, expiry and crashes preserve it.
LEMMA PathOther ==
  ASSUME TypeOK, PathInv, DrainStep \/ EnvironmentStep
  PROVE  PathInv'
<1>1. ASSUME NEW d \in Drains, StartDrain(d) \/ EmitBatch(d) \/ DrainTimeout(d)
                                 \/ DrainReturns(d)
      PROVE  PathInv'
  BY <1>1, PathFrame DEF StartDrain, EmitBatch, DrainTimeout, DrainReturns
<1>2. ASSUME NEW d \in Drains, DrainAckArrives(d) PROVE PathInv'
  BY <1>2, PathFrame, RangeEmpty DEF DrainAckArrives
<1>3. CASE AccountEnds
  BY <1>3, PathFrame DEF AccountEnds
<1>4. CASE InboxExpires
  BY <1>4, PathFrame, RangeEmpty DEF InboxExpires
<1>5. CASE Crash
  BY <1>5, PathFrame DEF Crash, TypeOK
<1>6. QED BY <1>1, <1>2, <1>3, <1>4, <1>5 DEF DrainStep, EnvironmentStep

\* Every step preserves it.
LEMMA PathNext ==
  ASSUME AckStatuses = {"ok"}
  PROVE  TypeOK /\ KeepInv /\ PathInv /\ [Next]_vars => PathInv'
<1> SUFFICES ASSUME TypeOK, KeepInv, PathInv, [Next]_vars PROVE PathInv'
  OBVIOUS
<1>1. CASE UNCHANGED vars
  BY <1>1, PathFrame DEF vars
<1>2. QED BY <1>1, PathClient, PathSend, PathOther DEF Next

\* The invariant holds in every reachable state.
LEMMA PathInvariant ==
  ASSUME AckStatuses = {"ok"}
  PROVE  Spec => []PathInv
<1>1. TypeOK /\ KeepInv /\ PathInv /\ [Next]_vars => PathInv'
  BY PathNext
<1>2. QED BY <1>1, PathInit, TypeCorrect, KeepInvariant, PTL DEF Spec

\* With recipients that answer "ok", a message that is in the inbox was offered
\* to no socket, so no page can be given it by both paths.
THEOREM DirectXorQueuedCorrect ==
  ASSUME AckStatuses = {"ok"}
  PROVE  Spec => []DirectXorQueued
<1>1. TypeOK /\ PathInv => DirectXorQueued
  <2> SUFFICES ASSUME TypeOK, PathInv PROVE DirectXorQueued
    OBVIOUS
  <2>1. Range(inbox) \subseteq Msgs
    BY RangeSubset DEF TypeOK
  <2>2. QED BY <2>1 DEF PathInv, Unoffered, DirectXorQueued
<1>2. QED BY <1>1, PathInvariant, TypeCorrect, PTL

-----------------------------------------------------------------------------
(* Send order.                                                              *)

\* The members of A that are in seq come in increasing order.
OrderedIn(seq, A) ==
  \A i, j \in DOMAIN seq :
    i < j /\ seq[i] \in A /\ seq[j] \in A => seq[i] < seq[j]

\* The tail of an ordered sequence is ordered, and its members that count come
\* after the head if that counts too.
LEMMA OrderedTail ==
  ASSUME NEW S, NEW seq \in Seq(S), seq # <<>>, NEW A, OrderedIn(seq, A)
  PROVE  /\ OrderedIn(Tail(seq), A)
         /\ Range(seq) \subseteq Range(Tail(seq)) \cup {Head(seq)}
         /\ Range(Tail(seq)) \subseteq Range(seq)
         /\ Head(seq) \in A =>
              \A x \in Range(Tail(seq)) \cap A : Head(seq) < x
<1> DEFINE rest == Tail(seq)
<1>1. /\ Len(seq) \in Nat \ {0}
      /\ DOMAIN seq = 1..Len(seq)
      /\ Head(seq) = seq[1]
  BY LenProperties, EmptySeq
<1>2. /\ DOMAIN rest = 1..(Len(seq) - 1)
      /\ \A i \in 1..(Len(seq) - 1) : rest[i] = seq[i + 1]
  BY <1>1, HeadTailProperties, LenProperties
<1> HIDE DEF rest
<1>3. OrderedIn(rest, A)
  BY <1>1, <1>2 DEF OrderedIn
<1>4. Range(seq) \subseteq Range(rest) \cup {Head(seq)}
  <2> SUFFICES ASSUME NEW i \in DOMAIN seq PROVE seq[i] \in Range(rest) \cup {Head(seq)}
    BY DEF Range
  <2>1. CASE i = 1
    BY <2>1, <1>1
  <2>2. CASE i # 1
    <3>1. i - 1 \in DOMAIN rest /\ rest[i - 1] = seq[i]
      BY <2>2, <1>1, <1>2
    <3>2. QED BY <3>1 DEF Range
  <2>3. QED BY <2>1, <2>2
<1>5. ASSUME Head(seq) \in A, NEW x \in Range(rest) \cap A PROVE Head(seq) < x
  <2>1. PICK i \in DOMAIN rest : x = rest[i]
    BY <1>5 DEF Range
  <2>2. /\ 1 \in DOMAIN seq /\ i + 1 \in DOMAIN seq /\ 1 < i + 1
        /\ seq[i + 1] = x
    BY <2>1, <1>1, <1>2
  <2>3. QED BY <2>2, <1>1, <1>5 DEF OrderedIn
<1>6. Range(rest) \subseteq Range(seq)
  BY <1>1, <1>2 DEF Range
<1>7. QED BY <1>3, <1>4, <1>5, <1>6 DEF rest

\* Appending keeps the order if what is appended does not count, or comes after
\* all that does.
LEMMA OrderedAppend ==
  ASSUME NEW S, NEW seq \in Seq(S), NEW e \in S, NEW A, OrderedIn(seq, A),
         e \in A => \A x \in Range(seq) \cap A : x < e
  PROVE  OrderedIn(Append(seq, e), A)
<1> DEFINE new == Append(seq, e)
<1>1. /\ Len(seq) \in Nat
      /\ DOMAIN seq = 1..Len(seq)
      /\ DOMAIN new = 1..(Len(seq) + 1)
      /\ \A i \in 1..Len(seq) : new[i] = seq[i]
      /\ new[Len(seq) + 1] = e
  BY AppendProperties, LenProperties
<1> HIDE DEF new
<1>2. \A i \in DOMAIN seq : seq[i] \in A /\ e \in A => seq[i] < e
  BY DEF Range
<1>3. OrderedIn(new, A)
  BY <1>1, <1>2 DEF OrderedIn
<1>4. QED BY <1>3 DEF new

\* Fewer members that count are still in order.
LEMMA OrderedSubset ==
  ASSUME NEW seq, NEW A, NEW B, OrderedIn(seq, A), B \subseteq A
  PROVE  OrderedIn(seq, B)
BY DEF OrderedIn

\* The empty sequence is ordered.
LEMMA OrderedEmpty == \A A : OrderedIn(<<>>, A)
BY DEF OrderedIn

\* The messages whose handler waits for the recipient's TTL, and those whose
\* handler has not started.
Asking == {m \in Msgs : pc[m] = "ttl"}
Unsent == {m \in Msgs : pc[m] = "unsent"}

\* Handlers that wait for the TTL do so in the order of their messages, each in
\* the queue of replies, where those that have not started are not.
QueueInv ==
  /\ OrderedIn(replies, Asking)
  /\ Asking \subseteq Range(replies)
  /\ Range(replies) \cap Unsent = {}

\* Handlers start in the order of their messages; and what is stored is in
\* order and comes before what waits to be.
OrderInv ==
  /\ \A k, m \in Msgs : k < m /\ k \in Unsent => m \in Unsent
  /\ QueueInv
  /\ OrderedIn(inbox, Msgs)
  /\ \A k \in Range(inbox), m \in Asking : k < m

\* It holds initially.
LEMMA OrderInit == Init => OrderInv
BY OrderedEmpty, RangeEmpty DEF Init, OrderInv, QueueInv, Asking, Unsent

\* It is kept when no handler starts or begins to wait, the queue stays in
\* order, and the inbox stays or goes.
LEMMA OrderFrame ==
  ASSUME TypeOK, OrderInv, Unsent' = Unsent, Asking' \subseteq Asking, QueueInv',
         inbox' = inbox \/ inbox' = <<>>
  PROVE  OrderInv'
<1>1. OrderedIn(inbox', Msgs)
  BY OrderedEmpty DEF OrderInv
<1>2. Range(inbox') \subseteq Range(inbox)
  BY RangeEmpty
<1>3. QED BY <1>1, <1>2 DEF OrderInv

\* The queue stays in order when a handler that has no interest in the TTL takes
\* a place in it, or is served.
LEMMA QueueFrame ==
  ASSUME TypeOK, QueueInv, Unsent' = Unsent, Asking' \subseteq Asking,
         \/ replies' = replies
         \/ \E x \in (Msgs \cup Drains) \ (Asking' \cup Unsent) :
              replies' = Append(replies, x)
         \/ /\ replies # <<>>
            /\ Head(replies) \notin Asking'
            /\ replies' = Tail(replies)
  PROVE  QueueInv'
<1>1. OrderedIn(replies, Asking') /\ Asking' \subseteq Range(replies)
  BY OrderedSubset DEF QueueInv
<1>2. CASE replies' = replies
  BY <1>1, <1>2 DEF QueueInv
<1>3. ASSUME NEW x \in (Msgs \cup Drains) \ (Asking' \cup Unsent),
             replies' = Append(replies, x)
      PROVE  QueueInv'
  <2>1. OrderedIn(replies', Asking')
    BY <1>1, <1>3, OrderedAppend DEF TypeOK
  <2>2. Range(replies') = Range(replies) \cup {x}
    BY <1>3, RangeAppend DEF TypeOK
  <2>3. QED BY <1>1, <2>1, <2>2 DEF QueueInv
<1>4. ASSUME replies # <<>>, Head(replies) \notin Asking', replies' = Tail(replies)
      PROVE  QueueInv'
  <2>1. /\ OrderedIn(replies', Asking')
        /\ Range(replies) \subseteq Range(replies') \cup {Head(replies)}
        /\ Range(replies') \subseteq Range(replies)
    BY <1>1, <1>4, OrderedTail DEF TypeOK
  <2>2. QED BY <1>1, <1>4, <2>1 DEF QueueInv
<1>5. QED BY <1>2, <1>3, <1>4

\* The recipient's steps preserve it.
LEMMA OrderClient == TypeOK /\ OrderInv /\ ClientStep => OrderInv'
<1> SUFFICES ASSUME TypeOK, OrderInv, ClientStep PROVE OrderInv'
  OBVIOUS
<1>1. UNCHANGED <<pc, replies, inbox>>
  BY DEF ClientStep, Connect, Disconnect, Mount, Unmount, TakeMessage, TakeBatch
<1>2. Asking' = Asking /\ Unsent' = Unsent
  BY <1>1 DEF Asking, Unsent
<1>3. QED BY <1>1, <1>2 DEF OrderInv, QueueInv

\* A handler that starts is later than all that have started.
LEMMA OrderStarts ==
  ASSUME TypeOK, OrderInv, NEW m \in Msgs, Starts(m)
  PROVE  /\ m \in Unsent
         /\ \A k \in Msgs \ Unsent : k < m
         /\ \A k, n \in Msgs : k < n /\ k \in Unsent \ {m} => n \in Unsent \ {m}
BY DEF OrderInv, Msgs, Starts, Unsent

\* So a handler that finds the room empty takes its place behind all others.
LEMMA OrderSendToEmptyRoom ==
  ASSUME TypeOK, KeepInv, OrderInv, NEW m \in Msgs, SendToEmptyRoom(m)
  PROVE  OrderInv'
<1>1. /\ m \in Unsent
      /\ \A k \in Msgs \ Unsent : k < m
      /\ \A k, n \in Msgs : k < n /\ k \in Unsent \ {m} => n \in Unsent \ {m}
  BY OrderStarts DEF SendToEmptyRoom
<1>2. UNCHANGED inbox /\ AskTtl(m)
  BY DEF SendToEmptyRoom
<1>3. Unsent' = Unsent \ {m}
  BY <1>2 DEF AskTtl, Unsent, TypeOK
<1>4. CASE account = "live"
  <2>1. pc' = [pc EXCEPT ![m] = "ttl"] /\ replies' = Append(replies, m)
    BY <1>2, <1>4 DEF AskTtl
  <2>2. Asking' = Asking \cup {m}
    BY <2>1 DEF Asking, TypeOK
  <2>3. Range(replies') = Range(replies) \cup {m}
    BY <2>1, RangeAppend DEF TypeOK
  <2>4. OrderedIn(replies, Asking')
    <3>1. m \notin Range(replies)
      BY <1>1 DEF OrderInv, QueueInv
    <3>2. \A i \in DOMAIN replies : replies[i] \in Asking' => replies[i] \in Asking
      BY <2>2, <3>1 DEF Range
    <3>3. OrderedIn(replies, Asking)
      BY DEF OrderInv, QueueInv
    <3>4. QED BY <3>2, <3>3 DEF OrderedIn
  <2>5. \A k \in Range(replies) \cap Asking' : k < m
    <3>1. m \notin Range(replies)
      BY <1>1 DEF OrderInv, QueueInv
    <3>2. Asking \subseteq Msgs \ Unsent
      BY DEF Asking, Unsent
    <3>3. QED BY <1>1, <2>2, <3>1, <3>2
  <2>6. OrderedIn(replies', Asking')
    BY <2>1, <2>4, <2>5, OrderedAppend DEF TypeOK
  <2>7. QueueInv'
    BY <1>3, <2>2, <2>3, <2>6 DEF OrderInv, QueueInv
  <2>8. \A k \in Range(inbox) : k < m
    <3>1. Range(inbox) \subseteq Msgs
      BY RangeSubset DEF TypeOK
    <3>2. Range(inbox) \cap Unsent = {}
      BY DEF KeepInv, StoredIsAccepted, Unsent
    <3>3. QED BY <1>1, <3>1, <3>2
  <2>9. QED BY <1>1, <1>2, <1>3, <2>2, <2>7, <2>8 DEF OrderInv
<1>5. CASE account # "live"
  <2>1. pc' = [pc EXCEPT ![m] = "refused"] /\ replies' = replies
    BY <1>2, <1>5 DEF AskTtl
  <2>2. Asking' = Asking
    BY <2>1, <1>1 DEF Asking, Unsent, TypeOK
  <2>3. QED BY <1>1, <1>2, <1>3, <2>1, <2>2 DEF OrderInv, QueueInv
<1>6. QED BY <1>4, <1>5

\* The push of the first handler in the queue that waits: its message comes
\* after what is stored and before all others that wait.
LEMMA OrderPush ==
  ASSUME TypeOK, OrderInv, NEW m \in Msgs, Push(m)
  PROVE  OrderInv'
<1> DEFINE rest == Tail(replies)
<1>1. /\ replies # <<>> /\ Head(replies) = m /\ pc[m] = "ttl"
      /\ pc' = [pc EXCEPT ![m] = "push"]
      /\ inbox' = Append(inbox, m)
      /\ replies' = Append(rest, m)
  BY DEF Push
<1>2. Asking' = Asking \ {m} /\ m \in Asking /\ Unsent' = Unsent /\ m \notin Unsent
  BY <1>1 DEF Asking, Unsent, TypeOK
<1>3. rest \in Seq(Msgs \cup Drains) /\ m \in Msgs \cup Drains
  BY <1>1, HeadTailProperties DEF TypeOK
<1>4. /\ OrderedIn(rest, Asking)
      /\ Range(replies) \subseteq Range(rest) \cup {m}
      /\ Range(rest) \subseteq Range(replies)
      /\ \A x \in Range(rest) \cap Asking : m < x
  BY <1>1, <1>2, OrderedTail DEF TypeOK, OrderInv, QueueInv
<1> HIDE DEF rest
<1>5. Range(replies') = Range(rest) \cup {m}
  BY <1>1, <1>3, RangeAppend
<1>6. QueueInv'
  <2>1. OrderedIn(rest, Asking')
    BY <1>2, <1>4, OrderedSubset
  <2>2. OrderedIn(replies', Asking')
    BY <1>1, <1>2, <1>3, <2>1, OrderedAppend
  <2>3. QED BY <1>2, <1>4, <1>5, <2>2 DEF OrderInv, QueueInv
<1>7. OrderedIn(inbox', Msgs)
  <2>1. \A x \in Range(inbox) \cap Msgs : x < m
    BY <1>2 DEF OrderInv
  <2>2. QED BY <1>1, <2>1, OrderedAppend DEF TypeOK, OrderInv
<1>8. \A k \in Range(inbox'), n \in Asking' : k < n
  <2>1. Range(inbox') = Range(inbox) \cup {m}
    BY <1>1, RangeAppend DEF TypeOK
  <2>2. Asking' \subseteq Range(rest) \cap Asking
    BY <1>2, <1>4 DEF OrderInv, QueueInv
  <2>3. QED BY <1>4, <2>1, <2>2 DEF OrderInv
<1>9. QED BY <1>2, <1>6, <1>7, <1>8 DEF OrderInv

\* The steps of message handlers preserve it.
LEMMA OrderSend ==
  ASSUME AckStatuses = {"ok"}, TypeOK, KeepInv, PathInv, OrderInv, SendStep
  PROVE  OrderInv'
<1> SUFFICES ASSUME NEW m \in Msgs,
                    \/ SendToRoom(m)
                    \/ SendToEmptyRoom(m)
                    \/ \E c \in Conns : AckArrives(m, c)
                    \/ AckTimeout(m)
                    \/ Push(m)
                    \/ AckSender(m)
             PROVE  OrderInv'
  BY DEF SendStep
<1>1. CASE SendToRoom(m)
  <2>1. /\ m \in Unsent
        /\ \A k, n \in Msgs : k < n /\ k \in Unsent \ {m} => n \in Unsent \ {m}
    BY <1>1, OrderStarts DEF SendToRoom
  <2>2. Unsent' = Unsent \ {m} /\ Asking' = Asking /\ UNCHANGED <<replies, inbox>>
    BY <1>1, <2>1 DEF SendToRoom, Unsent, Asking, TypeOK
  <2>3. QED BY <2>1, <2>2 DEF OrderInv, QueueInv
<1>2. CASE SendToEmptyRoom(m)
  BY <1>2, OrderSendToEmptyRoom
<1>3. ASSUME NEW c \in Conns, AckArrives(m, c) PROVE OrderInv'
  \* The first answer was "ok": the handler does not turn to the inbox.
  <2>1. /\ pc[m] = "waiting"
        /\ pc' = pc \/ pc' = [pc EXCEPT ![m] = "acked"]
        /\ UNCHANGED <<replies, inbox>>
    BY <1>3 DEF AckArrives, PathInv, NoErrors, TypeOK
  <2>2. Unsent' = Unsent /\ Asking' = Asking
    BY <2>1 DEF Unsent, Asking, TypeOK
  <2>3. QED BY <2>1, <2>2 DEF OrderInv, QueueInv
<1>4. CASE AckTimeout(m)
  <2>1. Unsent' = Unsent /\ Asking' = Asking /\ UNCHANGED <<replies, inbox>>
    BY <1>4 DEF AckTimeout, Unsent, Asking, TypeOK
  <2>2. QED BY <2>1 DEF OrderInv, QueueInv
<1>5. CASE Push(m)
  BY <1>5, OrderPush
<1>6. CASE AckSender(m)
  <2>1. Unsent' = Unsent /\ Asking' = Asking /\ m \notin Asking
    BY <1>6 DEF AckSender, Unsent, Asking, TypeOK
  <2>2. QueueInv'
    BY <1>6, <2>1, QueueFrame DEF AckSender, OrderInv
  <2>3. QED BY <1>6, <2>1, <2>2, OrderFrame DEF AckSender
<1>7. QED BY <1>1, <1>2, <1>3, <1>4, <1>5, <1>6

\* Drains preserve it: they wait in the same queue, and are no messages.
LEMMA OrderDrain == TypeOK /\ OrderInv /\ DrainStep => OrderInv'
<1> SUFFICES ASSUME TypeOK, OrderInv, NEW d \in Drains,
                    \/ StartDrain(d)
                    \/ EmitBatch(d)
                    \/ DrainAckArrives(d)
                    \/ DrainTimeout(d)
                    \/ DrainReturns(d)
             PROVE  OrderInv'
  BY DEF DrainStep
<1>1. pc' = pc
  BY DEF StartDrain, EmitBatch, DrainAckArrives, DrainTimeout, DrainReturns
<1>2. Unsent' = Unsent /\ Asking' = Asking
  BY <1>1 DEF Unsent, Asking
<1>3. d \in (Msgs \cup Drains) \ (Asking' \cup Unsent)
  BY <1>2, HandlersAssumption DEF Unsent, Asking
<1>4. /\ \/ replies' = replies
         \/ replies' = Append(replies, d)
         \/ replies # <<>> /\ Head(replies) = d /\ replies' = Tail(replies)
      /\ inbox' = inbox \/ inbox' = <<>>
  BY DEF StartDrain, EmitBatch, DrainAckArrives, DrainTimeout, DrainReturns
<1>5. QueueInv'
  BY <1>2, <1>3, <1>4, QueueFrame DEF OrderInv
<1>6. QED BY <1>2, <1>4, <1>5, OrderFrame

\* Expiry and crashes preserve it.
LEMMA OrderEnvironment == TypeOK /\ OrderInv /\ EnvironmentStep => OrderInv'
<1> SUFFICES ASSUME TypeOK, OrderInv, EnvironmentStep PROVE OrderInv'
  OBVIOUS
<1>1. CASE AccountEnds \/ InboxExpires
  <2>1. pc' = pc /\ replies' = replies /\ (inbox' = inbox \/ inbox' = <<>>)
    BY <1>1 DEF AccountEnds, InboxExpires
  <2>2. Unsent' = Unsent /\ Asking' = Asking
    BY <2>1 DEF Unsent, Asking
  <2>3. QueueInv'
    BY <2>1, <2>2, QueueFrame DEF OrderInv
  <2>4. QED BY <2>1, <2>2, <2>3, OrderFrame
<1>2. CASE Crash
  <2>1. Unsent' = Unsent /\ Asking' = {} /\ replies' = <<>> /\ inbox' = inbox
    BY <1>2 DEF Crash, Unsent, Asking, TypeOK, InProgress
  <2>2. QueueInv'
    BY <2>1, OrderedEmpty, RangeEmpty DEF QueueInv
  <2>3. QED BY <2>1, <2>2, OrderFrame
<1>3. QED BY <1>1, <1>2 DEF EnvironmentStep

\* Every step preserves it.
LEMMA OrderNext ==
  ASSUME AckStatuses = {"ok"}
  PROVE  TypeOK /\ KeepInv /\ PathInv /\ OrderInv /\ [Next]_vars => OrderInv'
<1> SUFFICES ASSUME TypeOK, KeepInv, PathInv, OrderInv, [Next]_vars PROVE OrderInv'
  OBVIOUS
<1>1. CASE UNCHANGED vars
  BY <1>1 DEF vars, OrderInv, QueueInv, Asking, Unsent
<1>2. QED
  BY <1>1, OrderClient, OrderSend, OrderDrain, OrderEnvironment DEF Next

\* With recipients that answer "ok", the inbox holds each message once, in the
\* order in which the messages were sent: the TTL lookups and pushes of
\* concurrent handlers cannot overtake one another.
THEOREM InboxInSendOrderCorrect ==
  ASSUME AckStatuses = {"ok"}
  PROVE  Spec => []InboxInSendOrder
<1>1. TypeOK /\ KeepInv /\ PathInv /\ OrderInv /\ [Next]_vars => OrderInv'
  BY OrderNext
<1>2. TypeOK /\ OrderInv => InboxInSendOrder
  <2> SUFFICES ASSUME TypeOK, OrderInv PROVE InboxInSendOrder
    OBVIOUS
  <2>1. \A i \in DOMAIN inbox : inbox[i] \in Msgs
    BY LenProperties DEF TypeOK
  <2>2. QED BY <2>1 DEF OrderInv, OrderedIn, InboxInSendOrder
<1>3. QED
  BY <1>1, <1>2, OrderInit, PathInvariant, TypeCorrect, KeepInvariant, PTL DEF Spec

-----------------------------------------------------------------------------
(* What is under way, or was read by a drain, has been sent.                *)

Begun == {m \in Msgs : pc[m] # "unsent"}

BegunInv ==
  /\ \A m \in Msgs, c \in Conns : flight[m][c] # "none" => m \in Begun
  /\ \A d \in Drains : Range(drain[d].batch) \subseteq Begun

\* It holds initially.
LEMMA BegunInit == Init => BegunInv
BY RangeEmpty DEF Init, BegunInv, NoDrain

\* No message returns to the state before its handler has started; offers are
\* made, and batches read, only of messages whose handlers have.
LEMMA BegunFrame ==
  ASSUME TypeOK, BegunInv,
         Begun \subseteq Begun',
         \A m \in Msgs, c \in Conns :
           flight'[m][c] # "none" => flight[m][c] # "none" \/ m \in Begun',
         \A d \in Drains : \/ drain'[d].batch = drain[d].batch
                           \/ Range(drain'[d].batch) \subseteq Begun
  PROVE  BegunInv'
BY DEF BegunInv

\* Where a run is, and what has become of its packet, do not touch its batch.
LEMMA BatchKept ==
  ASSUME TypeOK, NEW e \in Drains, NEW p \in DrainStates, NEW q \in PacketStates,
         \/ drain' = [drain EXCEPT ![e] = [drain[e] EXCEPT !.pc = p]]
         \/ drain' = [drain EXCEPT ![e] = [drain[e] EXCEPT !.packet = q]]
         \/ drain' = [drain EXCEPT ![e] =
                         [drain[e] EXCEPT !.pc = p, !.packet = q]]
  PROVE  \A d \in Drains : drain'[d].batch = drain[d].batch
<1>1. drain[e] \in DrainRun
  BY DEF TypeOK
<1>2. /\ [drain[e] EXCEPT !.pc = p].batch = drain[e].batch
      /\ [drain[e] EXCEPT !.packet = q].batch = drain[e].batch
      /\ [drain[e] EXCEPT !.pc = p, !.packet = q].batch = drain[e].batch
  BY <1>1 DEF DrainRun
<1>3. ASSUME NEW run, drain' = [drain EXCEPT ![e] = run], run.batch = drain[e].batch
      PROVE  \A d \in Drains : drain'[d].batch = drain[d].batch
  BY <1>3 DEF TypeOK
<1>4. QED BY <1>2, <1>3

\* Every step preserves it.
LEMMA BegunNext == TypeOK /\ KeepInv /\ BegunInv /\ [Next]_vars => BegunInv'
<1> SUFFICES ASSUME TypeOK, KeepInv, BegunInv, [Next]_vars PROVE BegunInv'
  OBVIOUS
<1>1. CASE ClientStep
  <2>1. UNCHANGED pc
    BY <1>1 DEF ClientStep, Connect, Disconnect, Mount, Unmount, TakeMessage, TakeBatch
  <2>2. \A d \in Drains : drain'[d].batch = drain[d].batch
    <3>1. ASSUME NEW c \in Conns, NEW e \in Drains, Mount(c, e)
          PROVE  \A d \in Drains : drain'[d].batch = drain[d].batch
      BY <3>1 DEF Mount, TypeOK, DrainRun
    <3>2. ASSUME NEW e \in Drains, NEW s \in AckStatuses, TakeBatch(e, s)
          PROVE  \A d \in Drains : drain'[d].batch = drain[d].batch
      BY <3>2, BatchKept, AckStatusAssumption DEF TakeBatch, PacketStates, DrainStates
    <3>3. CASE UNCHANGED drain
      BY <3>3
    <3>4. QED
      BY <1>1, <3>1, <3>2, <3>3 DEF ClientStep, Connect, Disconnect, Unmount,
        TakeMessage
  <2>3. \A m \in Msgs, c \in Conns :
          flight'[m][c] # "none" => flight[m][c] # "none"
    <3>1. ASSUME NEW m \in Msgs, NEW c \in Conns, NEW s \in AckStatuses,
                 TakeMessage(m, c, s)
          PROVE  \A k \in Msgs, x \in Conns :
                   flight'[k][x] # "none" => flight[k][x] # "none"
      BY <3>1 DEF TakeMessage, TypeOK
    <3>2. CASE UNCHANGED flight
      BY <3>2
    <3>3. QED
      BY <1>1, <3>1, <3>2 DEF ClientStep, Connect, Disconnect, Mount, Unmount,
        TakeBatch
  <2>4. QED BY <2>1, <2>2, <2>3, BegunFrame DEF Begun
<1>2. CASE SendStep
  <2>1. UNCHANGED drain
    BY <1>2 DEF SendStep, SendToRoom, SendToEmptyRoom, AckArrives, AckTimeout, Push,
      AckSender
  <2>2. Begun \subseteq Begun'
    BY <1>2 DEF SendStep, SendToRoom, SendToEmptyRoom, AckArrives, AckTimeout, Push,
      AckSender, AskTtl, Begun, TypeOK
  <2>3. \A m \in Msgs, c \in Conns :
          flight'[m][c] # "none" => flight[m][c] # "none" \/ m \in Begun'
    <3>1. ASSUME NEW m \in Msgs, SendToRoom(m)
          PROVE  \A k \in Msgs, c \in Conns :
                   flight'[k][c] # "none" => flight[k][c] # "none" \/ k \in Begun'
      BY <3>1 DEF SendToRoom, Begun, TypeOK
    <3>2. ASSUME NEW m \in Msgs, NEW c \in Conns, AckArrives(m, c)
          PROVE  \A k \in Msgs, x \in Conns :
                   flight'[k][x] # "none" => flight[k][x] # "none"
      BY <3>2, AckStatusAssumption DEF AckArrives, TypeOK
    <3>3. ASSUME NEW m \in Msgs,
                 SendToEmptyRoom(m) \/ AckTimeout(m) \/ Push(m) \/ AckSender(m)
          PROVE  UNCHANGED flight
      BY <3>3 DEF SendToEmptyRoom, AckTimeout, Push, AckSender
    <3>4. QED BY <1>2, <3>1, <3>2, <3>3 DEF SendStep
  <2>4. QED BY <2>1, <2>2, <2>3, BegunFrame
<1>3. CASE DrainStep
  <2>1. UNCHANGED <<pc, flight>>
    BY <1>3 DEF DrainStep, StartDrain, EmitBatch, DrainAckArrives, DrainTimeout,
      DrainReturns
  <2>2. Range(inbox) \subseteq Begun
    <3>1. Range(inbox) \subseteq Msgs
      BY RangeSubset DEF TypeOK
    <3>2. QED BY <3>1 DEF KeepInv, StoredIsAccepted, Begun
  <2>3. \A d \in Drains : \/ drain'[d].batch = drain[d].batch
                          \/ Range(drain'[d].batch) \subseteq Begun
    <3>1. ASSUME NEW e \in Drains, StartDrain(e)
          PROVE  \A d \in Drains : \/ drain'[d].batch = drain[d].batch
                                   \/ drain'[d].batch = inbox
      BY <3>1 DEF StartDrain, TypeOK, DrainRun
    <3>2. ASSUME NEW e \in Drains, EmitBatch(e)
          PROVE  \A d \in Drains : drain'[d].batch = drain[d].batch
      <4>1. \/ drain' = [drain EXCEPT ![e] = [drain[e] EXCEPT !.pc = "done"]]
            \/ drain' = [drain EXCEPT ![e] =
                           [drain[e] EXCEPT !.pc = "waiting", !.packet = "sent"]]
        BY <3>2 DEF EmitBatch
      <4>2. /\ "done" \in DrainStates /\ "waiting" \in DrainStates
            /\ "sent" \in PacketStates
        BY DEF DrainStates, PacketStates
      <4>3. QED BY <4>1, <4>2, BatchKept
    <3>3. ASSUME NEW e \in Drains, DrainAckArrives(e)
          PROVE  \A d \in Drains : drain'[d].batch = drain[d].batch
      <4>1. \E p \in {"del", "done"} :
              drain' = [drain EXCEPT ![e] =
                          [drain[e] EXCEPT !.pc = p, !.packet = "answered"]]
        BY <3>3 DEF DrainAckArrives
      <4>2. {"del", "done"} \subseteq DrainStates /\ "answered" \in PacketStates
        BY DEF DrainStates, PacketStates
      <4>3. QED BY <4>1, <4>2, BatchKept
    <3>4. ASSUME NEW e \in Drains, DrainTimeout(e) \/ DrainReturns(e)
          PROVE  \A d \in Drains : drain'[d].batch = drain[d].batch
      BY <3>4, BatchKept DEF DrainTimeout, DrainReturns, PacketStates, DrainStates
    <3>5. QED BY <1>3, <2>2, <3>1, <3>2, <3>3, <3>4 DEF DrainStep
  <2>4. QED BY <2>1, <2>3, BegunFrame DEF Begun
<1>4. CASE EnvironmentStep
  <2>1. CASE AccountEnds \/ InboxExpires
    BY <2>1, BegunFrame DEF AccountEnds, InboxExpires, Begun
  <2>2. CASE Crash
    <3>1. \A d \in Drains : drain'[d].batch = drain[d].batch
      BY <2>2 DEF Crash, TypeOK, DrainRun
    <3>2. Begun \subseteq Begun'
      BY <2>2 DEF Crash, Begun, TypeOK
    <3>3. QED BY <2>2, <3>1, <3>2, BegunFrame DEF Crash
  <2>3. QED BY <1>4, <2>1, <2>2 DEF EnvironmentStep
<1>5. CASE UNCHANGED vars
  BY <1>5, BegunFrame DEF vars, Begun
<1>6. QED BY <1>1, <1>2, <1>3, <1>4, <1>5 DEF Next

-----------------------------------------------------------------------------
(* The simulation.                                                          *)

\* What senders are told at each step of a handler.
LEMMA ToldCases ==
  /\ Told("unsent") = "nothing"
  /\ \A p \in {"waiting", "ttl", "push"} : Told(p) = "busy"
  /\ Told("acked") = "ok"
  /\ Told("refused") = "error" /\ Told("timedout") = "error"
  /\ Told("lost") = "lost"
BY DEF Told, InProgress

\* The mailbox does not move when nothing that it shows does.
LEMMA Stutter ==
  ASSUME UNCHANGED <<account, pc, received, inbox, drain, overtaken>>
  PROVE  UNCHANGED Box!mailVars
BY DEF Box!mailVars, ActiveDrains

\* Delivery starts as a mailbox does.
LEMMA MailInit == Init => Box!Init
<1> SUFFICES ASSUME Init PROVE Box!Init
  OBVIOUS
<1>1. ActiveDrains = {}
  BY DEF Init, ActiveDrains, NoDrain
<1>2. [m \in Msgs |-> Told(pc[m])] = [m \in Msgs |-> "nothing"]
  BY ToldCases DEF Init
<1>3. QED BY <1>1, <1>2, RangeEmpty DEF Init, Box!Init

\* A sender learns what its handler's new state says.
LEMMA Telling ==
  ASSUME TypeOK, NEW m \in Msgs, NEW p, pc' = [pc EXCEPT ![m] = p]
  PROVE  [k \in Msgs |-> Told(pc[k])]' =
           [[k \in Msgs |-> Told(pc[k])] EXCEPT ![m] = Told(p)]
BY DEF TypeOK

\* Pages take messages that have been sent.
LEMMA TakeStep ==
  ASSUME TypeOK, received \subseteq received', received' \subseteq received \cup Begun,
         UNCHANGED <<account, pc, inbox, overtaken>>, ActiveDrains' = ActiveDrains
  PROVE  Box!Take
<1>1. \A m \in received' \ received : m \in Msgs /\ Told(pc[m]) # "nothing"
  <2>1. \A m \in Begun : pc[m] \in InProgress \cup Settled
    BY DEF Begun, TypeOK
  <2>2. QED BY <2>1 DEF Begun, Told, InProgress, Settled
<1>2. QED BY <1>1 DEF Box!Take

\* A drain begins or ends.
LEMMA TurnStep ==
  ASSUME UNCHANGED <<account, pc, received, inbox, overtaken>>
  PROVE  Box!Turn
BY DEF Box!Turn

\* The recipient's steps: pages take messages; a drain is requested.
LEMMA MailClient ==
  ASSUME TypeOK, BegunInv, ClientStep
  PROVE  Box!Next \/ UNCHANGED Box!mailVars
<1>1. ASSUME NEW c \in Conns, NEW d \in Drains, Mount(c, d) PROVE Box!Turn
  BY <1>1, TurnStep DEF Mount, historyVars
<1>2. ASSUME NEW c \in Conns, NEW m \in Msgs, NEW s \in AckStatuses,
             TakeMessage(m, c, s)
      PROVE  Box!Take
  <2>1. m \in Begun
    BY <1>2 DEF TakeMessage, BegunInv
  <2>2. QED BY <1>2, <2>1, TakeStep DEF TakeMessage, ActiveDrains
<1>3. ASSUME NEW d \in Drains, NEW s \in AckStatuses, TakeBatch(d, s) PROVE Box!Take
  <2>1. Range(drain[d].batch) \subseteq Begun
    BY DEF BegunInv
  <2>2. ActiveDrains' = ActiveDrains
    BY <1>3 DEF TakeBatch, ActiveDrains, TypeOK, DrainRun
  <2>3. QED BY <1>3, <2>1, <2>2, TakeStep DEF TakeBatch
<1>4. CASE \E c \in Conns : \/ \E attached \in BOOLEAN : Connect(c, attached)
                            \/ Disconnect(c)
                            \/ Unmount(c)
  BY <1>4, Stutter DEF Connect, Disconnect, Unmount, historyVars
<1>5. QED BY <1>1, <1>2, <1>3, <1>4 DEF ClientStep, Box!Next

\* AskTtl: the handler goes on while the account lives, and fails otherwise.
LEMMA AskStep ==
  ASSUME TypeOK, KeepInv, NEW m \in Msgs, pc[m] \in {"unsent", "waiting"}, AskTtl(m),
         UNCHANGED <<account, received, inbox, drain, overtaken>>
  PROVE  Box!Begin(m) \/ Box!Fail(m) \/ UNCHANGED Box!mailVars
<1> DEFINE told == [k \in Msgs |-> Told(pc[k])]
<1>1. m \notin Range(inbox)
  BY DEF KeepInv, StoredIsAccepted
<1>2. UNCHANGED ActiveDrains
  BY DEF ActiveDrains
<1>3. CASE account = "live"
  <2>1. told' = [told EXCEPT ![m] = "busy"]
    BY <1>3, Telling, ToldCases DEF AskTtl
  <2>2. CASE pc[m] = "unsent"
    BY <1>2, <2>1, <2>2, ToldCases DEF Box!Begin
  <2>3. CASE pc[m] = "waiting"
    <3>1. told' = told
      BY <2>1, <2>3, ToldCases
    <3>2. QED BY <1>2, <3>1 DEF Box!mailVars
  <2>4. QED BY <2>2, <2>3
<1>4. CASE account # "live"
  <2>1. told' = [told EXCEPT ![m] = "error"]
    BY <1>4, Telling, ToldCases DEF AskTtl
  <2>2. CASE pc[m] = "unsent"
    BY <1>2, <1>4, <2>1, <2>2, ToldCases DEF Box!Begin
  <2>3. CASE pc[m] = "waiting"
    BY <1>1, <1>2, <2>1, <2>3, ToldCases DEF Box!Fail
  <2>4. QED BY <2>2, <2>3
<1>5. QED BY <1>3, <1>4

\* The steps of message handlers: a message begins, is stored, succeeds or fails.
LEMMA MailSend ==
  ASSUME TypeOK, KeepInv, NEW m \in Msgs,
         \/ SendToRoom(m)
         \/ SendToEmptyRoom(m)
         \/ \E c \in Conns : AckArrives(m, c)
         \/ AckTimeout(m)
         \/ Push(m)
         \/ AckSender(m)
  PROVE  \/ Box!Begin(m) \/ Box!Store(m) \/ Box!Succeed(m) \/ Box!Fail(m)
         \/ UNCHANGED Box!mailVars
<1> DEFINE told == [k \in Msgs |-> Told(pc[k])]
<1>0. UNCHANGED ActiveDrains
  BY DEF SendToRoom, SendToEmptyRoom, AckArrives, AckTimeout, Push, AckSender,
    ActiveDrains
<1>1. CASE SendToRoom(m)
  <2>1. told' = [told EXCEPT ![m] = "busy"]
    <3>1. pc' = [pc EXCEPT ![m] = "waiting"]
      BY <1>1 DEF SendToRoom
    <3>2. told' = [told EXCEPT ![m] = Told("waiting")]
      BY <3>1, Telling
    <3>3. QED BY <3>2, ToldCases
  <2>2. told[m] = "nothing"
    BY <1>1, ToldCases DEF SendToRoom, Starts
  <2>3. Box!Begin(m)
    BY <1>0, <1>1, <2>1, <2>2 DEF SendToRoom, historyVars, Box!Begin
  <2>4. QED BY <2>3
<1>2. CASE SendToEmptyRoom(m)
  BY <1>2, AskStep DEF SendToEmptyRoom, Starts, historyVars
<1>3. ASSUME NEW c \in Conns, AckArrives(m, c)
      PROVE  \/ Box!Begin(m) \/ Box!Succeed(m) \/ Box!Fail(m)
             \/ UNCHANGED Box!mailVars
  <2>1. /\ pc[m] = "waiting"
        /\ UNCHANGED <<account, received, inbox, drain, overtaken>>
    BY <1>3 DEF AckArrives, historyVars
  <2>2. CASE UNCHANGED pc
    BY <2>1, <2>2, Stutter
  <2>3. CASE AskTtl(m)
    BY <2>1, <2>3, AskStep
  <2>4. ASSUME (IF first[m] = "none" THEN flight[m][c] ELSE first[m]) = "ok",
               pc' = [pc EXCEPT ![m] = "acked"]
        PROVE  Box!Succeed(m)
    <3>1. m \in received
      BY <2>4 DEF KeepInv, OkMeansTaken
    <3>2. told' = [told EXCEPT ![m] = "ok"]
      <4>1. pc' = [pc EXCEPT ![m] = "acked"]
        BY <2>4
      <4>2. told' = [told EXCEPT ![m] = Told("acked")]
        BY <4>1, Telling
      <4>3. QED BY <4>2, ToldCases
    <3>3. told[m] = "busy"
      BY <2>1, ToldCases
    <3>4. QED BY <1>0, <2>1, <3>1, <3>2, <3>3 DEF Box!Succeed
  <2>5. QED BY <1>3, <2>2, <2>3, <2>4 DEF AckArrives
<1>4. CASE AckTimeout(m)
  <2>1. told' = [told EXCEPT ![m] = "error"]
    <3>1. pc' = [pc EXCEPT ![m] = "timedout"]
      BY <1>4 DEF AckTimeout
    <3>2. told' = [told EXCEPT ![m] = Told("timedout")]
      BY <3>1, Telling
    <3>3. QED BY <3>2, ToldCases
  <2>2. told[m] = "busy"
    BY <1>4, ToldCases DEF AckTimeout
  <2>3. m \notin Range(inbox)
    BY <1>4 DEF AckTimeout, KeepInv, StoredIsAccepted
  <2>4. Box!Fail(m)
    BY <1>0, <1>4, <2>1, <2>2, <2>3 DEF AckTimeout, historyVars, Box!Fail
  <2>5. QED BY <2>4
<1>5. CASE Push(m)
  <2>1. told' = [told EXCEPT ![m] = "busy"] /\ told[m] = "busy"
    BY <1>5, Telling, ToldCases DEF Push
  <2>2. told' = told
    BY <2>1
  <2>3. m \notin Range(inbox)
    BY <1>5 DEF Push, KeepInv, StoredIsAccepted
  <2>4. Range(inbox') = Range(inbox) \cup {m}
    BY <1>5, RangeAppend DEF Push, TypeOK
  <2>5. Box!Store(m)
    BY <1>0, <1>5, <2>1, <2>2, <2>3, <2>4 DEF Push, Box!Store
  <2>6. QED BY <2>5
<1>6. CASE AckSender(m)
  <2>1. told' = [told EXCEPT ![m] = "ok"]
    <3>1. pc' = [pc EXCEPT ![m] = "acked"]
      BY <1>6 DEF AckSender
    <3>2. told' = [told EXCEPT ![m] = Told("acked")]
      BY <3>1, Telling
    <3>3. QED BY <3>2, ToldCases
  <2>2. told[m] = "busy"
    BY <1>6, ToldCases DEF AckSender
  <2>3. account = "live" => m \in received \cup Range(inbox) \cup overtaken
    BY <1>6 DEF AckSender, KeepInv, PushedIsKept, Kept
  <2>4. Box!Succeed(m)
    BY <1>0, <1>6, <2>1, <2>2, <2>3 DEF AckSender, historyVars, Box!Succeed
  <2>5. QED BY <2>4
<1>7. QED BY <1>1, <1>2, <1>3, <1>4, <1>5, <1>6

\* The steps of drains: a hand-over turns, or empties the mailbox, and then every
\* message in it had been taken or came late.
LEMMA MailDrain ==
  ASSUME TypeOK, KeepInv, DrainStep
  PROVE  Box!Next
<1>1. ASSUME NEW d \in Drains, DrainAckArrives(d), drain[d].packet = "ok"
      PROVE  Box!Empty
  <2>1. d \in ActiveDrains
    BY <1>1 DEF DrainAckArrives, ActiveDrains
  <2>2. Range(inbox) \subseteq received \cup overtaken
    BY <1>1, <2>1 DEF KeepInv, DrainsCover, OkMeansBatchTaken
  <2>3. inbox' = <<>> /\ UNCHANGED <<account, pc, received, overtaken>>
    BY <1>1 DEF DrainAckArrives, historyVars
  <2>4. QED BY <2>1, <2>2, <2>3, RangeEmpty DEF Box!Empty
<1>2. ASSUME NEW d \in Drains, DrainAckArrives(d), drain[d].packet # "ok"
      PROVE  Box!Turn
  BY <1>2, TurnStep DEF DrainAckArrives, historyVars
<1>3. ASSUME NEW d \in Drains,
             StartDrain(d) \/ EmitBatch(d) \/ DrainTimeout(d) \/ DrainReturns(d)
      PROVE  Box!Turn
  BY <1>3, TurnStep DEF StartDrain, EmitBatch, DrainTimeout, DrainReturns, historyVars
<1>4. QED BY <1>1, <1>2, <1>3 DEF DrainStep, Box!Next

\* The account ends, its inbox expires, the process dies.
LEMMA MailEnvironment ==
  ASSUME TypeOK, EnvironmentStep
  PROVE  Box!Next
<1>1. CASE AccountEnds
  <2>1. Box!AccountEnds
    BY <1>1 DEF AccountEnds, historyVars, ActiveDrains, Box!AccountEnds
  <2>2. QED BY <2>1 DEF Box!Next
<1>2. CASE InboxExpires
  <2>1. Box!Expire
    BY <1>2, RangeEmpty DEF InboxExpires, historyVars, ActiveDrains, Box!Expire
  <2>2. QED BY <2>1 DEF Box!Next
<1>3. CASE Crash
  <2>1. ActiveDrains' = {}
    BY <1>3 DEF Crash, ActiveDrains, TypeOK, DrainRun
  <2>2. \A m \in Msgs : Told(pc[m])' =
                          IF Told(pc[m]) = "busy" THEN "lost" ELSE Told(pc[m])
    <3>1. \A m \in Msgs : pc'[m] = IF pc[m] \in InProgress THEN "lost" ELSE pc[m]
      BY <1>3 DEF Crash
    <3>2. \A m \in Msgs : pc[m] \in InProgress <=> Told(pc[m]) = "busy"
      BY DEF TypeOK, Told, InProgress, Settled
    <3>3. QED BY <3>1, <3>2, ToldCases
  <2>3. UNCHANGED <<account, received, inbox, overtaken>>
    BY <1>3 DEF Crash, historyVars
  <2>4. Box!Crash
    BY <2>1, <2>2, <2>3 DEF Box!Crash
  <2>5. QED BY <2>4 DEF Box!Next
<1>4. QED BY <1>1, <1>2, <1>3 DEF EnvironmentStep

\* Every step of Delivery is a step of Mailbox, or none.
LEMMA MailNext ==
  TypeOK /\ KeepInv /\ BegunInv /\ [Next]_vars => [Box!Next]_Box!mailVars
<1> SUFFICES ASSUME TypeOK, KeepInv, BegunInv, [Next]_vars
             PROVE  Box!Next \/ UNCHANGED Box!mailVars
  OBVIOUS
<1>1. CASE ClientStep
  BY <1>1, MailClient
<1>2. CASE SendStep
  BY <1>2, MailSend DEF SendStep, Box!Next
<1>3. CASE DrainStep
  BY <1>3, MailDrain
<1>4. CASE EnvironmentStep
  BY <1>4, MailEnvironment
<1>5. CASE UNCHANGED vars
  BY <1>5, Stutter DEF vars
<1>6. QED BY <1>1, <1>2, <1>3, <1>4, <1>5 DEF Next

\* What is offered or read has been sent, in every reachable state.
LEMMA BegunInvariant == Spec => []BegunInv
<1>1. QED BY BegunInit, BegunNext, TypeCorrect, KeepInvariant, PTL DEF Spec

\* The handlers of messages.service.ts and inbox.handler.ts implement the
\* mailbox: nothing they do shows more than Mailbox allows.
THEOREM ImplementsMailboxCorrect == Spec => ImplementsMailbox
<1>1. QED
  BY MailInit, MailNext, TypeCorrect, KeepInvariant, BegunInvariant, PTL
  DEF Spec, ImplementsMailbox, Box!Spec
=============================================================================
