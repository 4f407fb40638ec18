------------------------- MODULE TransferLink_proofs -------------------------
(****************************************************************************)
(* What the link does to a session, whatever the capacity of its channels:  *)
(* the facts that the proofs of all of them share.                          *)
(****************************************************************************)
EXTENDS TransferLink, SequenceTheorems, FiniteSetTheorems, FunctionTheorems, TLAPS

\* What a client may be sent, LinkTypeOK in its terms, and what a queue holds.
Events == [kind : {"Data"}, n : Nat] \cup {Exit(0), Exit(1), Close, Error}
LinkOK ==
  /\ alive \in BOOLEAN /\ session \in BOOLEAN /\ attached \in BOOLEAN
  /\ down \in Seq(Events \cup {Reset}) /\ Len(down) <= DownCap
  /\ registered \in BOOLEAN
  /\ events \in Seq(Events) /\ Len(events) <= EventCap
  /\ breaks \in 0..MaxBreaks

Carries(q) == \E i \in 1..Len(q) : q[i] = Exit0

\* They are the same.
LEMMA LinkParts == LinkTypeOK <=> LinkOK
  BY DEF LinkTypeOK, LinkOK, Events

\* Initially the client has its stream and no events.
LEMMA LinkInitial == LinkInit => LinkOK /\ ~Carries(down) /\ ~Carries(events)
  BY LinkAssumption DEF LinkInit, StreamInit, LinkOK, Carries

\* What a step may do to the link, but for sending to the client.
LinkMoves == \/ UNCHANGED linkVars \/ Vanish \/ ReceiveNone
             \/ \E e \in Events : Receive(e)
             \/ Dispatch \/ Break \/ Reattach \/ ServerNotices \/ Restarted

\* None of it puts an event on the way.
LEMMA Moved ==
  ASSUME LinkOK, LinkMoves
  PROVE  LinkOK' /\ (Carries(down)' \/ Carries(events)' => Carries(down) \/ Carries(events))
<1> USE LinkAssumption DEF LinkOK, Carries
<1>1. CASE UNCHANGED linkVars \/ ReceiveNone
  <2>1. UNCHANGED <<alive, session, attached, down, registered, events, breaks>>
    BY <1>1 DEF linkVars, ReceiveNone
  <2>. QED
    BY <2>1
<1>2. CASE Vanish
  <2>1. /\ alive' = FALSE /\ registered' = FALSE /\ events' = <<>>
        /\ UNCHANGED <<session, attached, down, breaks>>
    BY <1>2 DEF Vanish
  <2>2. events' \in Seq(Events) /\ Len(events') = 0
    BY <2>1
  <2>3. alive' \in BOOLEAN /\ registered' \in BOOLEAN
    BY <2>1
  <2>. QED
    BY <2>1, <2>2, <2>3
<1>3. CASE \E e \in Events : Receive(e)
  <2>1. /\ events # <<>> /\ events' = Tail(events)
        /\ UNCHANGED <<alive, session, attached, down, registered, breaks>>
    BY <1>3 DEF Receive
  <2>2. /\ Tail(events) \in Seq(Events) /\ Len(Tail(events)) = Len(events) - 1
        /\ \A i \in 1..Len(Tail(events)) : Tail(events)[i] = events[i + 1]
    BY <2>1, HeadTailProperties
  <2>. QED
    BY <2>1, <2>2
<1>4. CASE Dispatch
  <2>1. /\ down # <<>> /\ down' = Tail(down)
        /\ UNCHANGED <<alive, session, attached, breaks>> /\ registered' \in BOOLEAN
    BY <1>4 DEF Dispatch
  <2>2. /\ Tail(down) \in Seq(Events \cup {Reset}) /\ Len(Tail(down)) = Len(down) - 1
        /\ \A i \in 1..Len(Tail(down)) : Tail(down)[i] = down[i + 1]
        /\ Head(down) = down[1] /\ Head(down) \in Events \cup {Reset}
    BY <2>1, HeadTailProperties
  <2>3. CASE UNCHANGED events
    BY <2>1, <2>2, <2>3
  <2>4. CASE Head(down) # Reset /\ Len(events) < EventCap /\ events' = Append(events, Head(down))
    <3>1. /\ Append(events, Head(down)) \in Seq(Events)
          /\ Len(Append(events, Head(down))) = Len(events) + 1
          /\ \A i \in 1..Len(events) + 1 : Append(events, Head(down))[i] =
               IF i = Len(events) + 1 THEN Head(down) ELSE events[i]
      BY <2>2, <2>4, AppendProperties
    <3>. QED
      BY <2>1, <2>2, <2>4, <3>1
  <2>. QED
    BY <1>4, <2>3, <2>4 DEF Dispatch
<1>5. CASE Break \/ ServerNotices \/ Restarted
  <2>1. /\ down' = <<>> /\ UNCHANGED <<events, registered>>
        /\ alive' \in BOOLEAN /\ session' \in BOOLEAN /\ attached' \in BOOLEAN
        /\ breaks' \in {breaks, breaks + 1} /\ (breaks' = breaks \/ breaks < MaxBreaks)
    <3>1. CASE Break
      BY <3>1 DEF Break
    <3>2. CASE ServerNotices
      BY <3>2 DEF ServerNotices
    <3>3. CASE Restarted
      BY <3>3 DEF Restarted
    <3>. QED
      BY <1>5, <3>1, <3>2, <3>3
  <2>2. down' \in Seq(Events \cup {Reset}) /\ Len(down') = 0 /\ breaks' \in 0..MaxBreaks
    BY <2>1
  <2>. QED
    BY <2>1, <2>2
<1>6. CASE Reattach
  <2>1. /\ down' \in {<<>>, <<Reset>>} /\ UNCHANGED <<events, registered, breaks>>
        /\ alive' \in BOOLEAN /\ session' \in BOOLEAN /\ attached' \in BOOLEAN
    BY <1>6 DEF Reattach
  <2>2. down' \in Seq(Events \cup {Reset}) /\ Len(down') <= DownCap /\ ~Carries(down)'
    <3>1. CASE down' = <<>>
      BY <3>1
    <3>2. CASE down' = <<Reset>>
      <4>1. Reset # Exit0
        BY DEF Reset, Exit0, Exit
      <4>2. /\ <<Reset>> \in Seq(Events \cup {Reset}) /\ Len(<<Reset>>) = 1
            /\ <<Reset>>[1] = Reset
        OBVIOUS
      <4>. QED
        BY <3>2, <4>1, <4>2
    <3>. QED
      BY <2>1, <3>1, <3>2
  <2>. QED
    BY <2>1, <2>2
<1>. QED
  BY <1>1, <1>2, <1>3, <1>4, <1>5, <1>6 DEF LinkMoves

\* What a relay sends is the one event that is added.
LEMMA Sent ==
  ASSUME LinkOK, NEW e \in Events, Delivered(e)
  PROVE  LinkOK' /\ UNCHANGED events /\ (Carries(down)' => Carries(down) \/ e = Exit0)
<1>1. /\ Len(down) < DownCap /\ down' = Append(down, e)
      /\ UNCHANGED <<alive, session, attached, registered, events, breaks>>
  BY DEF Delivered
<1>2. /\ Append(down, e) \in Seq(Events \cup {Reset})
      /\ Len(Append(down, e)) = Len(down) + 1
      /\ \A i \in 1..Len(down) + 1 :
           Append(down, e)[i] = IF i = Len(down) + 1 THEN e ELSE down[i]
  BY AppendProperties DEF LinkOK
<1>. QED
  BY <1>1, <1>2, LinkAssumption DEF LinkOK, Carries

-----------------------------------------------------------------------------
(* Queues of events. *)

\* The pieces of output in a queue, and how many they are.
DataIn(q)   == {i \in 1..Len(q) : q[i].kind = "Data"}
Outputs(q)  == Cardinality(DataIn(q))

\* A queue has a status; a certain event; no output behind a status.
Exits(q)    == \E i \in 1..Len(q) : q[i].kind = "Exit"
Holds(q, e) == \E i \in 1..Len(q) : q[i] = e
InOrder(q)  == \A i, j \in 1..Len(q) : q[i].kind = "Exit" /\ q[j].kind = "Data" => j < i

\* How much output a queue has is a number, and 0 when there is none.
LEMMA OutputsType ==
  ASSUME NEW E, NEW q \in Seq(E)
  PROVE  /\ IsFiniteSet(DataIn(q)) /\ Outputs(q) \in Nat
         /\ Outputs(q) = 0 <=> \A i \in 1..Len(q) : q[i].kind # "Data"
<1>1. IsFiniteSet(1..Len(q))
  BY FS_Interval
<1>2. IsFiniteSet(DataIn(q))
  BY <1>1, FS_Subset DEF DataIn
<1>3. Outputs(q) = 0 <=> DataIn(q) = {}
  BY <1>2, FS_EmptySet DEF Outputs
<1>. QED
  BY <1>2, <1>3, FS_CardinalityType DEF Outputs, DataIn

\* A queue that is empty.
LEMMA EmptyQueue ==
  Outputs(<<>>) = 0 /\ InOrder(<<>>) /\ ~Exits(<<>>) /\ \A e : ~Holds(<<>>, e)
<1>1. <<>> \in Seq({}) /\ Len(<<>>) = 0 /\ 1..0 = {}
  OBVIOUS
<1>2. Outputs(<<>>) = 0
  BY <1>1, OutputsType
<1>. QED
  BY <1>1, <1>2 DEF InOrder, Exits, Holds

\* An event that joins a queue.
LEMMA Joined ==
  ASSUME NEW E, NEW q \in Seq(E), NEW e \in E
  PROVE  /\ Outputs(Append(q, e)) = Outputs(q) + IF e.kind = "Data" THEN 1 ELSE 0
         /\ Exits(Append(q, e)) <=> Exits(q) \/ e.kind = "Exit"
         /\ \A d : Holds(Append(q, e), d) <=> Holds(q, d) \/ e = d
         /\ InOrder(q) /\ ~(Exits(q) /\ e.kind = "Data") => InOrder(Append(q, e))
<1> DEFINE r == Append(q, e)
           n == Len(q) + 1
<1>1. /\ n \in Nat \ {0} /\ Len(r) = n /\ r[n] = e
      /\ \A i \in 1..Len(q) : r[i] = q[i]
  BY AppendProperties
<1>2. 1..Len(r) = 1..Len(q) \cup {n} /\ n \notin 1..Len(q)
  BY <1>1
<1>. HIDE DEF r, n
<1>3. /\ Exits(r) <=> Exits(q) \/ e.kind = "Exit"
      /\ \A d : Holds(r, d) <=> Holds(q, d) \/ e = d
  BY <1>1, <1>2 DEF Exits, Holds
<1>4. ASSUME InOrder(q), ~(Exits(q) /\ e.kind = "Data") PROVE InOrder(r)
  <2> SUFFICES ASSUME NEW i \in 1..Len(r), NEW j \in 1..Len(r),
                      r[i].kind = "Exit", r[j].kind = "Data"
               PROVE  j < i
    BY DEF InOrder
  <2>1. CASE j \in 1..Len(q) /\ i \in 1..Len(q)
    BY <1>1, <1>4, <2>1 DEF InOrder
  <2>2. CASE j \in 1..Len(q) /\ i = n
    BY <1>1, <2>2 DEF n
  <2>3. CASE j = n /\ i \in 1..Len(q)
    BY <1>1, <1>4, <2>3 DEF Exits
  <2>4. CASE j = n /\ i = n
    BY <2>4
  <2>. QED
    BY <1>2, <2>1, <2>2, <2>3, <2>4
<1>5. Outputs(r) = Outputs(q) + IF e.kind = "Data" THEN 1 ELSE 0
  <2>1. IsFiniteSet(DataIn(q)) /\ n \notin DataIn(q) /\ Outputs(q) \in Nat
    BY <1>2, OutputsType DEF DataIn
  <2>2. CASE e.kind = "Data"
    <3>1. DataIn(r) = DataIn(q) \cup {n}
      BY <1>1, <1>2, <2>2 DEF DataIn
    <3>. QED
      BY <2>1, <2>2, <3>1, FS_AddElement DEF Outputs
  <2>3. CASE e.kind # "Data"
    <3>1. DataIn(r) = DataIn(q)
      BY <1>1, <1>2, <2>3 DEF DataIn
    <3>. QED
      BY <2>1, <2>3, <3>1 DEF Outputs
  <2>. QED
    BY <2>2, <2>3
<1>. QED
  BY <1>3, <1>4, <1>5 DEF r

\* An event that leaves a queue.
LEMMA Taken ==
  ASSUME NEW E, NEW q \in Seq(E), q # <<>>
  PROVE  /\ Outputs(q) = Outputs(Tail(q)) + IF Head(q).kind = "Data" THEN 1 ELSE 0
         /\ Exits(q) <=> Exits(Tail(q)) \/ Head(q).kind = "Exit"
         /\ \A d : Holds(q, d) <=> Holds(Tail(q), d) \/ Head(q) = d
         /\ InOrder(q) => InOrder(Tail(q))
         /\ InOrder(q) /\ Head(q).kind = "Exit" => Outputs(q) = 0
<1> DEFINE r == Tail(q)
<1>1. /\ Len(q) \in Nat \ {0} /\ r \in Seq(E) /\ Len(r) = Len(q) - 1 /\ Head(q) = q[1]
      /\ \A i \in 1..Len(r) : r[i] = q[i + 1]
  BY HeadTailProperties
<1>. HIDE DEF r
<1>2. /\ \A i \in 1..Len(q) : i = 1 \/ i - 1 \in 1..Len(r)
      /\ \A i \in 1..Len(r) : i + 1 \in 1..Len(q)
      /\ \A i \in 1..Len(q) : i # 1 => r[i - 1] = q[i]
  BY <1>1
<1>3. /\ Exits(q) <=> Exits(r) \/ Head(q).kind = "Exit"
      /\ \A d : Holds(q, d) <=> Holds(r, d) \/ Head(q) = d
  <2>1. ASSUME NEW i \in 1..Len(q) PROVE q[i] = Head(q) \/ \E j \in 1..Len(r) : r[j] = q[i]
    BY <1>1, <1>2
  <2>2. /\ 1 \in 1..Len(q) /\ Head(q) = q[1]
        /\ \A j \in 1..Len(r) : j + 1 \in 1..Len(q) /\ r[j] = q[j + 1]
    BY <1>1, <1>2
  <2>3. Exits(q) <=> Exits(r) \/ Head(q).kind = "Exit"
    BY <2>1, <2>2 DEF Exits
  <2>4. ASSUME NEW d PROVE Holds(q, d) <=> Holds(r, d) \/ Head(q) = d
    BY <2>1, <2>2 DEF Holds
  <2>. QED
    BY <2>3, <2>4
<1>4. ASSUME InOrder(q) PROVE InOrder(r)
  BY <1>1, <1>2, <1>4 DEF InOrder
<1>5. ASSUME InOrder(q), Head(q).kind = "Exit" PROVE Outputs(q) = 0
  <2>1. ASSUME NEW i \in 1..Len(q) PROVE q[i].kind # "Data"
    BY <1>1, <1>5, <2>1 DEF InOrder
  <2>. QED
    BY <2>1, OutputsType
<1>6. Outputs(q) = Outputs(r) + IF Head(q).kind = "Data" THEN 1 ELSE 0
  <2> DEFINE later == {i \in DataIn(q) : i # 1}
             f == [i \in DataIn(r) |-> i + 1]
  <2>1. IsFiniteSet(DataIn(r)) /\ Outputs(r) \in Nat
    BY <1>1, OutputsType
  <2>2. f \in [DataIn(r) -> later]
    BY <1>1, <1>2 DEF DataIn
  <2>3. \A i, j \in DataIn(r) : f[i] = f[j] => i = j
    BY DEF DataIn
  <2>4. \A k \in later : \E i \in DataIn(r) : f[i] = k
    <3> SUFFICES ASSUME NEW k \in later PROVE \E i \in DataIn(r) : f[i] = k
      OBVIOUS
    <3>1. k \in 1..Len(q) /\ k # 1 /\ q[k].kind = "Data"
      BY DEF DataIn
    <3>2. k - 1 \in DataIn(r) /\ f[k - 1] = k
      BY <1>2, <3>1 DEF DataIn
    <3>. QED
      BY <3>2
  <2>5. f \in Bijection(DataIn(r), later)
    BY <2>2, <2>3, <2>4, Fun_IsBij
  <2>. HIDE DEF f, later
  <2>6. IsFiniteSet(later) /\ Cardinality(later) = Outputs(r)
    BY <2>1, <2>5, FS_Bijection DEF ExistsBijection, Outputs
  <2>7. CASE Head(q).kind = "Data"
    <3>1. DataIn(q) = later \cup {1} /\ 1 \notin later
      BY <1>1, <2>7 DEF DataIn, later
    <3>. QED
      BY <2>1, <2>6, <2>7, <3>1, FS_AddElement DEF Outputs
  <2>8. CASE Head(q).kind # "Data"
    <3>1. DataIn(q) = later
      BY <1>1, <2>8 DEF DataIn, later
    <3>. QED
      BY <2>1, <2>6, <2>8, <3>1 DEF Outputs
  <2>. QED
    BY <2>7, <2>8
<1>. QED
  BY <1>3, <1>4, <1>5, <1>6 DEF r
==============================================================================
