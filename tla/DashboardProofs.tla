---------------------------- MODULE DashboardProofs --------------------------
(***************************************************************************)
(* The live path of the dashboard, from the collector's outbox to the page.*)
(*                                                                         *)
(* LiveOutbox, for any rows, any number of drains and any number of        *)
(* failures: what is marked as published was delivered, and one drain at a *)
(* time publishes a row unless a drain outlives its lease.                 *)
(*                                                                         *)
(* Browser, for any number of sockets, requests and troubles: the page has *)
(* one socket, and says live only of an open one.                          *)
(*                                                                         *)
(* MiniApp, for any number of runs of the effect: the page shows what its  *)
(* current run found out, and asks each SDK's host once.                   *)
(***************************************************************************)
EXTENDS LiveOutbox, Browser, MiniApp, FiniteSetTheorems, TLAPS

-----------------------------------------------------------------------------
(* The live outbox. *)

(* The variables of a drain, and that it has all of them. *)
DrainFields == {"selected", "claimed", "part"}

IsDrain(x) ==
  /\ DOMAIN x = DrainFields /\ x = [f \in DrainFields |-> x[f]]
  /\ x.part \in 1 .. Len(Kinds) + 1

(* The types. *)
OutboxTypes ==
  /\ published \subseteq Rows
  /\ drain = [d \in Drains |-> drain[d]] /\ \A d \in Drains : IsDrain(drain[d])
  /\ room \in [Rows -> [Kind -> {"new", "sent", "processing", "delivered"}]]

(* Nothing is left to do for part k of row r, with rm for room and st for  *)
(* stale.                                                                  *)
Done(rm, st, r, k) == rm[r][k] = "delivered" \/ (k = "pulse" /\ r \in st)

(* A drain that has begun to publish a row has claimed all of its rows,    *)
(* and has done the parts of this row before the one it is at.             *)
DrainIsDone(x, rm, st) == x.part > 1 =>
  /\ x.selected = {} /\ x.claimed # <<>> /\ Head(x.claimed) \in Rows
  /\ \A i \in 1 .. x.part - 1 : Done(rm, st, Head(x.claimed), Kinds[i])

(* So it is of every drain. *)
PartsAreDone == \A d \in Drains : DrainIsDone(drain[d], room, stale)

(* The inductive invariant. *)
OutboxInv == OutboxTypes /\ PartsAreDone /\ PublishedWasDelivered

(* The parts of a row, in order, are all there are. *)
LEMMA KindsFacts ==
  /\ Len(Kinds) \in Nat
  /\ \A i \in 1 .. Len(Kinds) : Kinds[i] \in Kind
  /\ \A k \in Kind : \E i \in 1 .. Len(Kinds) : k = Kinds[i]
  BY ConstantsAssumption DEF Kind, ToSet

(* A step never takes back a delivery or the age of pulses: the room       *)
(* forgets only what it has not delivered.                                 *)
LEMMA DoneStaysDone ==
  ASSUME OutboxInv, [Next]_vars
  PROVE  /\ room' \in [Rows -> [Kind -> {"new", "sent", "processing", "delivered"}]]
         /\ \A r \in Rows, k \in Kind : Done(room, stale, r, k) => Done(room', stale', r, k)
<1> DEFINE Rooms == [Rows -> [Kind -> {"new", "sent", "processing", "delivered"}]]
           Kept == room' \in Rooms /\ \A r \in Rows, k \in Kind : Done(room, stale, r, k) => Done(room', stale', r, k)
<1>0. room \in Rooms
  BY DEF OutboxInv, OutboxTypes
<1>1. CASE room' = room /\ stale \subseteq stale'
  BY <1>0, <1>1 DEF Done
<1>2. ASSUME NEW q \in Rows, NEW j \in Kind, room[q][j] # "delivered",
             NEW after \in {"new", "sent", "processing", "delivered"},
             room' = [room EXCEPT ![q][j] = after], stale' = stale
      PROVE  Kept
  <2>1. room' \in Rooms
    BY <1>0, <1>2
  <2>2. \A r \in Rows, k \in Kind : room[r][k] = "delivered" => room'[r][k] = "delivered"
    BY <1>0, <1>2
  <2> QED BY <1>2, <2>1, <2>2 DEF Done
<1>3. ASSUME NEW d \in Drains, Publish(d) PROVE Kept
  <2> PICK q \in Rows : /\ Publishing(d, q) /\ Part(d)
                        /\ IF Skipped(d, q) THEN UNCHANGED room
                           ELSE /\ Answered(q, Kinds[drain[d].part])
                                /\ room' = [room EXCEPT ![q][Kinds[drain[d].part]] =
                                                IF @ = "processing" THEN @ ELSE "delivered"]
    BY <1>3 DEF Publish
  <2> DEFINE j == Kinds[drain[d].part]
  <2>0. stale' = stale /\ j \in Kind
    BY <1>3, KindsFacts DEF Publish, table, Part, OutboxInv, OutboxTypes, IsDrain
  <2>1. CASE Skipped(d, q)
    BY <1>1, <2>0, <2>1
  <2>2. CASE ~Skipped(d, q) /\ room[q][j] # "delivered"
    <3>1. room' = [room EXCEPT ![q][j] = "delivered"]
      BY <2>2 DEF Answered
    <3> QED BY <1>2, <2>0, <2>2, <3>1
  <2>3. CASE ~Skipped(d, q) /\ room[q][j] = "delivered"
    <3>1. room' = [room EXCEPT ![q][j] = room[q][j]]
      BY <2>3
    <3>2. room' = room
      BY <1>0, <2>0, <3>1
    <3> QED BY <1>1, <2>0, <3>2
  <2> QED BY <2>1, <2>2, <2>3
<1>4. ASSUME NEW d \in Drains, NEW q \in Rows, GivesUp(d, q), stale' = stale PROVE Kept
  <2> DEFINE j == Kinds[drain[d].part]
  <2>1. j \in Kind
    BY <1>4, KindsFacts DEF GivesUp, Calling, Part, OutboxInv, OutboxTypes, IsDrain
  <2>2. room' = [room EXCEPT ![q][j] = IF @ = "new" THEN "sent" ELSE @]
    BY <1>4 DEF GivesUp
  <2>3. CASE room[q][j] = "new"
    <3>1. room' = [room EXCEPT ![q][j] = "sent"]
      BY <2>2, <2>3
    <3> QED BY <1>2, <1>4, <2>1, <2>3, <3>1
  <2>4. CASE room[q][j] # "new"
    <3>1. room' = [room EXCEPT ![q][j] = room[q][j]]
      BY <2>2, <2>4
    <3>2. room' = room
      BY <1>0, <2>1, <3>1
    <3> QED BY <1>1, <1>4, <3>2
  <2> QED BY <2>3, <2>4
<1>5. ASSUME NEW q \in Rows, NEW j \in Kind, Arrives(q, j) \/ RoomRecovers(q, j) PROVE Kept
  BY <1>2, <1>5 DEF Arrives, RoomRecovers, table
<1>6. ASSUME NEW q \in Rows, Store(q) \/ Age(q) \/ Lapse(q) PROVE Kept
  BY <1>1, <1>6 DEF Store, Age, Lapse
<1>7. ASSUME NEW d \in Drains, StartDrain(d) \/ Claim(d) \/ ClaimFails(d) \/ Mark(d)
      PROVE  Kept
  BY <1>1, <1>7 DEF StartDrain, Claim, ClaimFails, Mark, table
<1>8. ASSUME NEW d \in Drains, Refused(d) \/ PublishFails(d) \/ MarkFails(d) \/ Dies(d) PROVE Kept
  BY <1>1, <1>4, <1>8 DEF Refused, PublishFails, MarkFails, Dies, Release, table
<1>9. CASE UNCHANGED vars
  BY <1>1, <1>9 DEF vars, table
<1> QED
  BY <1>3, <1>5, <1>6, <1>7, <1>8, <1>9 DEF Next

(* What is known of a drain stays known while it does not change. *)
LEMMA DrainStaysDone ==
  ASSUME OutboxInv, [Next]_vars, NEW x, IsDrain(x), DrainIsDone(x, room, stale)
  PROVE  DrainIsDone(x, room', stale')
<1> SUFFICES ASSUME x.part > 1, NEW i \in 1 .. x.part - 1
             PROVE  Done(room', stale', Head(x.claimed), Kinds[i])
  BY DEF DrainIsDone
<1>1. Kinds[i] \in Kind
  BY KindsFacts DEF IsDrain
<1> QED BY <1>1, DoneStaysDone DEF DrainIsDone

(* A step that changes one drain keeps what is known of every drain, if it *)
(* keeps it for this one.                                                  *)
LEMMA DrainsKeep ==
  ASSUME OutboxInv, [Next]_vars, published' \subseteq Rows,
         NEW d \in Drains, NEW x, IsDrain(x), drain' = [drain EXCEPT ![d] = x],
         DrainIsDone(x, room', stale')
  PROVE  OutboxTypes' /\ PartsAreDone'
<1>1. \A e \in Drains : drain'[e] = IF e = d THEN x ELSE drain[e]
  BY DEF OutboxInv, OutboxTypes
<1>2. drain' = [e \in Drains |-> drain'[e]] /\ \A e \in Drains : IsDrain(drain'[e])
  BY <1>1 DEF OutboxInv, OutboxTypes
<1>3. OutboxTypes'
  BY <1>2, DoneStaysDone DEF OutboxTypes
<1>4. ASSUME NEW e \in Drains, e # d PROVE DrainIsDone(drain'[e], room', stale')
  BY <1>1, <1>4, DrainStaysDone DEF OutboxInv, OutboxTypes, PartsAreDone
<1>5. PartsAreDone'
  BY <1>1, <1>4 DEF PartsAreDone
<1> QED BY <1>3, <1>5

(* A step that leaves the marks alone keeps what was published delivered.  *)
LEMMA PublishedStays ==
  ASSUME OutboxInv, [Next]_vars, UNCHANGED published
  PROVE  PublishedWasDelivered' /\ published' \subseteq Rows
  BY DoneStaysDone DEF OutboxInv, OutboxTypes, PublishedWasDelivered, Done

(* A step that leaves the drains and the marks alone keeps the invariant.  *)
LEMMA IdleKeeps ==
  ASSUME OutboxInv, [Next]_vars, UNCHANGED <<drain, published>>
  PROVE  OutboxInv'
<1>1. OutboxTypes'
  BY DoneStaysDone DEF OutboxInv, OutboxTypes
<1>2. PartsAreDone'
  BY DrainStaysDone DEF OutboxInv, OutboxTypes, PartsAreDone
<1> QED BY <1>1, <1>2, PublishedStays DEF OutboxInv

(* So does a step after which one drain is at its first part. *)
LEMMA FreshDrainKeeps ==
  ASSUME OutboxInv, [Next]_vars, UNCHANGED published,
         NEW d \in Drains, NEW x, IsDrain(x), x.part = 1, drain' = [drain EXCEPT ![d] = x]
  PROVE  OutboxInv'
<1>1. DrainIsDone(x, room', stale')
  BY DEF DrainIsDone
<1> QED BY <1>1, DrainsKeep, PublishedStays DEF OutboxInv

(* A drain that stops is at its first part. *)
LEMMA StoppedIsDrain == IsDrain(Stopped) /\ Stopped.part = 1
  BY KindsFacts DEF IsDrain, DrainFields, Stopped

(* OutboxInv is inductive. *)
LEMMA OutboxInvariant == Spec => []OutboxInv
<1>1. Init => OutboxInv
  BY StoppedIsDrain DEF Init, Stopped, OutboxInv, OutboxTypes, PartsAreDone, DrainIsDone, PublishedWasDelivered
<1>2. ASSUME OutboxInv, [Next]_vars PROVE OutboxInv'
  <2>0. \A d \in Drains : IsDrain(drain[d]) /\ DrainIsDone(drain[d], room, stale)
    BY <1>2 DEF OutboxInv, OutboxTypes, PartsAreDone
  <2>1. ASSUME NEW r \in Rows, Store(r) \/ Age(r) \/ Lapse(r) PROVE OutboxInv'
    BY <1>2, <2>1, IdleKeeps DEF Store, Age, Lapse
  <2>2. ASSUME NEW r \in Rows, NEW k \in Kind, Arrives(r, k) \/ RoomRecovers(r, k) PROVE OutboxInv'
    BY <1>2, <2>2, IdleKeeps DEF Arrives, RoomRecovers, table
  <2>3. ASSUME NEW d \in Drains, StartDrain(d) PROVE OutboxInv'
    <3> DEFINE x == [drain[d] EXCEPT !.selected = Selected \ Invalid]
    <3>1. drain[d] = Stopped /\ drain' = [drain EXCEPT ![d] = x] /\ UNCHANGED published
      BY <2>3 DEF StartDrain, table
    <3>2. IsDrain(x) /\ x.part = 1
      BY <3>1, StoppedIsDrain DEF IsDrain, DrainFields, Stopped
    <3> QED BY <1>2, <3>1, <3>2, FreshDrainKeeps
  <2>4. ASSUME NEW d \in Drains, Claim(d) \/ ClaimFails(d) PROVE OutboxInv'
    <3> DEFINE y == drain[d]
               x(r, c) == [y EXCEPT !.selected = @ \ {r}, !.claimed = c]
    <3>0. PICK r \in Rows :
            /\ Claiming(d, r) /\ UNCHANGED published
            /\ \/ drain' = [drain EXCEPT ![d].selected = @ \ {r}]
               \/ drain' = [drain EXCEPT ![d].selected = @ \ {r}, ![d].claimed = Append(@, r)]
      BY <2>4 DEF Claim, ClaimFails
    <3>1. IsDrain(y) /\ y.part \in 1 .. Len(Kinds) + 1 /\ DrainIsDone(y, room, stale)
      BY <2>0 DEF IsDrain
    <3>2. y.selected # {}
      BY <3>0 DEF Claiming
    <3>3. y.part = 1
      <4> HIDE DEF y
      <4>1. ~(y.part > 1)
        BY <3>1, <3>2 DEF DrainIsDone
      <4> QED BY <3>1, <4>1, KindsFacts
    <3>4. ASSUME NEW c PROVE IsDrain(x(r, c)) /\ x(r, c).part = 1
      <4> HIDE DEF y
      <4>1. x(r, c).part = 1 /\ DOMAIN x(r, c) = DrainFields /\ x(r, c) = [f \in DrainFields |-> x(r, c)[f]]
        BY <3>1, <3>3 DEF IsDrain, DrainFields
      <4> QED BY <4>1, KindsFacts DEF IsDrain
    <3>5. \E c : drain' = [drain EXCEPT ![d] = x(r, c)]
      <4>1. CASE drain' = [drain EXCEPT ![d].selected = @ \ {r}]
        <5>1. [y EXCEPT !.selected = y.selected \ {r}] = x(r, y.claimed)
          BY <3>1 DEF IsDrain, DrainFields
        <5> QED BY <4>1, <5>1
      <4>2. CASE drain' = [drain EXCEPT ![d].selected = @ \ {r}, ![d].claimed = Append(@, r)]
        <5>1. drain' = [drain EXCEPT ![d] = x(r, Append(y.claimed, r))]
          BY <1>2, <3>1, <4>2 DEF OutboxInv, OutboxTypes, IsDrain, DrainFields
        <5> QED BY <5>1
      <4> QED BY <3>0, <4>1, <4>2
    <3>6. UNCHANGED published
      BY <3>0
    <3> HIDE DEF x
    <3> QED BY <1>2, <3>4, <3>5, <3>6, FreshDrainKeeps
  <2>5. ASSUME NEW d \in Drains, Publish(d) PROVE OutboxInv'
    <3> DEFINE y == drain[d]
               j == Kinds[y.part]
               x == [y EXCEPT !.part = y.part + 1]
    <3>1. PICK r \in Rows :
            /\ Publishing(d, r) /\ Part(d) /\ drain' = [drain EXCEPT ![d].part = @ + 1]
            /\ \/ Skipped(d, r) /\ UNCHANGED room
               \/ Answered(r, j) /\ room' = [room EXCEPT ![r][j] = IF @ = "processing" THEN @ ELSE "delivered"]
            /\ UNCHANGED table
      BY <2>5 DEF Publish
    <3>2. y.selected = {} /\ y.claimed # <<>> /\ r = Head(y.claimed)
      BY <3>1 DEF Publishing
    <3>3. y.part \in 1 .. Len(Kinds) /\ j \in Kind /\ IsDrain(y)
      BY <2>0, <3>1, KindsFacts DEF IsDrain, Part
    <3>4. drain' = [drain EXCEPT ![d] = x]
      BY <3>1
    <3>5. Done(room', stale', r, j)
      <4>1. stale' = stale /\ room[r][j] \in {"new", "sent", "processing", "delivered"}
        BY <1>2, <3>1, <3>3 DEF table, OutboxInv, OutboxTypes
      <4>2. CASE Skipped(d, r)
        BY <4>1, <4>2 DEF Skipped, Done
      <4>3. CASE ~Skipped(d, r)
        <5>1. room'[r][j] = IF room[r][j] = "processing" THEN room[r][j] ELSE "delivered"
          BY <1>2, <3>1, <3>3, <4>3 DEF OutboxInv, OutboxTypes
        <5>2. room[r][j] # "processing"
          BY <3>1, <4>3 DEF Answered
        <5> QED BY <4>1, <5>1, <5>2 DEF Done
      <4> QED BY <4>2, <4>3
    <3>6. DrainIsDone(y, room', stale')
      BY <1>2, <2>0, DrainStaysDone
    <3>7. IsDrain(x) /\ DrainIsDone(x, room', stale')
      <4>1. ASSUME NEW i \in 1 .. y.part PROVE Done(room', stale', r, Kinds[i])
        BY <3>2, <3>3, <3>5, <3>6 DEF DrainIsDone
      <4> HIDE DEF y
      <4>2. /\ x.part = y.part + 1 /\ x.selected = y.selected /\ x.claimed = y.claimed
            /\ DOMAIN x = DrainFields /\ x = [f \in DrainFields |-> x[f]]
        BY <3>3 DEF IsDrain, DrainFields
      <4>3. IsDrain(x)
        BY <3>3, <4>2, KindsFacts DEF IsDrain
      <4>4. x.part - 1 = y.part
        BY <3>3, <4>2, KindsFacts
      <4> HIDE DEF x
      <4> QED BY <3>2, <4>1, <4>2, <4>3, <4>4 DEF DrainIsDone
    <3>8. UNCHANGED published
      BY <3>1 DEF table
    <3> HIDE DEF x
    <3> QED BY <1>2, <3>4, <3>7, <3>8, DrainsKeep, PublishedStays DEF OutboxInv
  <2>6. ASSUME NEW d \in Drains, Mark(d) PROVE OutboxInv'
    <3> DEFINE y == drain[d]
               x == [y EXCEPT !.claimed = Tail(y.claimed), !.part = 1]
    <3>1. PICK r \in Rows :
            /\ Publishing(d, r) /\ ~Part(d)
            /\ published' = published \/ published' = published \cup {r}
            /\ drain' = [drain EXCEPT ![d].claimed = Tail(@), ![d].part = 1]
            /\ UNCHANGED <<room, stale>>
      BY <2>6 DEF Mark
    <3>0. IsDrain(y) /\ y.part \in 1 .. Len(Kinds) + 1 /\ DrainIsDone(y, room, stale)
      BY <2>0 DEF IsDrain
    <3>2. drain' = [drain EXCEPT ![d] = x]
      BY <1>2, <3>1 DEF OutboxInv, OutboxTypes, IsDrain, DrainFields
    <3>3. IsDrain(x) /\ DrainIsDone(x, room', stale')
      <4> HIDE DEF y
      <4>1. x.part = 1 /\ DOMAIN x = DrainFields /\ x = [f \in DrainFields |-> x[f]]
        BY <3>0 DEF IsDrain, DrainFields
      <4> QED BY <4>1, KindsFacts DEF IsDrain, DrainIsDone
    <3>4. y.part = Len(Kinds) + 1 /\ r = Head(y.claimed)
      <4>1. ~(y.part <= Len(Kinds)) /\ r = Head(y.claimed)
        BY <3>1 DEF Part, Publishing
      <4> HIDE DEF y
      <4> QED BY <3>0, <4>1, KindsFacts
    <3>5. \A k \in Kind : Done(room, stale, r, k)
      <4>1. ASSUME NEW i \in 1 .. Len(Kinds) PROVE Done(room, stale, r, Kinds[i])
        <5>1. y.part > 1 /\ i \in 1 .. y.part - 1
          <6> HIDE DEF y
          <6> QED BY <3>4, KindsFacts
        <5> QED BY <3>0, <3>4, <5>1 DEF DrainIsDone
      <4> QED BY <4>1, KindsFacts
    <3>6. PublishedWasDelivered' /\ published' \subseteq Rows
      BY <1>2, <3>1, <3>5 DEF OutboxInv, OutboxTypes, PublishedWasDelivered, Done
    <3> HIDE DEF x
    <3> QED BY <1>2, <3>2, <3>3, <3>6, DrainsKeep DEF OutboxInv
  <2>7. ASSUME NEW d \in Drains, Dies(d) PROVE OutboxInv'
    BY <1>2, <2>7, StoppedIsDrain, FreshDrainKeeps DEF Dies, table
  <2>8. ASSUME NEW d \in Drains, Refused(d) \/ PublishFails(d) \/ MarkFails(d) PROVE OutboxInv'
    BY <1>2, <2>8, StoppedIsDrain, FreshDrainKeeps DEF Refused, PublishFails, MarkFails, Release
  <2>9. CASE UNCHANGED vars
    BY <1>2, <2>9, IdleKeeps DEF vars, table
  <2> QED
    BY <1>2, <2>1, <2>2, <2>3, <2>4, <2>5, <2>6, <2>7, <2>8, <2>9 DEF Next
<1> QED BY <1>1, <1>2, PTL DEF Spec

(* A row that the outbox has marked as published, and so forgets, was      *)
(* delivered to the room, whichever calls failed and whichever drains died *)
(* or ran side by side.                                                    *)
THEOREM MarkedMeansDelivered == Spec => []PublishedWasDelivered
<1>1. OutboxInv => PublishedWasDelivered
  BY DEF OutboxInv
<1> QED BY <1>1, OutboxInvariant, PTL

(* The drains that hold row r, and those of them that hold it without a    *)
(* live lease of their own.                                                *)
Held(r) == {d \in Drains : r \in ToSet(drain[d].claimed)}
Over(r) == {d \in Held(r) : lease[r] # d \/ r \in lapsed}

(* The types of what the leases need. *)
LeaseTypes ==
  /\ lease \in [Rows -> Drains \cup {NoDrain}]
  /\ failed \in [faults : Nat, deaths : Nat, overruns : Nat]

(* A drain has a row at most once, selected or claimed. *)
RowsOnce(x) ==
  /\ x.claimed \in Seq(Rows) /\ IsInjective(x.claimed)
  /\ x.selected \cap ToSet(x.claimed) = {}

(* A drain comes to hold a row without a live lease only by outliving its  *)
(* lease: when the lease passes to another drain, it has ended before.     *)
OverrunsCounted == \A r \in Rows :
  IsFiniteSet(Over(r)) /\ Cardinality(Over(r)) <= failed.overruns

(* The inductive invariant. *)
LeaseInv ==
  LeaseTypes /\ (\A d \in Drains : RowsOnce(drain[d])) /\ OverrunsCounted

(* Another element at the end of an injective sequence keeps it injective. *)
LEMMA AppendOnce ==
  ASSUME NEW s \in Seq(Rows), IsInjective(s), NEW r \in Rows, r \notin ToSet(s)
  PROVE  /\ Append(s, r) \in Seq(Rows) /\ IsInjective(Append(s, r))
         /\ ToSet(Append(s, r)) = ToSet(s) \cup {r}
<1> DEFINE t == Append(s, r)
<1>1. /\ t \in Seq(Rows) /\ Len(t) = Len(s) + 1 /\ t[Len(s) + 1] = r
      /\ \A i \in 1 .. Len(s) : t[i] = s[i]
  OBVIOUS
<1>2. DOMAIN t = 1 .. Len(s) + 1 /\ DOMAIN s = 1 .. Len(s) /\ Len(s) \in Nat
  BY <1>1
<1> HIDE DEF t
<1>3. \A i \in 1 .. Len(s) : s[i] # r
  BY <1>2 DEF ToSet
<1>4. IsInjective(t)
  BY <1>1, <1>2, <1>3 DEF IsInjective
<1>5. \A x : x \in ToSet(t) <=> x \in ToSet(s) \cup {r}
  BY <1>1, <1>2 DEF ToSet
<1>6. ToSet(t) = ToSet(s) \cup {r}
  BY <1>5
<1> QED BY <1>1, <1>4, <1>6 DEF t

(* An injective sequence without its head is one, and has the head nowhere.*)
LEMMA TailOnce ==
  ASSUME NEW s \in Seq(Rows), IsInjective(s), s # <<>>
  PROVE  /\ Tail(s) \in Seq(Rows) /\ IsInjective(Tail(s)) /\ Tail(s) # s
         /\ ToSet(Tail(s)) = ToSet(s) \ {Head(s)}
<1> DEFINE t == Tail(s)
<1>1. /\ t \in Seq(Rows) /\ Len(t) = Len(s) - 1 /\ Len(s) \in Nat \ {0}
      /\ \A i \in 1 .. Len(s) - 1 : t[i] = s[i + 1]
      /\ Head(s) = s[1]
  OBVIOUS
<1>2. DOMAIN t = 1 .. Len(s) - 1 /\ DOMAIN s = 1 .. Len(s)
  BY <1>1
<1> HIDE DEF t
<1>3. IsInjective(t)
  <2> SUFFICES ASSUME NEW a \in 1 .. Len(s) - 1, NEW b \in 1 .. Len(s) - 1, t[a] = t[b]
               PROVE  a = b
    BY <1>2 DEF IsInjective
  <2>1. a + 1 \in 1 .. Len(s) /\ b + 1 \in 1 .. Len(s) /\ s[a + 1] = s[b + 1]
    BY <1>1
  <2>2. a + 1 = b + 1
    BY <1>2, <2>1 DEF IsInjective
  <2> QED BY <1>1, <2>2
<1>4. ToSet(t) \subseteq ToSet(s) \ {Head(s)}
  <2> SUFFICES ASSUME NEW a \in 1 .. Len(s) - 1
               PROVE  t[a] \in ToSet(s) \ {Head(s)}
    BY <1>2 DEF ToSet
  <2>1. a + 1 \in 1 .. Len(s) /\ a + 1 # 1 /\ 1 \in 1 .. Len(s)
    BY <1>1
  <2>2. t[a] = s[a + 1] /\ s[a + 1] # s[1]
    BY <1>1, <1>2, <2>1 DEF IsInjective
  <2> QED BY <1>1, <1>2, <2>1, <2>2 DEF ToSet
<1>5. ASSUME NEW i \in 1 .. Len(s), s[i] # s[1] PROVE s[i] \in ToSet(t)
  <2>1. i - 1 \in 1 .. Len(s) - 1 /\ t[i - 1] = s[i]
    BY <1>1, <1>5
  <2> QED BY <1>2, <2>1 DEF ToSet
<1>6. ToSet(s) \ {Head(s)} \subseteq ToSet(t)
  <2> SUFFICES ASSUME NEW i \in 1 .. Len(s), s[i] # s[1] PROVE s[i] \in ToSet(t)
    BY <1>1, <1>2 DEF ToSet
  <2> QED BY <1>5
<1>7. t # s
  BY <1>1
<1>8. ToSet(t) = ToSet(s) \ {Head(s)}
  BY <1>4, <1>6
<1> QED BY <1>1, <1>3, <1>7, <1>8 DEF t

(* A subset of a finite set and one more element has one more element at   *)
(* most.                                                                   *)
LEMMA OneMore ==
  ASSUME NEW O, IsFiniteSet(O), NEW l, NEW H, H \subseteq O \cup {l}
  PROVE  /\ IsFiniteSet(H) /\ Cardinality(H) \in Nat /\ Cardinality(O) \in Nat
         /\ Cardinality(H) <= Cardinality(O) + 1
<1>1. /\ IsFiniteSet(O \cup {l})
      /\ Cardinality(O \cup {l}) = IF l \in O THEN Cardinality(O) ELSE Cardinality(O) + 1
  BY FS_AddElement
<1>2. Cardinality(O) \in Nat /\ Cardinality(O \cup {l}) \in Nat
  BY <1>1, FS_CardinalityType
<1>3. IsFiniteSet(H) /\ Cardinality(H) <= Cardinality(O \cup {l})
  BY <1>1, FS_Subset
<1>4. Cardinality(H) \in Nat
  BY <1>3, FS_CardinalityType
<1>5. Cardinality(O \cup {l}) <= Cardinality(O) + 1
  BY <1>1, <1>2
<1> QED BY <1>2, <1>3, <1>4, <1>5

(* A step after which no drain has come to hold a row without a lease, and *)
(* no overrun is forgotten.                                                *)
LEMMA OverShrinks ==
  ASSUME OverrunsCounted, LeaseTypes, failed' \in [faults : Nat, deaths : Nat, overruns : Nat],
         failed'.overruns >= failed.overruns,
         \A r \in Rows : Over(r)' \subseteq Over(r)
  PROVE  OverrunsCounted'
<1> SUFFICES ASSUME NEW r \in Rows
             PROVE  IsFiniteSet(Over(r)') /\ Cardinality(Over(r)') <= failed'.overruns
  BY DEF OverrunsCounted
<1>1. /\ IsFiniteSet(Over(r)') /\ Cardinality(Over(r)') \in Nat
      /\ Cardinality(Over(r)') <= Cardinality(Over(r)) /\ Cardinality(Over(r)) \in Nat
      /\ Cardinality(Over(r)) <= failed.overruns
  BY FS_Subset, FS_CardinalityType DEF OverrunsCounted
<1>2. failed.overruns \in Nat /\ failed'.overruns \in Nat
  BY DEF LeaseTypes
<1> HIDE DEF Over
<1> QED BY <1>1, <1>2

(* Counting a failure never loses an overrun. *)
LEMMA CountFacts ==
  ASSUME LeaseTypes, NEW kind \in {"faults", "deaths", "overruns"}, Count(kind)
  PROVE  /\ failed' \in [faults : Nat, deaths : Nat, overruns : Nat]
         /\ failed'.overruns = IF kind = "overruns" THEN failed.overruns + 1 ELSE failed.overruns
  BY DEF LeaseTypes, Count

(* The lease of a row that a drain claims passes from no drain that has a  *)
(* live one.                                                               *)
LEMMA ClaimedFromNobody ==
  ASSUME LeaseTypes, NEW r \in Rows, Claimable(r)
  PROVE  Over(r) = Held(r) /\ (lease[r] = NoDrain \/ r \in lapsed)
  BY DrainsAssumption DEF Claimable, Available, Over, Held

(* A step by which drain d takes the lease of row r, or none, and has no   *)
(* more rows than before and r.                                            *)
LEMMA TakeShrinks ==
  ASSUME LeaseTypes, NEW r \in Rows, NEW d \in Drains,
         \/ UNCHANGED <<lease, lapsed>>
         \/ Claimable(r) /\ lease' = [lease EXCEPT ![r] = d] /\ lapsed' = lapsed \ {r},
         \A e \in Drains \ {d} : drain'[e].claimed = drain[e].claimed,
         \/ drain'[d].claimed = drain[d].claimed
         \/ /\ lease'[r] = d /\ r \notin lapsed'
            /\ ToSet(drain'[d].claimed) = ToSet(drain[d].claimed) \cup {r}
  PROVE  /\ lease' \in [Rows -> Drains \cup {NoDrain}]
         /\ \A q \in Rows : Over(q)' \subseteq Over(q)
<1>1. lease' \in [Rows -> Drains \cup {NoDrain}]
  BY DEF LeaseTypes
<1>2. ASSUME NEW q \in Rows, q # r, NEW e \in Drains,
             q \in ToSet(drain'[e].claimed), lease'[q] # e \/ q \in lapsed'
      PROVE  q \in ToSet(drain[e].claimed) /\ (lease[q] # e \/ q \in lapsed)
  BY <1>2 DEF LeaseTypes
<1>3. ASSUME NEW e \in Drains, r \in ToSet(drain'[e].claimed), lease'[r] # e \/ r \in lapsed'
      PROVE  r \in ToSet(drain[e].claimed) /\ (lease[r] # e \/ r \in lapsed)
  <2>1. r \in ToSet(drain[e].claimed)
    BY <1>3
  <2>2. lease[r] # e \/ r \in lapsed
    BY <1>3, ClaimedFromNobody, DrainsAssumption
  <2> QED BY <2>1, <2>2
<1>4. \A q \in Rows : Over(q)' \subseteq Over(q)
  BY <1>2, <1>3 DEF Over, Held
<1> QED BY <1>1, <1>4

(* A step by which drain d gives up its lease of row r, if it has one, and *)
(* keeps no row but those it had and not r.                                *)
LEMMA GiveShrinks ==
  ASSUME LeaseTypes, NEW r \in Rows, NEW d \in Drains,
         \/ UNCHANGED <<lease, lapsed>>
         \/ Owns(d, r) /\ lease' = [lease EXCEPT ![r] = NoDrain] /\ lapsed' = lapsed \ {r},
         \A e \in Drains \ {d} : drain'[e].claimed = drain[e].claimed,
         ToSet(drain'[d].claimed) \subseteq ToSet(drain[d].claimed) \ {r},
         drain'[d] # drain[d]
  PROVE  /\ lease' \in [Rows -> Drains \cup {NoDrain}]
         /\ \A q \in Rows : Over(q)' \subseteq Over(q)
         /\ \A q \in Rows : lease'[q] # lease[q] => drain'[lease[q]] # drain[lease[q]]
<1>1. lease' \in [Rows -> Drains \cup {NoDrain}]
  BY DEF LeaseTypes
<1>2. ASSUME NEW q \in Rows, NEW e \in Drains,
             q \in ToSet(drain'[e].claimed), lease'[q] # e \/ q \in lapsed'
      PROVE  q \in ToSet(drain[e].claimed) /\ (lease[q] # e \/ q \in lapsed)
  <2>1. CASE q = r
    BY <1>2, <2>1 DEF Owns, LeaseTypes
  <2>2. CASE q # r
    BY <1>2, <2>2 DEF LeaseTypes
  <2> QED BY <2>1, <2>2
<1>3. \A q \in Rows : Over(q)' \subseteq Over(q)
  BY <1>2 DEF Over, Held
<1>4. \A q \in Rows : lease'[q] # lease[q] => drain'[lease[q]] # drain[lease[q]]
  BY DEF Owns, LeaseTypes
<1> QED BY <1>1, <1>3, <1>4

(* What the second half of LeaseHonoured says of a step. *)
GivenUpByHolder == \A r \in Rows :
  lease[r] # NoDrain /\ r \notin lapsed /\ lease'[r] # lease[r]
    => drain'[lease[r]] # drain[lease[r]]

(* What a step has to show to keep LeaseInv. *)
LEMMA LeaseKeeps ==
  ASSUME LeaseInv, lease' \in [Rows -> Drains \cup {NoDrain}],
         failed' \in [faults : Nat, deaths : Nat, overruns : Nat],
         failed'.overruns >= failed.overruns,
         \A d \in Drains : RowsOnce(drain'[d]),
         \A r \in Rows : Over(r)' \subseteq Over(r)
  PROVE  LeaseInv'
  BY OverShrinks DEF LeaseInv, LeaseTypes

(* A stopped drain has no rows. *)
LEMMA StoppedHasNone ==
  /\ Stopped.claimed = <<>> /\ RowsOnce(Stopped) /\ ToSet(Stopped.claimed) = {}
<1>1. Stopped.claimed = <<>> /\ DOMAIN Stopped.claimed = {}
  BY DEF Stopped
<1> QED BY <1>1 DEF RowsOnce, IsInjective, ToSet

(* A selected row that is passed over, and one that is claimed. *)
LEMMA RowsPassed ==
  ASSUME NEW y, IsDrain(y), RowsOnce(y), NEW r \in Rows, r \in y.selected
  PROVE  LET passed == [y EXCEPT !.selected = y.selected \ {r}]
             taken == [y EXCEPT !.selected = y.selected \ {r}, !.claimed = Append(y.claimed, r)]
         IN  /\ RowsOnce(passed) /\ passed.claimed = y.claimed
             /\ RowsOnce(taken) /\ ToSet(taken.claimed) = ToSet(y.claimed) \cup {r}
<1> DEFINE passed == [y EXCEPT !.selected = y.selected \ {r}]
           taken == [y EXCEPT !.selected = y.selected \ {r}, !.claimed = Append(y.claimed, r)]
<1>1. /\ passed.selected = y.selected \ {r} /\ passed.claimed = y.claimed
      /\ taken.selected = y.selected \ {r} /\ taken.claimed = Append(y.claimed, r)
  BY DEF IsDrain, DrainFields
<1>2. /\ y.claimed \in Seq(Rows) /\ IsInjective(y.claimed)
      /\ y.selected \cap ToSet(y.claimed) = {} /\ r \notin ToSet(y.claimed)
  BY DEF RowsOnce
<1>3. /\ Append(y.claimed, r) \in Seq(Rows) /\ IsInjective(Append(y.claimed, r))
      /\ ToSet(Append(y.claimed, r)) = ToSet(y.claimed) \cup {r}
  BY <1>2, AppendOnce
<1> HIDE DEF passed, taken
<1>4. RowsOnce(passed) /\ RowsOnce(taken) /\ ToSet(taken.claimed) = ToSet(y.claimed) \cup {r}
  BY <1>1, <1>2, <1>3 DEF RowsOnce
<1> QED BY <1>1, <1>4 DEF passed, taken

(* Every step keeps the invariant, and takes a live lease from its holder  *)
(* only by a step of the holder.                                           *)
LEMMA LeaseStep ==
  ASSUME OutboxInv, LeaseInv, [Next]_vars
  PROVE  LeaseInv' /\ GivenUpByHolder
<1> DEFINE Kept == LeaseInv' /\ GivenUpByHolder
           FailedTypes == [faults : Nat, deaths : Nat, overruns : Nat]
<1>0. /\ LeaseTypes /\ (\A d \in Drains : IsDrain(drain[d]) /\ RowsOnce(drain[d]))
      /\ drain = [d \in Drains |-> drain[d]]
      /\ lease \in [Rows -> Drains \cup {NoDrain}]
      /\ failed \in FailedTypes /\ failed.overruns \in Nat
  BY DEF OutboxInv, OutboxTypes, LeaseInv, LeaseTypes
<1>1. ASSUME UNCHANGED <<lease, lapsed, failed>>, \A d \in Drains : RowsOnce(drain'[d]),
             \A d \in Drains : ToSet(drain'[d].claimed) \subseteq ToSet(drain[d].claimed)
      PROVE  Kept
  <2>1. \A r \in Rows : Over(r)' \subseteq Over(r)
    BY <1>1 DEF Over, Held
  <2>2. GivenUpByHolder
    BY <1>1 DEF GivenUpByHolder
  <2> QED BY <1>0, <1>1, <2>1, <2>2, LeaseKeeps
<1>2. ASSUME NEW d \in Drains, NEW x, NEW r \in Rows,
             drain' = [drain EXCEPT ![d] = x], RowsOnce(x), UNCHANGED lease \/ Claimable(r),
             \/ UNCHANGED <<lease, lapsed>>
             \/ Claimable(r) /\ lease' = [lease EXCEPT ![r] = d] /\ lapsed' = lapsed \ {r},
             \/ x.claimed = drain[d].claimed
             \/ /\ lease'[r] = d /\ r \notin lapsed'
                /\ ToSet(x.claimed) = ToSet(drain[d].claimed) \cup {r},
             failed' \in FailedTypes, failed'.overruns >= failed.overruns
      PROVE  Kept
  <2>1. drain'[d] = x /\ \A e \in Drains \ {d} : drain'[e] = drain[e]
    BY <1>0, <1>2
  <2>2. /\ lease' \in [Rows -> Drains \cup {NoDrain}]
        /\ \A q \in Rows : Over(q)' \subseteq Over(q)
    BY <1>0, <1>2, <2>1, TakeShrinks
  <2>3. GivenUpByHolder
    BY <1>0, <1>2, ClaimedFromNobody DEF GivenUpByHolder
  <2>4. \A e \in Drains : RowsOnce(drain'[e])
    BY <1>0, <1>2, <2>1
  <2> QED BY <1>2, <2>2, <2>3, <2>4, LeaseKeeps
<1>3. ASSUME NEW d \in Drains, NEW x, NEW r \in Rows,
             drain' = [drain EXCEPT ![d] = x], RowsOnce(x), x # drain[d],
             \/ UNCHANGED <<lease, lapsed>>
             \/ Owns(d, r) /\ lease' = [lease EXCEPT ![r] = NoDrain] /\ lapsed' = lapsed \ {r},
             ToSet(x.claimed) \subseteq ToSet(drain[d].claimed) \ {r},
             failed' \in FailedTypes, failed'.overruns >= failed.overruns
      PROVE  Kept
  <2>1. drain'[d] = x /\ \A e \in Drains \ {d} : drain'[e] = drain[e]
    BY <1>0, <1>3
  <2>2. /\ lease' \in [Rows -> Drains \cup {NoDrain}]
        /\ \A q \in Rows : Over(q)' \subseteq Over(q)
        /\ \A q \in Rows : lease'[q] # lease[q] => drain'[lease[q]] # drain[lease[q]]
    BY <1>0, <1>3, <2>1, GiveShrinks
  <2>3. GivenUpByHolder
    BY <2>2 DEF GivenUpByHolder
  <2>4. \A e \in Drains : RowsOnce(drain'[e])
    BY <1>0, <1>3, <2>1
  <2> QED BY <1>3, <2>2, <2>3, <2>4, LeaseKeeps
<1>4. ASSUME NEW r \in Rows, Store(r) \/ Age(r) PROVE Kept
  BY <1>0, <1>1, <1>4 DEF Store, Age
<1>5. ASSUME NEW r \in Rows, Lapse(r) PROVE Kept
  <2>0. /\ lease[r] \in Drains /\ lapsed' = lapsed \cup {r} /\ UNCHANGED <<lease, drain>>
        /\ r \notin lapsed
    BY <1>0, <1>5 DEF Lapse
  <2>1. \A q \in Rows : q # r => Over(q)' = Over(q)
    BY <2>0 DEF Over, Held
  <2>2. Over(r)' = Held(r) /\ GivenUpByHolder
    BY <2>0 DEF Over, Held, GivenUpByHolder
  <2>3. CASE lease[r] \in Held(r)
    <3>1. Held(r) \subseteq Over(r) \cup {lease[r]}
      BY DEF Over
    <3>2. Count("overruns")
      BY <1>5, <2>3 DEF Lapse, Held
    <3>3. failed' \in FailedTypes /\ failed'.overruns = failed.overruns + 1
      BY <1>0, <3>2, CountFacts
    <3>4. IsFiniteSet(Over(r)) /\ Cardinality(Over(r)) <= failed.overruns /\ Cardinality(Over(r)) \in Nat
      BY FS_CardinalityType DEF LeaseInv, OverrunsCounted
    <3>5. IsFiniteSet(Over(r)') /\ Cardinality(Over(r)') <= failed'.overruns
      <4> DEFINE H == Held(r)
                 O == Over(r)
                 l == lease[r]
      <4>1. H \subseteq O \cup {l} /\ IsFiniteSet(O) /\ Cardinality(O) \in Nat
        BY <3>1, <3>4
      <4> HIDE DEF H, O, l
      <4>3. IsFiniteSet(H) /\ Cardinality(H) <= Cardinality(O) + 1 /\ Cardinality(H) \in Nat
        BY <4>1, OneMore
      <4>4. Cardinality(H) <= failed.overruns + 1
        <5>1. Cardinality(O) <= failed.overruns
          BY <3>4 DEF O
        <5> QED BY <1>0, <4>1, <4>3, <5>1
      <4>5. Over(r)' = H
        BY <2>2 DEF H
      <4> QED BY <3>3, <4>3, <4>4, <4>5
    <3>6. ASSUME NEW q \in Rows, q # r
          PROVE  IsFiniteSet(Over(q)') /\ Cardinality(Over(q)') <= failed'.overruns
      <4>1. IsFiniteSet(Over(q)) /\ Cardinality(Over(q)) <= failed.overruns /\ Cardinality(Over(q)) \in Nat
        BY FS_CardinalityType DEF LeaseInv, OverrunsCounted
      <4>2. Over(q)' = Over(q)
        BY <2>1, <3>6
      <4> HIDE DEF Over
      <4> QED BY <1>0, <3>3, <4>1, <4>2
    <3>7. OverrunsCounted'
      BY <3>5, <3>6 DEF OverrunsCounted
    <3> QED BY <1>0, <2>0, <2>2, <3>3, <3>7 DEF LeaseInv, LeaseTypes
  <2>4. CASE lease[r] \notin Held(r)
    <3>1. UNCHANGED failed
      BY <1>5, <2>0, <2>4 DEF Lapse, Held
    <3>2. \A q \in Rows : Over(q)' \subseteq Over(q)
      BY <2>1, <2>2, <2>4 DEF Over
    <3>3. /\ lease' \in [Rows -> Drains \cup {NoDrain}] /\ failed' \in FailedTypes
          /\ failed'.overruns >= failed.overruns /\ \A d \in Drains : RowsOnce(drain'[d])
      BY <1>0, <2>0, <3>1
    <3> QED BY <2>2, <3>2, <3>3, LeaseKeeps
  <2> QED BY <2>3, <2>4
<1>6. ASSUME NEW r \in Rows, NEW k \in Kind, Arrives(r, k) \/ RoomRecovers(r, k) PROVE Kept
  BY <1>0, <1>1, <1>6 DEF Arrives, RoomRecovers, table
<1>7. ASSUME NEW d \in Drains, StartDrain(d) PROVE Kept
  <2>1. /\ drain[d] = Stopped /\ UNCHANGED <<lease, lapsed, failed>>
        /\ drain' = [drain EXCEPT ![d].selected = Selected \ Invalid]
    BY <1>7 DEF StartDrain, table
  <2> DEFINE x == [drain[d] EXCEPT !.selected = Selected \ Invalid]
  <2>2. x.claimed = <<>> /\ drain' = [drain EXCEPT ![d] = x]
    BY <2>1, StoppedHasNone DEF Stopped
  <2> HIDE DEF x
  <2>3. RowsOnce(x) /\ ToSet(x.claimed) = {}
    BY <2>2, StoppedHasNone DEF RowsOnce
  <2>4. \A e \in Drains : RowsOnce(drain'[e]) /\ ToSet(drain'[e].claimed) \subseteq ToSet(drain[e].claimed)
    BY <1>0, <2>2, <2>3
  <2> QED BY <1>1, <2>1, <2>4
<1>8. ASSUME NEW d \in Drains, Claim(d) \/ ClaimFails(d) PROVE Kept
  <2> DEFINE y == drain[d]
             passed(r) == [y EXCEPT !.selected = y.selected \ {r}]
             taken(r) == [y EXCEPT !.selected = y.selected \ {r}, !.claimed = Append(y.claimed, r)]
  <2>1. PICK r \in Rows :
          /\ r \in y.selected
          /\ \/ /\ Claimable(r) /\ lease' = [lease EXCEPT ![r] = d] /\ lapsed' = lapsed \ {r}
                /\ drain' = [drain EXCEPT ![d].selected = @ \ {r}, ![d].claimed = Append(@, r)]
                /\ UNCHANGED failed
             \/ /\ drain' = [drain EXCEPT ![d].selected = @ \ {r}]
                /\ \/ UNCHANGED <<lease, lapsed>>
                   \/ Claimable(r) /\ lease' = [lease EXCEPT ![r] = d] /\ lapsed' = lapsed \ {r}
                /\ UNCHANGED failed \/ Count("faults")
    BY <1>8 DEF Claim, ClaimFails, Claiming
  <2>2. failed' \in FailedTypes /\ failed'.overruns >= failed.overruns
    BY <1>0, <2>1, CountFacts
  <2>3. /\ RowsOnce(passed(r)) /\ passed(r).claimed = y.claimed
        /\ RowsOnce(taken(r)) /\ ToSet(taken(r).claimed) = ToSet(y.claimed) \cup {r}
    BY <1>0, <2>1, RowsPassed
  <2>4. CASE /\ Claimable(r) /\ lease' = [lease EXCEPT ![r] = d] /\ lapsed' = lapsed \ {r}
             /\ drain' = [drain EXCEPT ![d].selected = @ \ {r}, ![d].claimed = Append(@, r)]
    <3>1. drain' = [drain EXCEPT ![d] = taken(r)]
      BY <1>0, <2>4 DEF IsDrain, DrainFields
    <3>2. lease'[r] = d /\ r \notin lapsed'
      BY <1>0, <2>4
    <3> HIDE DEF taken
    <3> QED BY <1>2, <2>2, <2>3, <2>4, <3>1, <3>2
  <2>5. CASE /\ drain' = [drain EXCEPT ![d].selected = @ \ {r}]
             /\ \/ UNCHANGED <<lease, lapsed>>
                \/ Claimable(r) /\ lease' = [lease EXCEPT ![r] = d] /\ lapsed' = lapsed \ {r}
    <3>1. drain' = [drain EXCEPT ![d] = passed(r)]
      BY <2>5
    <3>2. UNCHANGED lease \/ Claimable(r)
      BY <2>5
    <3> HIDE DEF passed
    <3> QED BY <1>2, <2>2, <2>3, <2>5, <3>1, <3>2
  <2> QED BY <2>1, <2>4, <2>5
<1>9. ASSUME NEW d \in Drains, Publish(d) PROVE Kept
  <2> DEFINE y == drain[d]
             x == [y EXCEPT !.part = y.part + 1]
  <2>1. drain' = [drain EXCEPT ![d] = x] /\ UNCHANGED <<lease, lapsed, failed>>
    BY <1>9 DEF Publish, table
  <2>2. x.claimed = y.claimed /\ x.selected = y.selected
    BY <1>0 DEF IsDrain, DrainFields
  <2> HIDE DEF x
  <2>3. RowsOnce(x)
    BY <1>0, <2>2 DEF RowsOnce
  <2>4. \A e \in Drains : RowsOnce(drain'[e]) /\ ToSet(drain'[e].claimed) \subseteq ToSet(drain[e].claimed)
    BY <1>0, <2>1, <2>2, <2>3
  <2> QED BY <1>1, <2>1, <2>4
<1>10. ASSUME NEW d \in Drains, Mark(d) PROVE Kept
  <2> DEFINE y == drain[d]
             x == [y EXCEPT !.claimed = Tail(y.claimed), !.part = 1]
  <2>1. PICK r \in Rows :
          /\ y.claimed # <<>> /\ r = Head(y.claimed)
          /\ \/ UNCHANGED <<lease, lapsed>>
             \/ Owns(d, r) /\ lease' = [lease EXCEPT ![r] = NoDrain] /\ lapsed' = lapsed \ {r}
          /\ drain' = [drain EXCEPT ![d].claimed = Tail(@), ![d].part = 1]
          /\ UNCHANGED failed
    BY <1>10 DEF Mark, Publishing
  <2>2. drain' = [drain EXCEPT ![d] = x]
    BY <1>0, <2>1 DEF IsDrain, DrainFields
  <2>3. x.claimed = Tail(y.claimed) /\ x.selected = y.selected
    BY <1>0 DEF IsDrain, DrainFields
  <2>4. /\ y.claimed \in Seq(Rows) /\ IsInjective(y.claimed)
        /\ y.selected \cap ToSet(y.claimed) = {}
    BY <1>0 DEF RowsOnce
  <2>5. /\ Tail(y.claimed) \in Seq(Rows) /\ IsInjective(Tail(y.claimed)) /\ Tail(y.claimed) # y.claimed
        /\ ToSet(Tail(y.claimed)) = ToSet(y.claimed) \ {r}
    BY <2>1, <2>4, TailOnce
  <2> HIDE DEF x
  <2>6. RowsOnce(x) /\ x # y /\ ToSet(x.claimed) \subseteq ToSet(y.claimed) \ {r}
    BY <2>3, <2>4, <2>5 DEF RowsOnce
  <2>7. failed' \in FailedTypes /\ failed'.overruns >= failed.overruns
    BY <1>0, <2>1
  <2> QED BY <1>3, <2>1, <2>2, <2>6, <2>7
<1>11. ASSUME NEW d \in Drains, Refused(d) \/ PublishFails(d) \/ MarkFails(d) PROVE Kept
  <2>1. PICK r \in Rows :
          drain[d].claimed # <<>> /\ Release(d, r) /\ (UNCHANGED failed \/ Count("faults"))
    BY <1>11 DEF Refused, PublishFails, GivesUp, Calling, MarkFails, Publishing
  <2>2. /\ drain' = [drain EXCEPT ![d] = Stopped]
        /\ \/ UNCHANGED <<lease, lapsed>>
           \/ Owns(d, r) /\ lease' = [lease EXCEPT ![r] = NoDrain] /\ lapsed' = lapsed \ {r}
    BY <2>1 DEF Release
  <2>3. failed' \in FailedTypes /\ failed'.overruns >= failed.overruns
    BY <1>0, <2>1, CountFacts
  <2>4. /\ RowsOnce(Stopped) /\ Stopped # drain[d]
        /\ ToSet(Stopped.claimed) \subseteq ToSet(drain[d].claimed) \ {r}
    BY <2>1, StoppedHasNone
  <2> QED BY <1>3, <2>2, <2>3, <2>4
<1>12. ASSUME NEW d \in Drains, Dies(d) PROVE Kept
  <2>1. UNCHANGED <<lease, lapsed>> /\ drain' = [drain EXCEPT ![d] = Stopped]
    BY <1>12 DEF Dies, table
  <2>2. failed' \in FailedTypes /\ failed'.overruns >= failed.overruns
    BY <1>0, <1>12, CountFacts DEF Dies
  <2>3. \A e \in Drains : RowsOnce(drain'[e]) /\ ToSet(drain'[e].claimed) \subseteq ToSet(drain[e].claimed)
    BY <1>0, <2>1, StoppedHasNone
  <2>4. \A r \in Rows : Over(r)' \subseteq Over(r)
    BY <2>1, <2>3 DEF Over, Held
  <2>5. GivenUpByHolder
    BY <2>1 DEF GivenUpByHolder
  <2> QED BY <1>0, <2>1, <2>2, <2>3, <2>4, <2>5, LeaseKeeps
<1>13. CASE UNCHANGED vars
  BY <1>0, <1>1, <1>13 DEF vars, table
<1> QED
  BY <1>4, <1>5, <1>6, <1>7, <1>8, <1>9, <1>10, <1>11, <1>12, <1>13 DEF Next

(* The drains that hold a row are those that outlived their lease of it,   *)
(* and the one that has the live lease.                                    *)
LEMMA HeldByFew ==
  ASSUME LeaseInv, NEW r \in Rows
  PROVE  Cardinality(Held(r)) <= 1 + failed.overruns
<1> DEFINE H == Held(r)
           O == Over(r)
           l == lease[r]
<1>1. H \subseteq O \cup {l}
  BY DEF Over
<1>2. IsFiniteSet(O) /\ Cardinality(O) <= failed.overruns /\ failed.overruns \in Nat
  BY DEF LeaseInv, LeaseTypes, OverrunsCounted
<1> HIDE DEF H, O, l
<1>3. Cardinality(H) <= Cardinality(O) + 1 /\ Cardinality(H) \in Nat /\ Cardinality(O) \in Nat
  BY <1>1, <1>2, OneMore
<1>4. Cardinality(H) <= 1 + failed.overruns
  BY <1>2, <1>3
<1> QED BY <1>4 DEF H

(* However the drains run side by side, fail, die and outlive their        *)
(* leases, only one publishes a row at a time but for those that outlived  *)
(* their lease of it, and a live lease is given up by its holder only.     *)
THEOREM LeasesAreHonoured == Spec => LeaseHonoured
<1>1. Init => LeaseInv
  <2> SUFFICES ASSUME Init PROVE LeaseInv
    OBVIOUS
  <2>1. LeaseTypes /\ \A d \in Drains : drain[d] = Stopped
    BY DEF Init, LeaseTypes
  <2>2. \A r \in Rows : Over(r) = {}
    BY <2>1, StoppedHasNone DEF Over, Held
  <2>3. OverrunsCounted
    BY <2>1, <2>2, FS_EmptySet DEF OverrunsCounted, LeaseTypes
  <2> QED BY <2>1, <2>3, StoppedHasNone DEF LeaseInv
<1>2. OutboxInv /\ LeaseInv /\ [Next]_vars => LeaseInv' /\ GivenUpByHolder
  BY LeaseStep
<1>3. Spec => []LeaseInv /\ [][GivenUpByHolder]_vars
  BY <1>1, <1>2, OutboxInvariant, PTL DEF Spec
<1>4. LeaseInv => \A r \in Rows :
        Cardinality({d \in Drains : r \in ToSet(drain[d].claimed)}) <= 1 + failed.overruns
  BY HeldByFew DEF Held
<1> QED BY <1>3, <1>4, PTL DEF LeaseHonoured, GivenUpByHolder

-----------------------------------------------------------------------------
(* The browser. *)

(* The types. *)
BrowserTypes ==
  /\ online \in BOOLEAN /\ mounted \in BOOLEAN /\ timer \in BOOLEAN
  /\ event \in {NoEvent, "online", "offline"}
  /\ sockets \in [SocketIds -> {"new", "connecting", "open", "closing", "closed"}]
  /\ current \in SocketIds \cup {NoSocket}
  /\ transport \in {"loading", "connecting", "live", "reconnecting", "error", "offline"}

(* An event that waits to be dispatched tells what the network is like     *)
(* now, since the next change waits for it.                                *)
EventIsCurrent ==
  /\ event = "offline" => ~online
  /\ event = "online" => online

(* Once the page knows that the network is gone, it does not say live. *)
LiveIsOnline == mounted /\ transport = "live" /\ event # "offline" => online

(* The inductive invariant.  OneSocket needs LiveIsOnline when the current *)
(* socket closes: offline, the page is not told to reconnect.              *)
BrowserInv == BrowserTypes /\ EventIsCurrent /\ LiveIsOnline /\ OneSocket

(* A fresh socket was not used before. *)
LEMMA FreshIsNew ==
  ASSUME CanMake
  PROVE  Fresh \in SocketIds /\ sockets[Fresh] = "new"
  BY DEF CanMake, Fresh

(* Closing leaves nothing connecting or open. *)
LEMMA ClosingCloses ==
  ASSUME BrowserInv
  PROVE  /\ Closing \in [SocketIds -> {"new", "connecting", "open", "closing", "closed"}]
         /\ \A s \in SocketIds : Closing[s] \notin {"connecting", "open"}
  BY DEF BrowserInv, BrowserTypes, OneSocket, Closing, Displaced

(* connect() keeps the invariant, whatever else the step changes that the  *)
(* invariant does not mention.                                             *)
LEMMA ConnectKeeps ==
  ASSUME BrowserInv, UNCHANGED <<online, event, mounted>>,
         NEW before \in {"loading", "connecting", "live", "reconnecting", "error", "offline"},
         ConnectFrom(before)
  PROVE  BrowserInv'
<1>1. CASE ~mounted \/ ~online
  BY <1>1 DEF BrowserInv, BrowserTypes, EventIsCurrent, LiveIsOnline, OneSocket, ConnectFrom
<1>2. CASE mounted /\ online
  <2>1. Fresh \in SocketIds /\ Fresh # NoSocket
    BY <1>2, FreshIsNew DEF ConnectFrom, SocketIds, NoSocket
  <2>2. /\ timer' = FALSE /\ current' = Fresh
        /\ sockets' = [Closing EXCEPT ![Fresh] = "connecting"]
        /\ transport' \in {"error", "connecting", "reconnecting"}
    BY <1>2 DEF ConnectFrom
  <2>3. BrowserTypes'
    BY <2>1, <2>2, ClosingCloses DEF BrowserInv, BrowserTypes
  <2>4. EventIsCurrent' /\ LiveIsOnline'
    BY <2>2 DEF BrowserInv, EventIsCurrent, LiveIsOnline
  <2>5. \A s \in SocketIds : sockets'[s] \in {"connecting", "open"} => s = current'
    BY <2>1, <2>2, ClosingCloses
  <2>6. OneSocket'
    BY <1>2, <2>1, <2>2, <2>5 DEF OneSocket
  <2> QED BY <2>3, <2>4, <2>6 DEF BrowserInv
<1> QED BY <1>1, <1>2 DEF BrowserInv, BrowserTypes

(* A socket's close event keeps the invariant. *)
LEMMA CloseKeeps ==
  ASSUME BrowserInv, NEW s \in SocketIds, CloseEvent(s)
  PROVE  BrowserInv'
<1>1. sockets' = [sockets EXCEPT ![s] = "closed"] /\ UNCHANGED <<online, event, mounted>>
  BY DEF CloseEvent
<1>2. CASE current = s
  <2>1. /\ mounted /\ ~timer /\ current' = NoSocket
        /\ timer' = online
        /\ transport' = IF online THEN "reconnecting" ELSE transport
    BY <1>2 DEF CloseEvent, Rescheduled, BrowserInv, BrowserTypes, OneSocket, SocketIds, NoSocket
  <2>2. BrowserTypes' /\ EventIsCurrent' /\ LiveIsOnline'
    BY <1>1, <2>1 DEF BrowserInv, BrowserTypes, EventIsCurrent, LiveIsOnline
  <2>3. \A r \in SocketIds : sockets'[r] \notin {"connecting", "open"}
    BY <1>1, <1>2 DEF BrowserInv, BrowserTypes, OneSocket
  <2>4. OneSocket'
    BY <1>1, <2>1, <2>3 DEF BrowserInv, BrowserTypes, LiveIsOnline, OneSocket
  <2> QED BY <2>2, <2>4 DEF BrowserInv
<1>3. CASE current # s
  BY <1>1, <1>3 DEF CloseEvent, BrowserInv, BrowserTypes, EventIsCurrent, LiveIsOnline, OneSocket
<1> QED BY <1>2, <1>3

(* The cleanup leaves a page without a socket and without a timer. *)
LEMMA CleanUpKeeps ==
  ASSUME BrowserInv, CleanUp, UNCHANGED <<online, event>>, mounted' \in BOOLEAN,
         \/ ~mounted' /\ transport' = transport
         \/ transport' \in {"loading", "reconnecting", "offline"}
  PROVE  BrowserInv'
<1>1. \A s \in SocketIds : sockets'[s] \notin {"connecting", "open"}
  BY ClosingCloses DEF CleanUp
<1> QED
  BY <1>1, ClosingCloses DEF CleanUp, BrowserInv, BrowserTypes, EventIsCurrent, LiveIsOnline, OneSocket

(* Every step keeps the invariant. *)
LEMMA BrowserStep == BrowserInv /\ [BrowserNext]_browserVars => BrowserInv'
<1> SUFFICES ASSUME BrowserInv, [BrowserNext]_browserVars PROVE BrowserInv'
  OBVIOUS
<1>0. transport \in {"loading", "connecting", "live", "reconnecting", "error", "offline"}
  BY DEF BrowserInv, BrowserTypes
<1>1. CASE Hydrated
  BY <1>0, <1>1, ConnectKeeps DEF Hydrated
<1>2. CASE HydrateFails
  BY <1>2, ConnectKeeps DEF HydrateFails
<1>3. CASE TimerFires
  <2>1. CASE mounted /\ online
    BY <1>0, <1>3, <2>1, ConnectKeeps DEF TimerFires
  <2>2. CASE ~(mounted /\ online)
    BY <1>3, <2>2 DEF TimerFires, BrowserInv, BrowserTypes, EventIsCurrent, LiveIsOnline, OneSocket
  <2> QED BY <2>1, <2>2
<1>4. CASE Switch
  BY <1>4 DEF Switch, Trouble, NoEvent, BrowserInv, BrowserTypes, EventIsCurrent, LiveIsOnline, OneSocket
<1>5. CASE HandleOffline
  <2>1. CASE mounted
    <3>1. \A s \in SocketIds : sockets'[s] \notin {"connecting", "open"}
      BY <1>5, <2>1, ClosingCloses DEF HandleOffline
    <3> QED BY <1>5, <2>1, <3>1, ClosingCloses DEF HandleOffline, NoEvent,
              BrowserInv, BrowserTypes, EventIsCurrent, LiveIsOnline, OneSocket
  <2>2. CASE ~mounted
    BY <1>5, <2>2 DEF HandleOffline, NoEvent,
       BrowserInv, BrowserTypes, EventIsCurrent, LiveIsOnline, OneSocket
  <2> QED BY <2>1, <2>2
<1>6. CASE HandleOnline
  BY <1>6 DEF HandleOnline, NoEvent,
     BrowserInv, BrowserTypes, EventIsCurrent, LiveIsOnline, OneSocket
<1>7. CASE Retry
  <2>1. mounted' \in BOOLEAN /\ transport' \in {"loading", "reconnecting", "offline"}
    BY <1>7 DEF Retry, BrowserInv, BrowserTypes
  <2> QED BY <1>7, <2>1, CleanUpKeeps DEF Retry
<1>8. CASE Unmount
  BY <1>8, CleanUpKeeps DEF Unmount
<1>9. ASSUME NEW s \in SocketIds, Opened(s) PROVE BrowserInv'
  <2>1. s = current /\ online /\ transport' = "live" /\ UNCHANGED <<online, event, mounted, timer, current>>
    BY <1>9 DEF Opened, BrowserInv, OneSocket
  <2>2. sockets' = [sockets EXCEPT ![s] = "open"]
    BY <1>9 DEF Opened
  <2>3. s # NoSocket
    BY DEF SocketIds, NoSocket
  <2> QED BY <2>1, <2>2, <2>3 DEF BrowserInv, BrowserTypes, EventIsCurrent, LiveIsOnline, OneSocket
<1>10. ASSUME NEW s \in SocketIds, CloseCompletes(s) \/ Broken(s) PROVE BrowserInv'
  BY <1>10, CloseKeeps DEF CloseCompletes, Broken
<1>11. CASE UNCHANGED browserVars
  BY <1>11 DEF browserVars, BrowserInv, BrowserTypes, EventIsCurrent, LiveIsOnline, OneSocket
<1> QED
  BY <1>1, <1>2, <1>3, <1>4, <1>5, <1>6, <1>7, <1>8, <1>9, <1>10, <1>11 DEF BrowserNext

(* Whatever effects, retries, late answers, timers and network events run  *)
(* into each other, the page has one socket, and says live only of an open *)
(* one.                                                                    *)
THEOREM PageHasOneSocket == BrowserSpec => []OneSocket
<1>1. BrowserInit => BrowserInv
  BY DEF BrowserInit, NoEvent, NoSocket, SocketIds,
     BrowserInv, BrowserTypes, EventIsCurrent, LiveIsOnline, OneSocket
<1>2. BrowserInv => OneSocket
  BY DEF BrowserInv
<1> QED BY <1>1, <1>2, BrowserStep, PTL DEF BrowserSpec

-----------------------------------------------------------------------------
(* The mini app. *)

(* How far a run may have come, what may be shown, and the types. *)
Steps == {"none", "web", "left"} \cup Waiting \cup Verifying \cup {"shown"}

Values == {Detecting, RegularWeb} \cup {MiniAppShown(r) : r \in Runs \cup {None}}

MiniAppTypes ==
  /\ hinted \in BOOLEAN /\ shared \in BOOLEAN
  /\ run \in Runs \cup {None} /\ started \in Runs
  /\ step \in [Runs -> Steps] /\ value \in Values
  /\ insets \in Runs \cup {None} /\ saved \in [Runs -> Runs \cup {None}]
  /\ ready \in [Runs -> {"none", "pending", "done"}] /\ readied \in [Runs -> Nat]
  /\ token \in [Runs -> BOOLEAN] /\ signIns \in [Runs -> Nat]

(* A call of the host is counted from when it is made until it is known to *)
(* have failed; with OncePerSdk, a call is made only when none is counted. *)
ReadyIsCounted == \A k \in Runs : ready[k] = "none" => readied[k] = 0

(* The current run has not decided while it waits for the host, and has    *)
(* not set the safe area before it knew the context; what it found set     *)
(* when it did was nothing, so that removing it leaves nothing; and it     *)
(* asks for the FID only when its SDK is ready.                            *)
RunsInOrder == run # None =>
  /\ step[run] \in Waiting => value = Detecting
  /\ step[run] \in {"load", "detect", "context"} => insets = None
  /\ insets = run => saved[run] = None
  /\ step[run] \in Verifying \cup {"shown"} => ready[Sdk(run)] = "done"

(* The inductive invariant. *)
MiniAppInv ==
  MiniAppTypes /\ ReadyIsCounted /\ OncePerSdk /\ RunsInOrder /\ ShowsOwnRun

(* What the values the page may have say. *)
LEMMA StateFacts ==
  /\ Detecting.state = "detecting" /\ Detecting.fid = None
  /\ RegularWeb.state = "regular-web" /\ RegularWeb.fid = None
  /\ \A r : MiniAppShown(r).state = "miniapp" /\ MiniAppShown(r).fid = r
  BY DEF Detecting, RegularWeb, MiniAppShown

(* The run whose SDK a run has. *)
LEMMA SdkIsRun == ASSUME MiniAppTypes, NEW r \in Runs PROVE Sdk(r) \in Runs
  BY MiniAppAssumption DEF Sdk, Runs, MiniAppTypes

(* Every step keeps the invariant. *)
LEMMA MiniAppStep == MiniAppInv /\ [MiniAppNext]_miniAppVars => MiniAppInv'
<1> SUFFICES ASSUME MiniAppInv, [MiniAppNext]_miniAppVars PROVE MiniAppInv'
  OBVIOUS
<1> USE DEF None, Waiting, Verifying, Steps, Values, Runs, Sdk, authVars,
        MiniAppInv, MiniAppTypes, ReadyIsCounted, OncePerSdk, RunsInOrder, ShowsOwnRun
<1>1. ASSUME NEW r \in Runs, Loaded(r) PROVE MiniAppInv'
  BY <1>1, StateFacts DEF Loaded, Cancelled
<1>2. ASSUME NEW r \in Runs, ContextRead(r) PROVE MiniAppInv'
  <2>0. /\ step[r] = "context"
        /\ UNCHANGED <<hinted, shared, run, started, value, ready, readied, token, signIns>>
    BY <1>2 DEF ContextRead
  <2>1. CASE Cancelled(r)
    <3>1. step' = [step EXCEPT ![r] = "left"] /\ UNCHANGED <<insets, saved>> /\ r # run
      BY <1>2, <2>1 DEF ContextRead, Cancelled
    <3> QED BY <2>0, <3>1, StateFacts
  <2>2. CASE ~Cancelled(r)
    <3>1. /\ r = run /\ value = Detecting /\ insets = None /\ insets' = r
          /\ step' = [step EXCEPT ![r] = "frames"] /\ saved' = [saved EXCEPT ![r] = None]
      BY <1>2, <2>0, <2>2 DEF ContextRead, Cancelled
    <3>2. MiniAppTypes' /\ ReadyIsCounted' /\ OncePerSdk'
      BY <2>0, <3>1
    <3>3. RunsInOrder' /\ ShowsOwnRun'
      BY <2>0, <3>1, StateFacts
    <3> QED BY <3>2, <3>3
  <2> QED BY <2>1, <2>2
<1>3. ASSUME NEW r \in Runs, FramesPassed(r) PROVE MiniAppInv'
  <2>0. step[r] = "frames" /\ UNCHANGED <<hinted, shared, run, started, value, insets, saved, token, signIns>>
    BY <1>3 DEF FramesPassed
  <2>1. CASE Cancelled(r)
    <3>1. step' = [step EXCEPT ![r] = "left"] /\ UNCHANGED <<ready, readied>> /\ r # run
      BY <1>3, <2>1 DEF FramesPassed, Cancelled
    <3> QED BY <2>0, <3>1, StateFacts
  <2>2. CASE ~Cancelled(r) /\ Attempted(Sdk(r))
    <3>1. step' = [step EXCEPT ![r] = "ready"] /\ UNCHANGED <<ready, readied>> /\ r = run
      BY <1>3, <2>2, Zenon DEF FramesPassed, Cancelled
    <3> QED BY <2>0, <3>1, StateFacts
  <2>3. CASE ~Cancelled(r) /\ ~Attempted(Sdk(r))
    <3> DEFINE k == Sdk(r)
    <3>1. /\ r = run /\ k \in Runs /\ readied[k] = 0 /\ value = Detecting
          /\ step' = [step EXCEPT ![r] = "ready"]
          /\ ready' = [ready EXCEPT ![k] = "pending"] /\ readied' = [readied EXCEPT ![k] = @ + 1]
          /\ UNCHANGED <<hinted, shared, run, started, value, insets, saved, token, signIns>>
      BY <1>3, <2>3, SdkIsRun DEF FramesPassed, Cancelled, Attempted
    <3> HIDE DEF k
    <3>2. MiniAppTypes' /\ ReadyIsCounted' /\ OncePerSdk'
      BY <3>1
    <3>3. RunsInOrder' /\ ShowsOwnRun'
      BY <3>1, StateFacts
    <3> QED BY <3>2, <3>3
  <2> QED BY <2>1, <2>2, <2>3
<1>4. ASSUME NEW r \in Runs, WaitFails(r) PROVE MiniAppInv'
  BY <1>4, StateFacts DEF WaitFails, Recover, Restored, Cancelled
<1>5. ASSUME NEW r \in Runs, Show(r) PROVE MiniAppInv'
  <2>1. CASE Cancelled(r)
    <3>1. /\ r # run /\ step' = [step EXCEPT ![r] = "left"]
          /\ UNCHANGED <<hinted, shared, run, started, value, insets, saved, ready, readied, token, signIns>>
      BY <1>5, <2>1 DEF Show, Cancelled
    <3> QED BY <3>1, StateFacts
  <2>2. CASE ~Cancelled(r)
    <3> DEFINE k == Sdk(r)
    <3>1. /\ r = run /\ k \in Runs /\ ready[k] = "done" /\ value' = MiniAppShown(None)
          /\ UNCHANGED <<hinted, shared, run, started, insets, saved, ready, readied, token>>
      BY <1>5, <2>2, SdkIsRun DEF Show, Cancelled
    <3>0. PICK st \in {"fetch", "token"} : step' = [step EXCEPT ![r] = st]
      <4>1. CASE token[k]
        BY <1>5, <2>2, <4>1 DEF Show
      <4>2. CASE ~token[k]
        BY <1>5, <2>2, <4>2 DEF Show
      <4> QED BY <4>1, <4>2
    <3>2. \/ signIns' = signIns
          \/ signIns[k] = 0 /\ signIns' = [signIns EXCEPT ![k] = @ + 1]
      BY <1>5, <2>2, <3>1 DEF Show, PendingToken
    <3>3. ready[Sdk(run)] = "done"
      BY <3>1
    <3> HIDE DEF k
    <3>4. MiniAppTypes' /\ ReadyIsCounted' /\ OncePerSdk'
      <4>1. value' \in Values /\ step' \in [Runs -> Steps]
        BY <3>0, <3>1
      <4>2. signIns' \in [Runs -> Nat] /\ \A x \in Runs : signIns'[x] <= 1
        <5>1. signIns \in [Runs -> Nat] /\ (\A x \in Runs : signIns[x] <= 1) /\ k \in Runs
          BY <3>1
        <5> HIDE DEF MiniAppInv, Runs
        <5>2. CASE signIns' = signIns
          BY <5>1, <5>2
        <5>3. CASE signIns[k] = 0 /\ signIns' = [signIns EXCEPT ![k] = @ + 1]
          BY <5>1, <5>3
        <5> QED BY <3>2, <5>2, <5>3
      <4>3. \A x \in Runs : signIns'[x] <= 1 /\ readied'[x] <= 1
        BY <3>1, <4>2
      <4>4. MiniAppTypes'
        BY <3>1, <4>1, <4>2
      <4> QED BY <3>1, <4>3, <4>4
    <3>5. RunsInOrder' /\ ShowsOwnRun'
      BY <3>0, <3>1, <3>3, StateFacts
    <3> QED BY <3>4, <3>5
  <2> QED BY <2>1, <2>2
<1>6. ASSUME NEW k \in Runs, HostReady(k) PROVE MiniAppInv'
  BY <1>6, StateFacts DEF HostReady
<1>7. ASSUME NEW k \in Runs, ReadyFails(k) PROVE MiniAppInv'
  BY <1>7, StateFacts DEF ReadyFails, Cancelled, Restored
<1>8. ASSUME NEW k \in Runs, TokenExpires(k) PROVE MiniAppInv'
  BY <1>8, StateFacts DEF TokenExpires
<1>9. ASSUME NEW k \in Runs, NEW verified \in BOOLEAN, SignedIn(k, verified) PROVE MiniAppInv'
  BY <1>9, StateFacts DEF SignedIn
<1>10. ASSUME NEW r \in Runs, NEW verified \in BOOLEAN, Fetched(r, verified) PROVE MiniAppInv'
  <2>0. /\ step[r] = "fetch" /\ step' = [step EXCEPT ![r] = "shown"]
        /\ UNCHANGED <<hinted, shared, run, started, insets, saved, ready, readied, token, signIns>>
    BY <1>10 DEF Fetched
  <2>1. CASE value' = value
    BY <2>0, <2>1, StateFacts
  <2>2. CASE r = run /\ value' = MiniAppShown(r)
    <3>1. ready[Sdk(run)] = "done"
      BY <2>0, <2>2
    <3> QED BY <2>0, <2>2, <3>1, StateFacts
  <2> QED BY <1>10, <2>1, <2>2 DEF Fetched, Cancelled
<1>11. ASSUME NEW again \in BOOLEAN, Rerun(again) PROVE MiniAppInv'
  <2>1. insets' = None
    BY <1>11 DEF Rerun, Restored
  <2>2. CASE again
    <3>1. /\ run' = started + 1 /\ started' = started + 1 /\ started + 1 \in Runs
          /\ step' = [step EXCEPT ![started + 1] = FirstStep] /\ value' = FirstValue
          /\ UNCHANGED <<hinted, shared, saved, ready, readied, token, signIns>>
      BY <1>11, <2>2, MiniAppAssumption DEF Rerun
    <3>2. \/ FirstStep = "load" /\ FirstValue = Detecting
          \/ FirstStep = "web" /\ FirstValue = RegularWeb
      BY DEF FirstStep, FirstValue
    <3>3. MiniAppTypes' /\ ReadyIsCounted' /\ OncePerSdk'
      BY <2>1, <3>1, <3>2
    <3>4. step'[run'] = FirstStep
      BY <3>1
    <3>5. RunsInOrder'
      <4>1. FirstStep \notin Verifying \cup {"shown"} /\ (FirstStep \in Waiting => FirstValue = Detecting)
        BY <3>2
      <4>2. run' # None /\ insets' # run'
        BY <2>1, <3>1
      <4> QED BY <2>1, <3>1, <3>4, <4>1, <4>2
    <3>6. ShowsOwnRun'
      BY <2>1, <3>1, <3>2, StateFacts
    <3> QED BY <3>3, <3>5, <3>6
  <2>3. CASE ~again
    BY <1>11, <2>1, <2>3 DEF Rerun
  <2> QED BY <2>2, <2>3
<1>12. CASE UNCHANGED miniAppVars
  BY <1>12 DEF miniAppVars
<1> QED
  BY <1>1, <1>2, <1>3, <1>4, <1>5, <1>6, <1>7, <1>8, <1>9, <1>10, <1>11, <1>12 DEF MiniAppNext

(* It holds in the first state. *)
LEMMA MiniAppStarts == MiniAppInit => MiniAppInv
  BY StateFacts, MiniAppAssumption DEF MiniAppInit, FirstStep, FirstValue, None, Waiting, Verifying,
     MiniAppInv, MiniAppTypes, ReadyIsCounted, OncePerSdk,
     RunsInOrder, ShowsOwnRun, Steps, Values, authVars, Runs, Sdk

(* Whatever an earlier run of the effect still does, the page shows what   *)
(* the current run found out.                                              *)
THEOREM PageShowsOwnRun == MiniAppSpec => []ShowsOwnRun
<1>1. MiniAppInv => ShowsOwnRun
  BY DEF MiniAppInv
<1> QED BY <1>1, MiniAppStarts, MiniAppStep, PTL DEF MiniAppSpec

(* However often the effect runs, each SDK's host is told once that the    *)
(* page is ready, and asked for one sign in at a time.                     *)
THEOREM HostIsAskedOnce == MiniAppSpec => []OncePerSdk
<1>1. MiniAppInv => OncePerSdk
  BY DEF MiniAppInv
<1> QED BY <1>1, MiniAppStarts, MiniAppStep, PTL DEF MiniAppSpec
==============================================================================
