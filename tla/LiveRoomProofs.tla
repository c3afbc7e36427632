--------------------------- MODULE LiveRoomProofs ---------------------------
(***************************************************************************)
(* LiveRoom, for any number of pulses, snapshots, requests and browsers    *)
(* and any bound.  The argument goes from the room to the browsers:        *)
(*                                                                         *)
(*   Numbered, by the sequence in memory being the persisted one           *)
(*     (RoomTypes), through crashes and hibernation;                       *)
(*   ClaimsAreHeld, by which a packet has no id twice (PacketsArePacked);  *)
(*   RemembersShown, of a browser that remembers enough ids;               *)
(*   AiredOnce and GetsOnce, as long as nothing goes wrong in the room:    *)
(*     then no delivery is broadcast twice, and no packet is dropped.      *)
(*                                                                         *)
(* Each step is, for one browser, one of the cases of SocketCases.         *)
(***************************************************************************)
EXTENDS LiveRoom, FiniteSetTheorems, SequenceTheorems, TLAPS

-----------------------------------------------------------------------------
(* Sequences without repetition. *)

(* No two elements of s are the same. *)
Distinct(s) == \A i, j \in DOMAIN s : i # j => s[i] # s[j]

(* An element is appended. *)
LEMMA AppendFacts ==
  ASSUME NEW S, NEW s \in Seq(S), NEW x \in S
  PROVE  /\ Append(s, x) \in Seq(S) /\ ToSet(Append(s, x)) = ToSet(s) \cup {x}
         /\ DOMAIN Append(s, x) = DOMAIN s \cup {Len(s) + 1} /\ Len(s) + 1 \notin DOMAIN s
         /\ \A i \in DOMAIN s : Append(s, x)[i] = s[i]
         /\ Append(s, x)[Len(s) + 1] = x
         /\ \A i \in DOMAIN s : i \in Nat /\ i < Len(s) + 1 /\ s[i] \in S
         /\ Distinct(s) /\ x \notin ToSet(s) => Distinct(Append(s, x))
<1>1. /\ Append(s, x) \in Seq(S) /\ Len(Append(s, x)) = Len(s) + 1
      /\ \A i \in 1 .. Len(s) : Append(s, x)[i] = s[i]
      /\ Append(s, x)[Len(s) + 1] = x
  BY AppendProperties
<1>2. DOMAIN s = 1 .. Len(s) /\ DOMAIN Append(s, x) = 1 .. (Len(s) + 1) /\ Len(s) \in Nat
  BY <1>1, LenProperties
<1>3. DOMAIN Append(s, x) = DOMAIN s \cup {Len(s) + 1} /\ Len(s) + 1 \notin DOMAIN s
  BY <1>2
<1>4. ToSet(Append(s, x)) = ToSet(s) \cup {x}
  BY <1>1, <1>2, <1>3 DEF ToSet
<1>5. Distinct(s) /\ x \notin ToSet(s) => Distinct(Append(s, x))
  BY <1>1, <1>2, <1>3 DEF Distinct, ToSet
<1>6. \A i \in DOMAIN s : i \in Nat /\ i < Len(s) + 1 /\ s[i] \in S
  BY <1>2, ElementOfSeq
<1> QED BY <1>1, <1>2, <1>3, <1>4, <1>5, <1>6

(* One sequence follows another. *)
LEMMA ConcatFacts ==
  ASSUME NEW S, NEW s \in Seq(S), NEW t \in Seq(S)
  PROVE  /\ s \o t \in Seq(S) /\ ToSet(s \o t) = ToSet(s) \cup ToSet(t)
         /\ Distinct(s) /\ Distinct(t) /\ ToSet(s) \cap ToSet(t) = {} => Distinct(s \o t)
<1> DEFINE m == Len(s) n == Len(t) u == s \o t
<1>1. /\ u \in Seq(S) /\ Len(u) = m + n
      /\ \A i \in 1 .. m + n : u[i] = IF i <= m THEN s[i] ELSE t[i - m]
  BY ConcatProperties
<1>2. /\ DOMAIN s = 1 .. m /\ DOMAIN t = 1 .. n /\ DOMAIN u = 1 .. m + n
      /\ m \in Nat /\ n \in Nat
  BY <1>1, LenProperties
<1> HIDE DEF m, n, u
<1>3. \A i \in 1 .. m : i \in 1 .. m + n /\ u[i] = s[i]
  BY <1>1, <1>2
<1>4. \A i \in 1 .. n : m + i \in 1 .. m + n /\ u[m + i] = t[i]
  BY <1>1, <1>2
<1>5. \A i \in 1 .. m + n : i \in 1 .. m \/ \E j \in 1 .. n : i = m + j
  <2>1. ASSUME NEW i \in 1 .. m + n, i \notin 1 .. m PROVE i - m \in 1 .. n /\ i = m + (i - m)
    BY <1>2, <2>1
  <2> QED BY <2>1
<1>6. ToSet(u) = ToSet(s) \cup ToSet(t)
  <2>1. ToSet(s) = {s[i] : i \in 1 .. m} /\ ToSet(t) = {t[i] : i \in 1 .. n} /\ ToSet(u) = {u[i] : i \in 1 .. m + n}
    BY <1>2 DEF ToSet
  <2>2. \A x \in ToSet(u) : x \in ToSet(s) \/ x \in ToSet(t)
    BY <1>3, <1>4, <1>5, <2>1
  <2>3. \A x : x \in ToSet(s) \/ x \in ToSet(t) => x \in ToSet(u)
    BY <1>3, <1>4, <2>1
  <2> QED BY <2>2, <2>3
<1>7. ASSUME Distinct(s), Distinct(t), ToSet(s) \cap ToSet(t) = {} PROVE Distinct(u)
  <2> SUFFICES ASSUME NEW i \in 1 .. m + n, NEW j \in 1 .. m + n, i # j PROVE u[i] # u[j]
    BY <1>2 DEF Distinct
  <2>1. \A k \in 1 .. m, l \in 1 .. n : s[k] # t[l]
    BY <1>2, <1>7 DEF ToSet
  <2>2. CASE i \in 1 .. m /\ j \in 1 .. m
    BY <1>2, <1>3, <1>7, <2>2 DEF Distinct
  <2>3. CASE i \in 1 .. m /\ \E l \in 1 .. n : j = m + l
    BY <1>3, <1>4, <2>1, <2>3
  <2>4. CASE j \in 1 .. m /\ \E l \in 1 .. n : i = m + l
    BY <1>3, <1>4, <2>1, <2>4
  <2>5. ASSUME NEW k \in 1 .. n, NEW l \in 1 .. n, i = m + k, j = m + l PROVE u[i] # u[j]
    <3>1. u[i] = t[k] /\ u[j] = t[l] /\ k # l
      BY <1>4, <2>5
    <3> QED BY <1>2, <1>7, <3>1 DEF Distinct
  <2> QED BY <1>5, <2>2, <2>3, <2>4, <2>5
<1> QED BY <1>1, <1>6, <1>7 DEF u

(* A sequence without repetition is no longer than its set is large. *)
LEMMA DistinctIsShort ==
  ASSUME NEW S, IsFiniteSet(S), NEW s \in Seq(S), Distinct(s)
  PROVE  Len(s) <= Cardinality(S)
<1>1. s \in Injection(1 .. Len(s), S)
  <2>1. DOMAIN s = 1 .. Len(s) /\ s \in [1 .. Len(s) -> S]
    BY LenProperties
  <2> QED BY <2>1 DEF Distinct, Injection, IsInjective
<1>2. Cardinality(1 .. Len(s)) <= Cardinality(S)
  BY <1>1, FS_Injection
<1>3. Cardinality(1 .. Len(s)) = Len(s)
  <2>1. Len(s) \in Nat
    BY LenProperties
  <2>2. ASSUME NEW n \in Nat PROVE Cardinality(1 .. n) = n
    <3>1. 1 \in Int /\ n \in Int
      OBVIOUS
    <3>2. Cardinality(1 .. n) = IF 1 > n THEN 0 ELSE n - 1 + 1
      BY <3>1, FS_Interval
    <3> QED BY <3>2
  <2> QED BY <2>1, <2>2
<1> QED BY <1>2, <1>3

(* How often an element is in a sequence. *)
LEMMA CountFacts ==
  ASSUME NEW S, NEW s \in Seq(S), NEW x
  PROVE  LET n == Cardinality({i \in DOMAIN s : s[i] = x})
         IN  /\ n \in Nat /\ (x \notin ToSet(s) => n = 0) /\ (x \in ToSet(s) => n > 0)
             /\ Distinct(s) => n = IF x \in ToSet(s) THEN 1 ELSE 0
<1> DEFINE C == {i \in DOMAIN s : s[i] = x}
<1>1. DOMAIN s = 1 .. Len(s) /\ Len(s) \in Nat
  BY LenProperties
<1>2. IsFiniteSet(C)
  <2>1. IsFiniteSet(1 .. Len(s)) /\ C \subseteq 1 .. Len(s)
    BY <1>1, FS_Interval
  <2> QED BY <2>1, FS_Subset
<1>3. Cardinality(C) \in Nat
  BY <1>2, FS_CardinalityType
<1>4. Cardinality(C) = 0 <=> C = {}
  BY <1>2, FS_EmptySet
<1>5. x \in ToSet(s) <=> C # {}
  BY DEF ToSet
<1>6. ASSUME Distinct(s), NEW i \in C PROVE Cardinality(C) = 1
  <2>1. C = {i}
    BY <1>6 DEF Distinct
  <2> QED BY <2>1, FS_Singleton
<1> QED BY <1>3, <1>4, <1>5, <1>6

(* What a browser remembers of a sequence. *)
LEMMA RememberedFacts ==
  ASSUME NEW S, NEW s \in Seq(S)
  PROVE  /\ Remembered(s) \in Seq(S) /\ ToSet(Remembered(s)) \subseteq ToSet(s)
         /\ Len(s) <= SeenLimit => Remembered(s) = s
<1>1. CASE Len(s) <= SeenLimit
  BY <1>1 DEF Remembered
<1>2. CASE ~(Len(s) <= SeenLimit)
  <2> DEFINE m == Len(s) - SeenLimit + 1 n == Len(s)
  <2>1. n \in Nat /\ SeenLimit \in Nat /\ m \in 1 .. n + 1 /\ m \in Nat
    BY <1>2, LenProperties, ConstantsAssumption
  <2>2. DOMAIN s = 1 .. n /\ \A i \in 1 .. n : s[i] \in S
    BY LenProperties, ElementOfSeq
  <2> HIDE DEF m, n
  <2>3. /\ SubSeq(s, m, n) \in Seq(S)
        /\ Len(SubSeq(s, m, n)) = IF m <= n THEN n - m + 1 ELSE 0
        /\ \A i \in 1 .. n - m + 1 : SubSeq(s, m, n)[i] = s[m + i - 1]
    BY <2>1, <2>2, SubSeqProperties DEF n
  <2>4. DOMAIN SubSeq(s, m, n) = 1 .. Len(SubSeq(s, m, n))
    BY <2>3, LenProperties
  <2>5. \A i \in DOMAIN SubSeq(s, m, n) : i \in 1 .. n - m + 1 /\ m + i - 1 \in DOMAIN s
    BY <2>1, <2>2, <2>3, <2>4
  <2>6. ToSet(SubSeq(s, m, n)) \subseteq ToSet(s)
    BY <2>3, <2>5 DEF ToSet
  <2> QED BY <1>2, <2>3, <2>6 DEF Remembered, m, n
<1> QED BY <1>1, <1>2

-----------------------------------------------------------------------------
(* What is on the way to a browser. *)

(* An envelope: its number and its delivery ids. *)
Envelopes == [seq : Nat, ids : Seq(Deliveries)]

(* The envelopes of c are numbered in order, from first to last at most. *)
InOrder(c, first, last) ==
  /\ \A i \in DOMAIN c : first <= c[i].seq /\ c[i].seq <= last
  /\ \A i, j \in DOMAIN c : i < j => c[i].seq < c[j].seq

(* No packet of c has an id twice. *)
Packed(c) == \A i \in DOMAIN c : Distinct(c[i].ids)

(* The ids in c. *)
IdsOf(c) == UNION {ToSet(c[i].ids) : i \in DOMAIN c}

(* The ids in c are in one envelope each, and not in S. *)
Apart(c, S) ==
  /\ IdsOf(c) \cap S = {}
  /\ \A i, j \in DOMAIN c : i # j => ToSet(c[i].ids) \cap ToSet(c[j].ids) = {}

(* An envelope is sent. *)
LEMMA SendFacts ==
  ASSUME NEW c \in Seq(Envelopes), NEW e \in Envelopes
  PROVE  /\ Append(c, e) \in Seq(Envelopes)
         /\ \A first, last \in Nat : InOrder(c, first, last) /\ first <= e.seq /\ last < e.seq
              => InOrder(Append(c, e), first, e.seq)
         /\ Packed(c) /\ Distinct(e.ids) => Packed(Append(c, e))
         /\ IdsOf(Append(c, e)) = IdsOf(c) \cup ToSet(e.ids)
         /\ \A S : Apart(c, S) /\ ToSet(e.ids) \cap (S \cup IdsOf(c)) = {} => Apart(Append(c, e), S)
<1> DEFINE n == Len(c) + 1 d == Append(c, e)
<1>1. /\ d \in Seq(Envelopes) /\ DOMAIN d = DOMAIN c \cup {n} /\ n \notin DOMAIN c
      /\ \A i \in DOMAIN c : d[i] = c[i] /\ i \in Nat /\ i < n /\ c[i] \in Envelopes
      /\ d[n] = e /\ n \in Nat
  BY AppendFacts, LenProperties
<1> HIDE DEF n, d
<1>2. ASSUME NEW first \in Nat, NEW last \in Nat, InOrder(c, first, last), first <= e.seq, last < e.seq
      PROVE  InOrder(d, first, e.seq)
  <2>1. ASSUME NEW i \in DOMAIN d PROVE first <= d[i].seq /\ d[i].seq <= e.seq
    BY <1>1, <1>2, <2>1 DEF InOrder, Envelopes
  <2>2. ASSUME NEW i \in DOMAIN d, NEW j \in DOMAIN d, i < j PROVE d[i].seq < d[j].seq
    <3>1. i \in DOMAIN c
      BY <1>1, <2>2
    <3>2. CASE j \in DOMAIN c
      BY <1>1, <1>2, <2>2, <3>1, <3>2 DEF InOrder
    <3>3. CASE j = n
      BY <1>1, <1>2, <3>1, <3>3 DEF InOrder, Envelopes
    <3> QED BY <1>1, <3>2, <3>3
  <2> QED BY <2>1, <2>2 DEF InOrder
<1>3. Packed(c) /\ Distinct(e.ids) => Packed(d)
  BY <1>1 DEF Packed
<1>4. IdsOf(d) = IdsOf(c) \cup ToSet(e.ids)
  BY <1>1 DEF IdsOf
<1>5. ASSUME NEW S, Apart(c, S), ToSet(e.ids) \cap (S \cup IdsOf(c)) = {} PROVE Apart(d, S)
  <2>1. IdsOf(d) \cap S = {}
    BY <1>4, <1>5 DEF Apart
  <2>2. \A i \in DOMAIN c : ToSet(c[i].ids) \cap ToSet(e.ids) = {}
    BY <1>5 DEF IdsOf
  <2> QED BY <1>1, <1>5, <2>1, <2>2 DEF Apart
<1> QED BY <1>1, <1>2, <1>3, <1>4, <1>5 DEF d

(* The first envelope arrives. *)
LEMMA ArriveFacts ==
  ASSUME NEW c \in Seq(Envelopes), c # <<>>
  PROVE  /\ Head(c) \in Envelopes /\ Tail(c) \in Seq(Envelopes)
         /\ \A first, last \in Nat : InOrder(c, first, last)
              => /\ first <= Head(c).seq /\ Head(c).seq <= last
                 /\ InOrder(Tail(c), Head(c).seq + 1, last)
         /\ Packed(c) => Distinct(Head(c).ids) /\ Packed(Tail(c))
         /\ IdsOf(c) = ToSet(Head(c).ids) \cup IdsOf(Tail(c))
         /\ \A S : Apart(c, S) => /\ ToSet(Head(c).ids) \cap S = {}
                                  /\ Apart(Tail(c), S \cup ToSet(Head(c).ids))
<1> DEFINE h == Head(c) t == Tail(c) n == Len(c)
<1>1. /\ h \in Envelopes /\ t \in Seq(Envelopes) /\ h = c[1]
      /\ n \in Nat \ {0} /\ DOMAIN c = 1 .. n /\ DOMAIN t = 1 .. n - 1
      /\ \A i \in 1 .. n - 1 : t[i] = c[i + 1]
      /\ \A i \in 1 .. n : c[i] \in Envelopes
  <2>1. h \in Envelopes /\ t \in Seq(Envelopes) /\ Len(t) = n - 1 /\ \A i \in 1 .. Len(t) : t[i] = c[i + 1]
    BY HeadTailProperties
  <2>2. n \in Nat \ {0} /\ DOMAIN c = 1 .. n
    BY LenProperties, EmptySeq
  <2>3. DOMAIN t = 1 .. Len(t)
    BY <2>1, LenProperties
  <2>4. \A i \in 1 .. n : c[i] \in Envelopes
    BY <2>2, ElementOfSeq
  <2> QED BY <2>1, <2>2, <2>3, <2>4
<1> HIDE DEF h, t, n
<1>2. /\ \A i \in DOMAIN t : i + 1 \in DOMAIN c /\ i + 1 # 1 /\ t[i] = c[i + 1] /\ i \in Nat
      /\ 1 \in DOMAIN c
      /\ \A i \in DOMAIN c : i = 1 \/ \E j \in DOMAIN t : i = j + 1
  <2>1. \A i \in DOMAIN c : i = 1 \/ (i - 1 \in DOMAIN t /\ i = (i - 1) + 1)
    BY <1>1
  <2> QED BY <1>1, <2>1
<1>3. ASSUME NEW first \in Nat, NEW last \in Nat, InOrder(c, first, last)
      PROVE  first <= h.seq /\ h.seq <= last /\ InOrder(t, h.seq + 1, last)
  <2>1. first <= h.seq /\ h.seq <= last
    BY <1>1, <1>2, <1>3 DEF InOrder
  <2>2. ASSUME NEW i \in DOMAIN t PROVE h.seq + 1 <= t[i].seq /\ t[i].seq <= last
    <3>1. i \in Nat /\ i + 1 \in DOMAIN c /\ i + 1 # 1 /\ t[i] = c[i + 1] /\ 1 \in DOMAIN c /\ h = c[1]
      BY <1>1, <1>2
    <3>2. 1 < i + 1
      BY <3>1
    <3>3. /\ \A k, l \in DOMAIN c : k < l => c[k].seq < c[l].seq
          /\ \A k \in DOMAIN c : c[k].seq <= last
      BY <1>3 DEF InOrder
    <3>4. h.seq < t[i].seq /\ t[i].seq <= last
      BY <3>1, <3>2, <3>3, Zenon
    <3>5. h.seq \in Nat /\ t[i].seq \in Nat
      BY <1>1, <3>1 DEF Envelopes
    <3> QED BY <3>4, <3>5
  <2>3. ASSUME NEW i \in DOMAIN t, NEW j \in DOMAIN t, i < j PROVE t[i].seq < t[j].seq
    <3>1. i \in Nat /\ j \in Nat /\ i + 1 \in DOMAIN c /\ j + 1 \in DOMAIN c /\ t[i] = c[i + 1] /\ t[j] = c[j + 1]
      BY <1>2
    <3>2. i + 1 < j + 1
      BY <2>3, <3>1
    <3>3. \A k, l \in DOMAIN c : k < l => c[k].seq < c[l].seq
      BY <1>3 DEF InOrder
    <3> QED BY <3>1, <3>2, <3>3, Zenon
  <2> QED BY <2>1, <2>2, <2>3 DEF InOrder
<1>4. Packed(c) => Distinct(h.ids) /\ Packed(t)
  BY <1>1, <1>2 DEF Packed
<1>5. IdsOf(c) = ToSet(h.ids) \cup IdsOf(t)
  <2>1. ASSUME NEW x \in IdsOf(c) PROVE x \in ToSet(h.ids) \cup IdsOf(t)
    <3>1. PICK i \in DOMAIN c : x \in ToSet(c[i].ids)
      BY DEF IdsOf
    <3> QED BY <1>1, <1>2, <3>1 DEF IdsOf
  <2>2. ASSUME NEW x \in ToSet(h.ids) \cup IdsOf(t) PROVE x \in IdsOf(c)
    BY <1>1, <1>2 DEF IdsOf
  <2> QED BY <2>1, <2>2
<1>6. ASSUME NEW S, Apart(c, S) PROVE ToSet(h.ids) \cap S = {} /\ Apart(t, S \cup ToSet(h.ids))
  <2>1. ToSet(h.ids) \cap S = {} /\ IdsOf(t) \cap S = {}
    BY <1>5, <1>6 DEF Apart
  <2>2. ASSUME NEW i \in DOMAIN t PROVE ToSet(t[i].ids) \cap ToSet(h.ids) = {}
    BY <1>1, <1>2, <1>6 DEF Apart
  <2>3. IdsOf(t) \cap ToSet(h.ids) = {}
    BY <2>2 DEF IdsOf
  <2>4. ASSUME NEW i \in DOMAIN t, NEW j \in DOMAIN t, i # j PROVE ToSet(t[i].ids) \cap ToSet(t[j].ids) = {}
    <3>1. i \in Nat /\ j \in Nat /\ i + 1 \in DOMAIN c /\ j + 1 \in DOMAIN c /\ t[i] = c[i + 1] /\ t[j] = c[j + 1]
      BY <1>2
    <3>2. i + 1 # j + 1
      BY <2>4, <3>1
    <3>3. \A k, l \in DOMAIN c : k # l => ToSet(c[k].ids) \cap ToSet(c[l].ids) = {}
      BY <1>6 DEF Apart
    <3> QED BY <3>1, <3>2, <3>3, Zenon
  <2> QED BY <2>1, <2>3, <2>4 DEF Apart
<1> QED BY <1>1, <1>3, <1>4, <1>5, <1>6 DEF h, t

-----------------------------------------------------------------------------
(* The types, and that the persisted sequence is the one in memory. *)
RoomTypes ==
  /\ clock \in Nat
  /\ request \in [Requests -> [id : Pulses \cup {NoDelivery}, done : BOOLEAN]]
  /\ claim \in [Deliveries -> {"new", "processing", "lapsed", "delivered"}]
  /\ sequence \in Nat /\ stored = sequence
  /\ pending \in Seq(Pulses)
  /\ admission \in [Browsers -> {Closed, "admitted", "hydrated", "open"}]
  /\ channel \in [Browsers -> Seq(Envelopes)]
  /\ lastSeq \in [Browsers -> Nat]
  /\ seen \in [Browsers -> Seq(Deliveries)]
  /\ shown \in [Browsers -> [Deliveries -> Nat]]
  /\ \A b \in Browsers : channel[b] # Offline => admission[b] = "open"
  /\ aired \subseteq Deliveries /\ owed \in [Browsers -> SUBSET Pulses]
  /\ spent \in [crashes : Nat, lapses : Nat, drops : Nat]

(* The packets that may be broadcast next. *)
Packet(ids) == (ids = pending /\ pending # <<>>) \/ \E d \in Snapshots : Claimable(d) /\ ids = <<d>>

(* What may happen to a browser: nothing, its socket is lost, it is sent   *)
(* the next envelope.                                                      *)
Kept(b) ==
  /\ UNCHANGED <<channel[b], lastSeq[b], seen[b], shown[b]>>
  /\ owed'[b] \subseteq owed[b]
Cut(b) ==
  /\ channel'[b] = <<>> /\ UNCHANGED <<lastSeq[b], seen[b], shown[b]>>
  /\ \A d \in owed'[b] : shown[b][d] > 0
Sent(b, ids) ==
  /\ channel'[b] = Append(channel[b], [seq |-> sequence', ids |-> ids])
  /\ UNCHANGED <<lastSeq[b], seen[b], shown[b]>>
  /\ owed'[b] \subseteq owed[b] \cup ToSet(ids)

(* The next sequence is larger than the last. *)
LEMMA NextIsLarger == ASSUME RoomTypes PROVE NextSequence \in Nat /\ NextSequence > sequence
  BY DEF RoomTypes, NextSequence

(* What is broadcast is sent to every open socket. *)
LEMMA BroadcastFacts ==
  ASSUME RoomTypes, NEW ids \in Seq(Deliveries), Broadcast(ids), UNCHANGED browser
  PROVE  /\ sequence' \in Nat /\ stored' = sequence' /\ sequence < sequence'
         /\ channel' \in [Browsers -> Seq(Envelopes)]
         /\ \A b \in Browsers : IF admission[b] = "open" THEN Sent(b, ids) ELSE Kept(b)
         /\ aired' = aired \cup ToSet(ids) /\ aired' \subseteq Deliveries
         /\ owed' \in [Browsers -> SUBSET Pulses]
         /\ \A b \in Browsers : owed'[b] = IF admission[b] = "open" THEN owed[b] \cup (ToSet(ids) \cap Pulses)
                                           ELSE owed[b]
<1>1. sequence' = NextSequence /\ stored' = sequence'
  BY DEF Broadcast, Persisted
<1>2. sequence' \in Nat /\ sequence < sequence' /\ sequence \in Nat
  BY <1>1, NextIsLarger DEF RoomTypes
<1> DEFINE e == [seq |-> sequence', ids |-> ids]
<1>3. e \in Envelopes
  BY <1>2 DEF Envelopes
<1>4. /\ channel' = [b \in Browsers |-> IF b \in Open THEN Append(channel[b], e) ELSE channel[b]]
      /\ aired' = aired \cup ToSet(ids)
      /\ owed' = [b \in Browsers |-> IF b \in Open THEN owed[b] \cup (ToSet(ids) \cap Pulses) ELSE owed[b]]
  BY DEF Broadcast
<1> HIDE DEF e
<1>5. ASSUME NEW b \in Browsers
      PROVE  /\ channel'[b] = IF admission[b] = "open" THEN Append(channel[b], e) ELSE channel[b]
             /\ channel'[b] \in Seq(Envelopes)
             /\ owed'[b] = IF admission[b] = "open" THEN owed[b] \cup (ToSet(ids) \cap Pulses) ELSE owed[b]
             /\ owed'[b] \subseteq Pulses
  <2>1. channel[b] \in Seq(Envelopes) /\ owed[b] \subseteq Pulses
    BY DEF RoomTypes
  <2>2. Append(channel[b], e) \in Seq(Envelopes)
    BY <1>3, <2>1, SendFacts
  <2> QED BY <1>4, <2>1, <2>2 DEF Open
<1>6. channel' \in [Browsers -> Seq(Envelopes)] /\ owed' \in [Browsers -> SUBSET Pulses]
  BY <1>4, <1>5
<1>7. ToSet(ids) \subseteq Deliveries
  <2>1. \A i \in DOMAIN ids : ids[i] \in Deliveries
    BY LenProperties, ElementOfSeq
  <2> QED BY <2>1 DEF ToSet
<1>8. aired' \subseteq Deliveries
  BY <1>4, <1>7 DEF RoomTypes
<1>9. ASSUME NEW b \in Browsers PROVE IF admission[b] = "open" THEN Sent(b, ids) ELSE Kept(b)
  BY <1>5 DEF Sent, Kept, browser, e
<1> QED BY <1>1, <1>2, <1>4, <1>5, <1>6, <1>8, <1>9

(* Every packet is a sequence of deliveries. *)
LEMMA PacketFacts == ASSUME RoomTypes, NEW ids, Packet(ids) PROVE ids \in Seq(Deliveries)
<1>1. pending \in Seq(Deliveries)
  BY SeqMonotonic DEF RoomTypes, Deliveries
<1>2. \A d \in Snapshots : <<d>> \in Seq(Deliveries)
  BY DEF Deliveries
<1> QED BY <1>1, <1>2 DEF Packet

(* A browser gets a message. *)
LEMMA ReceiveFacts ==
  ASSUME RoomTypes, NEW b \in Browsers, Receive(b)
  PROVE  LET e == Head(channel[b])
         IN  /\ channel[b] \in Seq(Envelopes) /\ channel[b] # <<>> /\ admission[b] = "open"
             /\ e \in Envelopes /\ channel' = [channel EXCEPT ![b] = Tail(channel[b])]
             /\ Tail(channel[b]) \in Seq(Envelopes)
             /\ IF lastSeq[b] <= e.seq /\ ToSet(e.ids) \cap ToSet(seen[b]) = {}
                THEN /\ lastSeq' = [lastSeq EXCEPT ![b] = e.seq + 1]
                     /\ seen' = [seen EXCEPT ![b] = Remembered(seen[b] \o e.ids)]
                     /\ Remembered(seen[b] \o e.ids) \in Seq(Deliveries)
                     /\ ToSet(seen'[b]) \subseteq ToSet(seen[b]) \cup ToSet(e.ids)
                     /\ shown' \in [Browsers -> [Deliveries -> Nat]]
                     /\ \A q \in Browsers \ {b} : shown'[q] = shown[q]
                     /\ \A d \in Deliveries :
                          /\ d \notin ToSet(e.ids) => shown'[b][d] = shown[b][d]
                          /\ d \in ToSet(e.ids) => shown'[b][d] > shown[b][d]
                          /\ d \in ToSet(e.ids) /\ Distinct(e.ids) => shown'[b][d] = shown[b][d] + 1
                ELSE UNCHANGED browser
<1> DEFINE e == Head(channel[b])
<1>1. channel[b] \in Seq(Envelopes) /\ channel[b] # <<>> /\ admission[b] = "open"
  BY DEF RoomTypes, Receive, Offline
<1>2. e \in Envelopes /\ Tail(channel[b]) \in Seq(Envelopes)
  BY <1>1, ArriveFacts
<1>3. /\ channel' = [channel EXCEPT ![b] = Tail(channel[b])]
      /\ ~(InSequence(b, e) /\ ~Duplicate(b, e)) => UNCHANGED browser
      /\ InSequence(b, e) /\ ~Duplicate(b, e) =>
           /\ lastSeq' = [lastSeq EXCEPT ![b] = e.seq + 1]
           /\ seen' = [seen EXCEPT ![b] = Remembered(@ \o e.ids)]
           /\ shown' = [shown EXCEPT ![b] = [d \in Deliveries |->
                           @[d] + Cardinality({i \in DOMAIN e.ids : e.ids[i] = d})]]
  BY DEF Receive
<1>4. /\ e.seq \in Nat /\ e.ids \in Seq(Deliveries)
      /\ lastSeq[b] \in Nat /\ seen[b] \in Seq(Deliveries) /\ shown[b] \in [Deliveries -> Nat]
  BY <1>2 DEF RoomTypes, Envelopes
<1> HIDE DEF e
<1>5. (lastSeq[b] <= e.seq /\ ToSet(e.ids) \cap ToSet(seen[b]) = {}) <=> InSequence(b, e) /\ ~Duplicate(b, e)
  BY <1>4 DEF InSequence, Duplicate
<1>6. ASSUME InSequence(b, e), ~Duplicate(b, e)
      PROVE  /\ lastSeq' = [lastSeq EXCEPT ![b] = e.seq + 1]
             /\ seen' = [seen EXCEPT ![b] = Remembered(seen[b] \o e.ids)]
             /\ Remembered(seen[b] \o e.ids) \in Seq(Deliveries)
             /\ ToSet(seen'[b]) \subseteq ToSet(seen[b]) \cup ToSet(e.ids)
             /\ shown' \in [Browsers -> [Deliveries -> Nat]]
             /\ \A q \in Browsers \ {b} : shown'[q] = shown[q]
             /\ \A d \in Deliveries :
                  /\ d \notin ToSet(e.ids) => shown'[b][d] = shown[b][d]
                  /\ d \in ToSet(e.ids) => shown'[b][d] > shown[b][d]
                  /\ d \in ToSet(e.ids) /\ Distinct(e.ids) => shown'[b][d] = shown[b][d] + 1
  <2>1. /\ lastSeq' = [lastSeq EXCEPT ![b] = e.seq + 1]
        /\ seen' = [seen EXCEPT ![b] = Remembered(seen[b] \o e.ids)]
        /\ shown' = [shown EXCEPT ![b] = [d \in Deliveries |->
                        shown[b][d] + Cardinality({i \in DOMAIN e.ids : e.ids[i] = d})]]
    BY <1>3, <1>6
  <2>2. seen[b] \o e.ids \in Seq(Deliveries) /\ ToSet(seen[b] \o e.ids) = ToSet(seen[b]) \cup ToSet(e.ids)
    BY <1>4, ConcatFacts
  <2>3. /\ Remembered(seen[b] \o e.ids) \in Seq(Deliveries)
        /\ ToSet(Remembered(seen[b] \o e.ids)) \subseteq ToSet(seen[b]) \cup ToSet(e.ids)
    BY <2>2, RememberedFacts
  <2>4. seen'[b] = Remembered(seen[b] \o e.ids)
    BY <2>1 DEF RoomTypes
  <2>5. ASSUME NEW d \in Deliveries
        PROVE  LET n == Cardinality({i \in DOMAIN e.ids : e.ids[i] = d})
               IN  /\ n \in Nat /\ (d \notin ToSet(e.ids) => n = 0) /\ (d \in ToSet(e.ids) => n > 0)
                   /\ Distinct(e.ids) => n = IF d \in ToSet(e.ids) THEN 1 ELSE 0
    BY <1>4, CountFacts
  <2> DEFINE N(d) == Cardinality({i \in DOMAIN e.ids : e.ids[i] = d})
  <2>6. shown' = [shown EXCEPT ![b] = [d \in Deliveries |-> shown[b][d] + N(d)]]
    BY <2>1
  <2>7. \A d \in Deliveries : /\ N(d) \in Nat /\ (d \notin ToSet(e.ids) => N(d) = 0) /\ (d \in ToSet(e.ids) => N(d) > 0)
                              /\ d \in ToSet(e.ids) /\ Distinct(e.ids) => N(d) = 1
    BY <2>5
  <2> HIDE DEF N
  <2>8. shown \in [Browsers -> [Deliveries -> Nat]]
    BY DEF RoomTypes
  <2>9. shown' \in [Browsers -> [Deliveries -> Nat]] /\ \A q \in Browsers \ {b} : shown'[q] = shown[q]
    BY <1>4, <2>6, <2>7, <2>8
  <2>10. \A d \in Deliveries : shown'[b][d] = shown[b][d] + N(d)
    BY <2>6, <2>8
  <2> QED BY <1>4, <2>1, <2>3, <2>4, <2>7, <2>9, <2>10
<1> QED BY <1>1, <1>2, <1>3, <1>5, <1>6 DEF e

-----------------------------------------------------------------------------
(* Part of a bound is used. *)
LEMMA SpendFacts ==
  ASSUME RoomTypes, NEW kind \in {"crashes", "lapses", "drops"}, NEW max, Spend(kind, max)
  PROVE  /\ spent' \in [crashes : Nat, lapses : Nat, drops : Nat]
         /\ spent'[kind] # 0 /\ \A k \in {"crashes", "lapses", "drops"} \ {kind} : spent'[k] = spent[k]
<1> DEFINE Kinds == {"crashes", "lapses", "drops"}
<1>1. DOMAIN spent = Kinds /\ \A k \in Kinds : spent[k] \in Nat
  BY DEF RoomTypes
<1>2. spent' = [spent EXCEPT ![kind] = @ + 1]
  BY DEF Spend
<1>3. spent = [k \in Kinds |-> spent[k]]
  BY DEF RoomTypes
<1>4. spent' = [k \in Kinds |-> IF k = kind THEN spent[k] + 1 ELSE spent[k]]
  BY <1>2, <1>3
<1>5. \A k \in Kinds : spent'[k] \in Nat
  BY <1>1, <1>4
<1>6. spent' \in [crashes : Nat, lapses : Nat, drops : Nat]
  BY <1>4, <1>5
<1> QED BY <1>1, <1>4, <1>6

(* A snapshot is a packet of its own. *)
LEMMA SnapshotIsPacket ==
  ASSUME RoomTypes, NEW d \in Snapshots, Claimable(d)
  PROVE  Packet(<<d>>) /\ <<d>> \in Seq(Deliveries) /\ ToSet(<<d>>) = {d} /\ Distinct(<<d>>) /\ d \in Deliveries
<1>1. Packet(<<d>>) /\ <<d>> \in Seq(Deliveries)
  BY PacketFacts DEF Packet
<1>2. DOMAIN <<d>> = {1} /\ <<d>>[1] = d
  OBVIOUS
<1> QED BY <1>1, <1>2 DEF ToSet, Distinct, Deliveries

(* Whatever happens, a browser's socket is as it was, lost, new, or one    *)
(* message further.                                                        *)
LEMMA SocketCases ==
  ASSUME RoomTypes, [Next]_vars, NEW b \in Browsers
  PROVE  /\ sequence' \in Nat /\ sequence <= sequence' /\ stored' = sequence' /\ aired \subseteq aired'
         /\ \/ Kept(b)
            \/ Cut(b)
            \/ \E ids \in Seq(Deliveries) : Packet(ids) /\ Broadcast(ids) /\ sequence < sequence' /\ Sent(b, ids)
            \/ Upgrade(b)
            \/ Receive(b)
<1> DEFINE Goal == /\ sequence' \in Nat /\ sequence <= sequence' /\ stored' = sequence' /\ aired \subseteq aired'
                   /\ \/ Kept(b)
                      \/ Cut(b)
                      \/ \E ids \in Seq(Deliveries) : Packet(ids) /\ Broadcast(ids) /\ sequence < sequence' /\ Sent(b, ids)
                      \/ Upgrade(b)
                      \/ Receive(b)
<1> SUFFICES Goal
  OBVIOUS
<1>0. sequence \in Nat /\ stored = sequence /\ NextSequence \in Nat /\ NextSequence > sequence
  BY NextIsLarger DEF RoomTypes
<1>1. ASSUME NEW ids \in Seq(Deliveries), Packet(ids), Broadcast(ids), UNCHANGED browser PROVE Goal
  <2>1. sequence' \in Nat /\ stored' = sequence' /\ sequence < sequence' /\ sequence <= sequence' /\ aired \subseteq aired'
    BY <1>0, <1>1, BroadcastFacts
  <2>2. IF admission[b] = "open" THEN Sent(b, ids) ELSE Kept(b)
    BY <1>1, BroadcastFacts
  <2> QED BY <1>1, <2>1, <2>2
<1>2. ASSUME NEW d \in Snapshots, PublishSnapshot(d) PROVE Goal
  BY <1>1, <1>2, SnapshotIsPacket DEF PublishSnapshot
<1>3. CASE Flush
  <2>1. pending \in Seq(Deliveries) /\ Packet(pending)
    BY <1>3, PacketFacts DEF Flush, Packet
  <2> QED BY <1>1, <1>3, <2>1 DEF Flush
<1>4. ASSUME Lost, owed' = StillOwed(owed), aired' = aired, stored' = sequence', sequence' \in {sequence, NextSequence}
      PROVE  Goal
  BY <1>0, <1>4 DEF Lost, StillOwed, Cut, Offline, browser
<1>5. CASE Crash \/ \E d \in Snapshots, persisted \in BOOLEAN : SnapshotCrash(d, persisted)
  BY <1>0, <1>4, <1>5 DEF Crash, SnapshotCrash, Persisted
<1>6. ASSUME UNCHANGED <<channel, browser, history>>, stored' = stored, sequence' \in {sequence, stored} PROVE Goal
  BY <1>0, <1>6 DEF Kept, browser, history
<1>7. CASE UNCHANGED vars \/ Tick \/ Hibernate
  BY <1>6, <1>7 DEF Tick, Hibernate, vars, room
<1>8. ASSUME NEW q \in Requests, (\E d \in Pulses : PublishPulse(q, d)) \/ Complete(q) PROVE Goal
  BY <1>6, <1>8 DEF PublishPulse, Complete
<1>9. ASSUME NEW d \in Deliveries, Lapse(d) PROVE Goal
  BY <1>6, <1>9 DEF Lapse
<1>10. ASSUME NEW q \in Browsers, Admit(q) \/ Hydrate(q) \/ Refuse(q) PROVE Goal
  BY <1>6, <1>10 DEF Admit, Hydrate, Refuse, room
<1>11. ASSUME NEW q \in Browsers, Upgrade(q) \/ Receive(q) PROVE Goal
  <2>1. sequence' = sequence /\ stored' = stored /\ aired' = aired /\ owed' = owed
    BY <1>11 DEF Upgrade, Receive, room, history
  <2>2. CASE q = b
    BY <1>0, <1>11, <2>1, <2>2
  <2>3. CASE q # b
    <3>1. Kept(b)
      BY <1>11, <2>1, <2>3 DEF Upgrade, Receive, Kept, browser, RoomTypes
    <3> QED BY <1>0, <2>1, <3>1
  <2> QED BY <2>2, <2>3
<1>12. ASSUME NEW q \in Browsers, Disconnect(q) PROVE Goal
  <2>0. /\ channel' = [channel EXCEPT ![q] = <<>>] /\ UNCHANGED <<lastSeq, seen, shown>>
        /\ owed' = [owed EXCEPT ![q] = {d \in owed[q] : shown[q][d] > 0}]
        /\ channel \in [Browsers -> Seq(Envelopes)] /\ owed \in [Browsers -> SUBSET Pulses]
    BY <1>12 DEF Disconnect, Offline, browser, RoomTypes
  <2>1. q = b => Cut(b)
    BY <2>0 DEF Cut
  <2>2. q # b => Kept(b)
    BY <2>0 DEF Kept
  <2> QED BY <1>0, <1>12, <2>1, <2>2 DEF Disconnect, room
<1> QED BY <1>2, <1>3, <1>5, <1>7, <1>8, <1>9, <1>10, <1>11, <1>12 DEF Next

(* Every step keeps the types. *)
LEMMA RoomTypesStep ==
  ASSUME RoomTypes, [Next]_vars
  PROVE  RoomTypes'
<1>1. CASE UNCHANGED vars
  BY <1>1 DEF vars, room, browser, history, RoomTypes
<1>2. CASE Tick
  BY <1>2 DEF Tick, room, browser, history, RoomTypes
<1>3. ASSUME NEW d \in Snapshots, PublishSnapshot(d) PROVE RoomTypes'
  <2>1. <<d>> \in Seq(Deliveries) /\ d \in Deliveries /\ Broadcast(<<d>>) /\ UNCHANGED browser
    BY <1>3, SnapshotIsPacket DEF PublishSnapshot
  <2>2. /\ sequence' \in Nat /\ stored' = sequence' /\ channel' \in [Browsers -> Seq(Envelopes)]
        /\ aired' \subseteq Deliveries /\ owed' \in [Browsers -> SUBSET Pulses]
    BY <2>1, BroadcastFacts
  <2>3. \A b \in Browsers : channel'[b] # Offline => admission[b] = "open"
    BY <2>1, BroadcastFacts DEF Kept, RoomTypes
  <2>4. claim' \in [Deliveries -> {"new", "processing", "lapsed", "delivered"}]
    BY <1>3, <2>1 DEF PublishSnapshot, RoomTypes
  <2> QED BY <1>3, <2>2, <2>3, <2>4 DEF PublishSnapshot, browser, RoomTypes
<1>4. ASSUME Lost, Spend("crashes", MaxCrashes), owed' = StillOwed(owed), UNCHANGED <<clock, aired>>,
             claim' \in [Deliveries -> {"new", "processing", "lapsed", "delivered"}],
             stored' = sequence', sequence' \in {sequence, NextSequence}
      PROVE  RoomTypes'
  <2>1. sequence' \in Nat
    BY <1>4, NextIsLarger DEF RoomTypes
  <2>2. spent' \in [crashes : Nat, lapses : Nat, drops : Nat]
    BY <1>4, SpendFacts DEF RoomTypes
  <2>3. owed' \in [Browsers -> SUBSET Pulses]
    BY <1>4 DEF StillOwed, RoomTypes
  <2>4. channel' = [b \in Browsers |-> <<>>] /\ channel' \in [Browsers -> Seq(Envelopes)]
    BY <1>4, EmptySeq DEF Lost, Offline
  <2>5. request' \in [Requests -> [id : Pulses \cup {NoDelivery}, done : BOOLEAN]]
    BY <1>4 DEF Lost, Idle
  <2>6. pending' \in Seq(Pulses)
    BY <1>4, EmptySeq DEF Lost
  <2>7. admission' \in [Browsers -> {Closed, "admitted", "hydrated", "open"}]
    BY <1>4 DEF Lost, RoomTypes
  <2> QED BY <1>4, <2>1, <2>2, <2>3, <2>4, <2>5, <2>6, <2>7 DEF Lost, Offline, browser, RoomTypes
<1>5. CASE Crash
  BY <1>4, <1>5 DEF Crash, RoomTypes
<1>6. ASSUME NEW d \in Snapshots, NEW persisted \in BOOLEAN, SnapshotCrash(d, persisted) PROVE RoomTypes'
  <2>1. claim' \in [Deliveries -> {"new", "processing", "lapsed", "delivered"}]
    BY <1>6 DEF SnapshotCrash, RoomTypes, Deliveries
  <2> QED BY <1>4, <1>6, <2>1 DEF SnapshotCrash, Persisted, RoomTypes
<1>7. ASSUME NEW q \in Requests, NEW d \in Pulses, PublishPulse(q, d) PROVE RoomTypes'
  <2>1. pending' \in Seq(Pulses)
    BY <1>7, AppendFacts DEF PublishPulse, RoomTypes
  <2>2. request' \in [Requests -> [id : Pulses \cup {NoDelivery}, done : BOOLEAN]]
    <3>1. /\ request \in [Requests -> [id : Pulses \cup {NoDelivery}, done : BOOLEAN]]
          /\ request' = [request EXCEPT ![q].id = d]
      BY <1>7 DEF PublishPulse, RoomTypes
    <3> QED BY <3>1
  <2> QED BY <1>7, <2>1, <2>2 DEF PublishPulse, browser, history, RoomTypes, Deliveries
<1>8. CASE Flush
  <2>1. pending \in Seq(Deliveries) /\ Broadcast(pending) /\ UNCHANGED browser
    BY <1>8, PacketFacts DEF Flush, Packet
  <2>2. /\ sequence' \in Nat /\ stored' = sequence' /\ channel' \in [Browsers -> Seq(Envelopes)]
        /\ aired' \subseteq Deliveries /\ owed' \in [Browsers -> SUBSET Pulses]
    BY <2>1, BroadcastFacts
  <2>3. \A b \in Browsers : channel'[b] # Offline => admission[b] = "open"
    BY <2>1, BroadcastFacts DEF Kept, RoomTypes
  <2>4. request' \in [Requests -> [id : Pulses \cup {NoDelivery}, done : BOOLEAN]]
    <3> DEFINE R == [id : Pulses \cup {NoDelivery}, done : BOOLEAN]
    <3>1. ASSUME NEW q \in Requests PROVE [request[q] EXCEPT !.done = request[q].id # NoDelivery] \in R
      <4>1. request[q] \in R /\ (request[q].id # NoDelivery) \in BOOLEAN
        BY DEF RoomTypes
      <4> QED BY <4>1
    <3> QED BY <1>8, <3>1 DEF Flush
  <2>5. pending' \in Seq(Pulses)
    BY <1>8, EmptySeq DEF Flush
  <2> QED BY <1>8, <2>2, <2>3, <2>4, <2>5 DEF Flush, browser, RoomTypes
<1>9. ASSUME NEW q \in Requests, Complete(q) PROVE RoomTypes'
  BY <1>9 DEF Complete, Idle, browser, history, RoomTypes
<1>10. ASSUME NEW d \in Deliveries, Lapse(d) PROVE RoomTypes'
  <2>1. spent' \in [crashes : Nat, lapses : Nat, drops : Nat]
    BY <1>10, SpendFacts DEF Lapse, RoomTypes
  <2> QED BY <1>10, <2>1 DEF Lapse, browser, history, RoomTypes
<1>11. CASE Hibernate
  <2>1. spent' \in [crashes : Nat, lapses : Nat, drops : Nat]
    BY <1>11, SpendFacts DEF Hibernate, RoomTypes
  <2> QED BY <1>11, <2>1 DEF Hibernate, browser, history, RoomTypes
<1>12. ASSUME NEW b \in Browsers, Admit(b) \/ Hydrate(b) PROVE RoomTypes'
  BY <1>12 DEF Admit, Hydrate, room, browser, history, RoomTypes, Closed
<1>13. ASSUME NEW b \in Browsers, Refuse(b) PROVE RoomTypes'
  <2>1. spent' \in [crashes : Nat, lapses : Nat, drops : Nat]
    BY <1>13, SpendFacts DEF Refuse, RoomTypes
  <2> QED BY <1>13, <2>1 DEF Refuse, room, browser, history, RoomTypes, Closed
<1>14. ASSUME NEW b \in Browsers, Upgrade(b) PROVE RoomTypes'
  <2>1. sequence \in Nat /\ <<>> \in Seq(Deliveries)
    BY EmptySeq DEF RoomTypes
  <2>2. [seq |-> sequence, ids |-> <<>>] \in Envelopes
    BY <2>1 DEF Envelopes
  <2>3. <<[seq |-> sequence, ids |-> <<>>]>> \in Seq(Envelopes)
    BY <2>2
  <2> QED BY <1>14, <2>3 DEF Upgrade, room, RoomTypes
<1>15. ASSUME NEW b \in Browsers, Disconnect(b) PROVE RoomTypes'
  <2>1. spent' \in [crashes : Nat, lapses : Nat, drops : Nat]
    BY <1>15, SpendFacts DEF Disconnect, RoomTypes
  <2>2. <<>> \in Seq(Envelopes)
    BY EmptySeq
  <2>3. owed' \in [Browsers -> SUBSET Pulses]
    BY <1>15 DEF Disconnect, RoomTypes
  <2> QED BY <1>15, <2>1, <2>2, <2>3 DEF Disconnect, room, browser, RoomTypes, Offline
<1>16. ASSUME NEW b \in Browsers, Receive(b) PROVE RoomTypes'
  <2> DEFINE e == Head(channel[b])
  <2>1. /\ e \in Envelopes /\ channel' = [channel EXCEPT ![b] = Tail(channel[b])]
        /\ Tail(channel[b]) \in Seq(Envelopes) /\ admission[b] = "open"
        /\ IF lastSeq[b] <= e.seq /\ ToSet(e.ids) \cap ToSet(seen[b]) = {}
           THEN /\ lastSeq' = [lastSeq EXCEPT ![b] = e.seq + 1]
                /\ seen' = [seen EXCEPT ![b] = Remembered(seen[b] \o e.ids)]
                /\ Remembered(seen[b] \o e.ids) \in Seq(Deliveries)
                /\ shown' \in [Browsers -> [Deliveries -> Nat]]
           ELSE UNCHANGED browser
    BY <1>16, ReceiveFacts
  <2> HIDE DEF e
  <2>2. /\ lastSeq' \in [Browsers -> Nat] /\ seen' \in [Browsers -> Seq(Deliveries)]
        /\ shown' \in [Browsers -> [Deliveries -> Nat]]
    <3>1. e.seq + 1 \in Nat
      BY <2>1 DEF Envelopes
    <3>2. CASE lastSeq[b] <= e.seq /\ ToSet(e.ids) \cap ToSet(seen[b]) = {}
      <4> DEFINE r == Remembered(seen[b] \o e.ids)
      <4>1. /\ lastSeq' = [lastSeq EXCEPT ![b] = e.seq + 1] /\ seen' = [seen EXCEPT ![b] = r]
            /\ r \in Seq(Deliveries) /\ shown' \in [Browsers -> [Deliveries -> Nat]]
        BY <2>1, <3>2
      <4> HIDE DEF r
      <4> QED BY <3>1, <4>1 DEF RoomTypes
    <3>3. CASE UNCHANGED browser
      BY <3>3 DEF browser, RoomTypes
    <3> QED BY <2>1, <3>2, <3>3
  <2>3. channel' \in [Browsers -> Seq(Envelopes)] /\ \A q \in Browsers : channel'[q] # Offline => admission[q] = "open"
    BY <2>1 DEF RoomTypes
  <2> QED BY <1>16, <2>2, <2>3 DEF Receive, room, history, RoomTypes
<1> QED
  BY <1>1, <1>2, <1>3, <1>5, <1>6, <1>7, <1>8, <1>9, <1>10, <1>11, <1>12, <1>13, <1>14, <1>15, <1>16 DEF Next

(* The types hold in the first state. *)
LEMMA RoomTypesStart == Init => RoomTypes
<1> SUFFICES ASSUME Init PROVE RoomTypes
  OBVIOUS
<1>1. <<>> \in Seq(Pulses) /\ <<>> \in Seq(Envelopes) /\ <<>> \in Seq(Deliveries)
  BY EmptySeq
<1> QED BY <1>1 DEF Init, RoomTypes, Idle, Offline, Closed

(* So the types always hold. *)
LEMMA RoomTyped == Spec => []RoomTypes
  BY RoomTypesStart, RoomTypesStep, PTL DEF Spec

-----------------------------------------------------------------------------
(* Sequences. *)

(* The envelopes on the way to a browser have increasing numbers, that it  *)
(* has not seen and that are not larger than the room's.                   *)
Numbered == \A b \in Browsers :
  lastSeq[b] <= sequence + 1 /\ InOrder(channel[b], lastSeq[b], sequence)

(* Wider limits hold, too. *)
LEMMA OrderWidens ==
  ASSUME NEW c \in Seq(Envelopes), NEW first \in Nat, NEW last \in Nat, NEW begin \in Nat, NEW end \in Nat,
         InOrder(c, first, last), begin <= first, last <= end
  PROVE  InOrder(c, begin, end)
<1>1. \A i \in DOMAIN c : c[i].seq \in Nat
  <2>1. \A i \in DOMAIN c : c[i] \in Envelopes
    BY ElementOfSeq, LenProperties
  <2> QED BY <2>1 DEF Envelopes
<1> QED BY <1>1 DEF InOrder

(* Every step keeps the numbers in order. *)
LEMMA NumberedStep ==
  ASSUME RoomTypes, Numbered, [Next]_vars
  PROVE  Numbered'
<1> SUFFICES ASSUME NEW b \in Browsers
             PROVE  lastSeq'[b] <= sequence' + 1 /\ InOrder(channel'[b], lastSeq'[b], sequence')
  BY DEF Numbered
<1>1. /\ sequence \in Nat /\ sequence' \in Nat /\ sequence <= sequence'
      /\ lastSeq[b] \in Nat /\ channel[b] \in Seq(Envelopes)
      /\ lastSeq[b] <= sequence + 1 /\ InOrder(channel[b], lastSeq[b], sequence)
  BY SocketCases DEF RoomTypes, Numbered
<1>2. CASE Kept(b)
  <2>1. InOrder(channel[b], lastSeq[b], sequence')
    BY <1>1, OrderWidens
  <2> QED BY <1>1, <1>2, <2>1 DEF Kept
<1>3. CASE Cut(b)
  <2>1. channel'[b] = <<>> /\ lastSeq'[b] = lastSeq[b] /\ DOMAIN channel'[b] = {}
    BY <1>3 DEF Cut
  <2> QED BY <1>1, <2>1 DEF InOrder
<1>4. ASSUME NEW ids \in Seq(Deliveries), sequence < sequence', Sent(b, ids)
      PROVE  lastSeq'[b] <= sequence' + 1 /\ InOrder(channel'[b], lastSeq'[b], sequence')
  <2> DEFINE e == [seq |-> sequence', ids |-> ids]
  <2>1. e \in Envelopes /\ e.seq = sequence'
    BY <1>1 DEF Envelopes
  <2>2. channel'[b] = Append(channel[b], e) /\ lastSeq'[b] = lastSeq[b]
    BY <1>4 DEF Sent
  <2> HIDE DEF e
  <2>3. lastSeq[b] <= e.seq
    BY <1>1, <1>4, <2>1
  <2>4. InOrder(channel[b], lastSeq[b], sequence) => InOrder(Append(channel[b], e), lastSeq[b], e.seq)
    BY <1>1, <1>4, <2>1, <2>3, SendFacts
  <2> QED BY <1>1, <1>4, <2>1, <2>2, <2>4
<1>5. CASE Upgrade(b)
  <2>1. /\ lastSeq'[b] = 0 /\ sequence' = sequence
        /\ channel'[b] = <<[seq |-> sequence, ids |-> <<>>]>>
    BY <1>5 DEF Upgrade, room, RoomTypes
  <2> DEFINE e == [seq |-> sequence, ids |-> <<>>]
  <2>2. channel'[b] = <<e>> /\ e.seq = sequence
    BY <2>1
  <2> HIDE DEF e
  <2>3. DOMAIN channel'[b] = {1} /\ channel'[b][1] = e
    BY <2>2
  <2> QED BY <1>1, <2>1, <2>2, <2>3 DEF InOrder
<1>6. CASE Receive(b)
  <2> DEFINE e == Head(channel[b])
  <2>1. /\ channel[b] # <<>> /\ e \in Envelopes /\ channel'[b] = Tail(channel[b])
        /\ lastSeq'[b] = e.seq + 1 \/ lastSeq'[b] = lastSeq[b]
    <3>1. /\ channel[b] # <<>> /\ e \in Envelopes /\ channel' = [channel EXCEPT ![b] = Tail(channel[b])]
          /\ lastSeq' = [lastSeq EXCEPT ![b] = e.seq + 1] \/ UNCHANGED browser
      BY <1>6, ReceiveFacts
    <3> HIDE DEF e
    <3> QED BY <3>1 DEF RoomTypes, browser
  <2>2. /\ lastSeq[b] <= e.seq /\ e.seq <= sequence /\ InOrder(Tail(channel[b]), e.seq + 1, sequence)
        /\ Tail(channel[b]) \in Seq(Envelopes)
    BY <1>1, <2>1, ArriveFacts
  <2> HIDE DEF e
  <2>3. sequence' = sequence
    BY <1>6 DEF Receive, room
  <2>4. InOrder(Tail(channel[b]), lastSeq[b], sequence)
    <3>1. e.seq \in Nat /\ e.seq + 1 \in Nat /\ lastSeq[b] <= e.seq + 1 /\ sequence <= sequence
      <4>1. e.seq \in Nat
        BY <2>1 DEF Envelopes
      <4> QED BY <1>1, <2>2, <4>1
    <3> QED BY <1>1, <2>2, <3>1, OrderWidens
  <2>5. e.seq + 1 <= sequence + 1
    BY <1>1, <2>1, <2>2 DEF Envelopes
  <2> QED BY <1>1, <2>1, <2>2, <2>3, <2>4, <2>5
<1> QED BY <1>2, <1>3, <1>4, <1>5, <1>6, SocketCases

(* Envelopes on one socket have increasing sequences, and a browser drops  *)
(* none of them as old.                                                    *)
THEOREM EnvelopesInSequence == Spec => []SequencesIncrease
<1>1. Init => Numbered
  BY DEF Init, Numbered, InOrder, Offline
<1>3. RoomTypes /\ Numbered => SequencesIncrease
  <2> SUFFICES ASSUME RoomTypes, Numbered, NEW b \in Browsers
               PROVE  /\ \A i, j \in DOMAIN channel[b] : i < j => channel[b][i].seq < channel[b][j].seq
                      /\ \A i \in DOMAIN channel[b] : channel[b][i].seq >= lastSeq[b]
    BY DEF SequencesIncrease, InSequence
  <2>1. \A i \in DOMAIN channel[b] : channel[b][i] \in Envelopes
    BY ElementOfSeq, LenProperties DEF RoomTypes
  <2> QED BY <2>1 DEF Numbered, InOrder, Envelopes, RoomTypes
<1> QED BY <1>1, <1>3, NumberedStep, RoomTyped, PTL DEF Spec

-----------------------------------------------------------------------------
(* Claims. *)

(* A pulse stays claimed while its packet is coalesced, and a request      *)
(* waits for a pulse of that packet or for one that was broadcast.         *)
ClaimsAreHeld ==
  /\ Distinct(pending)
  /\ \A d \in ToSet(pending) : claim[d] \in {"processing", "delivered"}
  /\ \A q \in Requests : request[q].id # NoDelivery =>
       request[q].id \in ToSet(pending) \/ request[q].done
  /\ \A q \in Requests : request[q].done => request[q].id \in aired

(* Both hold in the first state. *)
LEMMA ClaimsStart == Init => ClaimsAreHeld /\ DeliveredWasAired
<1> SUFFICES ASSUME Init PROVE ClaimsAreHeld /\ DeliveredWasAired
  OBVIOUS
<1>1. DOMAIN pending = {} /\ ToSet(pending) = {}
  BY DEF Init, ToSet
<1> QED BY <1>1 DEF Init, ClaimsAreHeld, DeliveredWasAired, Distinct, Idle

(* The ids of the packet that is being coalesced are pulses. *)
LEMMA PendingFacts ==
  ASSUME RoomTypes
  PROVE  ToSet(pending) \subseteq Pulses /\ ToSet(pending) \subseteq Deliveries
<1>1. \A i \in DOMAIN pending : pending[i] \in Pulses
  BY LenProperties, ElementOfSeq DEF RoomTypes
<1> QED BY <1>1 DEF ToSet, Deliveries

(* Every step keeps the claims, and a delivery is done only after it was   *)
(* broadcast.                                                              *)
LEMMA ClaimsStep ==
  ASSUME RoomTypes, ClaimsAreHeld, DeliveredWasAired, [Next]_vars
  PROVE  ClaimsAreHeld' /\ DeliveredWasAired'
<1> DEFINE Goal == ClaimsAreHeld' /\ DeliveredWasAired'
<1>0. /\ claim \in [Deliveries -> {"new", "processing", "lapsed", "delivered"}]
      /\ request \in [Requests -> [id : Pulses \cup {NoDelivery}, done : BOOLEAN]]
      /\ pending \in Seq(Pulses)
      /\ ToSet(pending) \subseteq Pulses /\ ToSet(pending) \subseteq Deliveries
  BY PendingFacts DEF RoomTypes
<1>1. ASSUME UNCHANGED <<request, claim, pending, aired>> PROVE Goal
  BY <1>1 DEF ClaimsAreHeld, DeliveredWasAired
<1>2. ASSUME NEW d \in Snapshots, PublishSnapshot(d) PROVE Goal
  <2>1. /\ claim' = [claim EXCEPT ![d] = "delivered"] /\ UNCHANGED <<request, pending>>
        /\ aired' = aired \cup {d} /\ d \in Deliveries
    BY <1>2, SnapshotIsPacket DEF PublishSnapshot, Broadcast
  <2> QED BY <1>0, <2>1 DEF ClaimsAreHeld, DeliveredWasAired
<1>3. ASSUME Lost, aired' = aired, UNCHANGED claim \/ \E d \in Deliveries : claim' = [claim EXCEPT ![d] = "processing"]
      PROVE  Goal
  <2>1. ToSet(pending') = {} /\ Distinct(pending') /\ \A q \in Requests : request'[q] = Idle
    BY <1>3 DEF Lost, ToSet, Distinct
  <2>2. \A d \in Deliveries : claim'[d] = "delivered" => claim[d] = "delivered"
    BY <1>0, <1>3
  <2> QED BY <1>3, <2>1, <2>2 DEF ClaimsAreHeld, DeliveredWasAired, Idle
<1>4. CASE Crash
  BY <1>3, <1>4 DEF Crash
<1>5. ASSUME NEW d \in Snapshots, NEW persisted \in BOOLEAN, SnapshotCrash(d, persisted) PROVE Goal
  BY <1>3, <1>5 DEF SnapshotCrash, Deliveries
<1>6. ASSUME NEW q \in Requests, NEW d \in Pulses, PublishPulse(q, d) PROVE Goal
  <2>1. /\ d \in Deliveries /\ claim[d] \in {"new", "lapsed"} /\ d \notin ToSet(pending)
        /\ claim' = [claim EXCEPT ![d] = "processing"] /\ aired' = aired
    BY <1>6 DEF PublishPulse, Claimable, Deliveries, history, ClaimsAreHeld
  <2>2. ToSet(pending') = ToSet(pending) \cup {d} /\ Distinct(pending')
    BY <1>0, <1>6, <2>1, AppendFacts DEF PublishPulse, ClaimsAreHeld
  <2>3. request' = [request EXCEPT ![q].id = d] /\ request[q] = Idle
    BY <1>6 DEF PublishPulse
  <2>4. \A p \in Requests : IF p = q THEN request'[p].id = d /\ request'[p].done = FALSE ELSE request'[p] = request[p]
    BY <1>0, <2>3 DEF Idle
  <2>5. \A e \in ToSet(pending') : claim'[e] \in {"processing", "delivered"}
    BY <1>0, <2>1, <2>2 DEF ClaimsAreHeld
  <2>6. DeliveredWasAired'
    BY <1>0, <2>1 DEF DeliveredWasAired
  <2> QED BY <2>1, <2>2, <2>4, <2>5, <2>6 DEF ClaimsAreHeld
<1>7. CASE Flush
  <2>1. ToSet(pending') = {} /\ Distinct(pending') /\ aired' = aired \cup ToSet(pending) /\ claim' = claim
    BY <1>7 DEF Flush, Broadcast, ToSet, Distinct
  <2>2. \A q \in Requests : request'[q].id = request[q].id /\ request'[q].done = (request[q].id # NoDelivery)
    BY <1>0, <1>7 DEF Flush
  <2> QED BY <2>1, <2>2 DEF ClaimsAreHeld, DeliveredWasAired
<1>8. ASSUME NEW q \in Requests, Complete(q) PROVE Goal
  <2>1. /\ request[q].done /\ UNCHANGED <<pending, aired>>
        /\ claim' = [claim EXCEPT ![request[q].id] = "delivered"]
        /\ request' = [request EXCEPT ![q] = Idle]
    BY <1>8 DEF Complete, Completable, history
  <2>2. \A d \in ToSet(pending) : claim'[d] \in {"processing", "delivered"}
    BY <1>0, <2>1 DEF ClaimsAreHeld
  <2>3. \A p \in Requests : request'[p] = IF p = q THEN Idle ELSE request[p]
    BY <1>0, <2>1
  <2>4. ASSUME NEW d \in Deliveries, claim'[d] = "delivered" PROVE d \in aired
    <3>1. CASE d = request[q].id
      BY <2>1, <3>1 DEF ClaimsAreHeld
    <3>2. CASE d # request[q].id
      BY <1>0, <2>1, <2>4, <3>2 DEF DeliveredWasAired
    <3> QED BY <3>1, <3>2
  <2> QED BY <2>1, <2>2, <2>3, <2>4 DEF ClaimsAreHeld, DeliveredWasAired, Idle
<1>9. ASSUME NEW d \in Deliveries, Lapse(d) PROVE Goal
  <2>1. claim' = [claim EXCEPT ![d] = "lapsed"] /\ d \notin ToSet(pending) /\ UNCHANGED <<request, pending, aired>>
    BY <1>9 DEF Lapse, ToSet, history
  <2> QED BY <1>0, <2>1 DEF ClaimsAreHeld, DeliveredWasAired
<1>10. CASE UNCHANGED vars \/ Tick \/ Hibernate
  BY <1>1, <1>10 DEF vars, room, history, Tick, Hibernate
<1>11. ASSUME NEW b \in Browsers, Admit(b) \/ Hydrate(b) \/ Refuse(b) \/ Upgrade(b) \/ Disconnect(b) \/ Receive(b)
       PROVE  Goal
  BY <1>1, <1>11 DEF Admit, Hydrate, Refuse, Upgrade, Disconnect, Receive, room, history
<1> QED
  BY <1>2, <1>4, <1>5, <1>6, <1>7, <1>8, <1>9, <1>10, <1>11 DEF Next

(* What the room answers as done was broadcast. *)
THEOREM DoneWasBroadcast == Spec => []DeliveredWasAired
  BY ClaimsStart, ClaimsStep, RoomTyped, PTL DEF Spec

-----------------------------------------------------------------------------
(* What a browser shows. *)

(* No packet on the way to a browser has an id twice. *)
PacketsArePacked == \A b \in Browsers : Packed(channel[b])

(* Every step keeps that. *)
LEMMA PackedStep ==
  ASSUME RoomTypes, ClaimsAreHeld, PacketsArePacked, [Next]_vars
  PROVE  PacketsArePacked'
<1> SUFFICES ASSUME NEW b \in Browsers PROVE Packed(channel'[b])
  BY DEF PacketsArePacked
<1>1. channel[b] \in Seq(Envelopes) /\ Packed(channel[b])
  BY DEF RoomTypes, PacketsArePacked
<1>2. CASE Kept(b)
  BY <1>1, <1>2 DEF Kept
<1>3. CASE Cut(b)
  BY <1>3 DEF Cut, Packed
<1>4. ASSUME NEW ids \in Seq(Deliveries), Packet(ids), Sent(b, ids) PROVE Packed(channel'[b])
  <2> DEFINE e == [seq |-> sequence', ids |-> ids]
  <2>1. sequence' \in Nat
    BY SocketCases
  <2>2. e \in Envelopes /\ e.ids = ids /\ channel'[b] = Append(channel[b], e)
    BY <1>4, <2>1 DEF Sent, Envelopes
  <2>3. Distinct(ids)
    BY <1>4, SnapshotIsPacket DEF Packet, ClaimsAreHeld
  <2> HIDE DEF e
  <2> QED BY <1>1, <2>2, <2>3, SendFacts
<1>5. CASE Upgrade(b)
  <2>1. channel'[b] = <<[seq |-> sequence, ids |-> <<>>]>>
    BY <1>5 DEF Upgrade, RoomTypes
  <2> DEFINE e == [seq |-> sequence, ids |-> <<>>]
  <2>2. channel'[b] = <<e>> /\ e.ids = <<>> /\ Distinct(<<>>)
    BY <2>1 DEF Distinct
  <2> HIDE DEF e
  <2>3. DOMAIN channel'[b] = {1} /\ channel'[b][1] = e
    BY <2>2
  <2> QED BY <2>2, <2>3 DEF Packed
<1>6. CASE Receive(b)
  <2>1. channel' = [channel EXCEPT ![b] = Tail(channel[b])] /\ channel[b] # <<>>
    BY <1>6, ReceiveFacts
  <2>2. channel'[b] = Tail(channel[b])
    BY <2>1 DEF RoomTypes
  <2> QED BY <1>1, <2>1, <2>2, ArriveFacts
<1> QED BY <1>2, <1>3, <1>4, <1>5, <1>6, SocketCases

(* A browser shows what it remembers, once. *)
RemembersShown == \A b \in Browsers :
  /\ Distinct(seen[b])
  /\ \A d \in Deliveries : shown[b][d] = IF d \in ToSet(seen[b]) THEN 1 ELSE 0

(* As long as there are no more deliveries than it remembers. *)
LEMMA RemembersStep ==
  ASSUME IsFiniteSet(Deliveries), Cardinality(Deliveries) <= SeenLimit,
         RoomTypes, PacketsArePacked, RemembersShown, [Next]_vars
  PROVE  RemembersShown'
<1> SUFFICES ASSUME NEW b \in Browsers
             PROVE  /\ Distinct(seen'[b])
                    /\ \A d \in Deliveries : shown'[b][d] = IF d \in ToSet(seen'[b]) THEN 1 ELSE 0
  BY DEF RemembersShown
<1>1. /\ channel[b] \in Seq(Envelopes) /\ Packed(channel[b]) /\ seen[b] \in Seq(Deliveries)
      /\ Distinct(seen[b])
      /\ \A d \in Deliveries : shown[b][d] = IF d \in ToSet(seen[b]) THEN 1 ELSE 0
  BY DEF RoomTypes, PacketsArePacked, RemembersShown
<1>2. CASE UNCHANGED <<seen[b], shown[b]>>
  BY <1>1, <1>2
<1>3. CASE Receive(b)
  <2> DEFINE e == Head(channel[b]) r == Remembered(seen[b] \o e.ids)
  <2>1. channel[b] # <<>> /\ e \in Envelopes
    BY <1>3, ReceiveFacts
  <2>2. Distinct(e.ids) /\ e.ids \in Seq(Deliveries)
    BY <1>1, <2>1, ArriveFacts DEF Envelopes
  <2>3. CASE UNCHANGED browser
    BY <1>2, <2>3 DEF browser
  <2>4. CASE ~UNCHANGED browser
    <3>1. /\ ToSet(e.ids) \cap ToSet(seen[b]) = {}
          /\ seen' = [seen EXCEPT ![b] = r]
          /\ \A d \in Deliveries :
               /\ d \notin ToSet(e.ids) => shown'[b][d] = shown[b][d]
               /\ d \in ToSet(e.ids) /\ Distinct(e.ids) => shown'[b][d] = shown[b][d] + 1
      BY <1>3, <2>4, ReceiveFacts
    <3>2. /\ seen[b] \o e.ids \in Seq(Deliveries) /\ Distinct(seen[b] \o e.ids)
          /\ ToSet(seen[b] \o e.ids) = ToSet(seen[b]) \cup ToSet(e.ids)
      BY <1>1, <2>2, <3>1, ConcatFacts
    <3>3. Len(seen[b] \o e.ids) <= SeenLimit
      <4>1. Len(seen[b] \o e.ids) <= Cardinality(Deliveries) /\ Len(seen[b] \o e.ids) \in Nat
        BY <3>2, DistinctIsShort, LenProperties
      <4>2. Cardinality(Deliveries) \in Nat /\ SeenLimit \in Nat
        BY FS_CardinalityType, ConstantsAssumption
      <4>3. \A x, y, z \in Nat : x <= y /\ y <= z => x <= z
        OBVIOUS
      <4> QED BY <4>1, <4>2, <4>3, Zenon
    <3>4. r = seen[b] \o e.ids
      BY <3>2, <3>3, RememberedFacts
    <3> HIDE DEF e, r
    <3>5. seen'[b] = r
      BY <3>1 DEF RoomTypes
    <3>6. Distinct(seen'[b]) /\ ToSet(seen'[b]) = ToSet(seen[b]) \cup ToSet(e.ids)
      BY <3>2, <3>4, <3>5
    <3>7. ASSUME NEW d \in Deliveries PROVE shown'[b][d] = IF d \in ToSet(seen'[b]) THEN 1 ELSE 0
      <4>1. shown[b][d] = IF d \in ToSet(seen[b]) THEN 1 ELSE 0
        BY <1>1
      <4>2. CASE d \in ToSet(e.ids)
        BY <2>2, <3>1, <3>6, <4>1, <4>2
      <4>3. CASE d \notin ToSet(e.ids)
        BY <3>1, <3>6, <4>1, <4>3
      <4> QED BY <4>2, <4>3
    <3> QED BY <3>6, <3>7
  <2> QED BY <2>3, <2>4
<1>4. CASE Upgrade(b)
  BY <1>2, <1>4 DEF Upgrade
<1> QED BY <1>2, <1>3, <1>4, SocketCases DEF Kept, Cut, Sent

(* A browser shows a delivery once, however often it is published, as long *)
(* as it remembers the ids of all the deliveries there are.                *)
THEOREM ShownOnceOnly ==
  ASSUME IsFiniteSet(Deliveries), Cardinality(Deliveries) <= SeenLimit
  PROVE  Spec => []ShownOnce
<1>1. Init => PacketsArePacked /\ RemembersShown
  <2> SUFFICES ASSUME Init PROVE PacketsArePacked /\ RemembersShown
    OBVIOUS
  <2>1. \A b \in Browsers : DOMAIN channel[b] = {} /\ DOMAIN seen[b] = {} /\ ToSet(seen[b]) = {}
    BY DEF Init, Offline, ToSet
  <2> QED BY <2>1 DEF Init, PacketsArePacked, Packed, RemembersShown, Distinct
<1>2. RemembersShown => ShownOnce
  BY DEF RemembersShown, ShownOnce
<1>3. RoomTypes /\ ClaimsAreHeld /\ DeliveredWasAired /\ PacketsArePacked /\ RemembersShown /\ [Next]_vars
      => ClaimsAreHeld' /\ DeliveredWasAired' /\ PacketsArePacked' /\ RemembersShown'
  BY ClaimsStep, PackedStep, RemembersStep
<1> QED BY <1>1, <1>2, <1>3, ClaimsStart, RoomTyped, PTL DEF Spec

-----------------------------------------------------------------------------
(* Nothing is dropped. *)

(* The object has not died and no claim has lapsed under a request. *)
Smooth == spent.crashes = 0 /\ spent.lapses = 0

(* What a delivery that was not yet broadcast looks like, and that a pulse *)
(* that is claimed has its request.                                        *)
AiredOnce ==
  /\ \A d \in Deliveries : claim[d] # "lapsed" /\ (claim[d] = "new" => d \notin aired)
  /\ ToSet(pending) \cap aired = {}
  /\ \A d \in Deliveries : claim[d] = "processing" => \E q \in Requests : request[q].id = d

(* What the browser has shown or remembers. *)
Known(b) == ToSet(seen[b]) \cup {d \in Deliveries : shown[b][d] > 0}

(* A browser gets each delivery once, and has shown or will get all that   *)
(* it is owed.                                                             *)
GetsOnce(b) ==
  /\ IdsOf(channel[b]) \subseteq aired /\ Known(b) \subseteq aired
  /\ Apart(channel[b], Known(b))
  /\ \A d \in owed[b] : shown[b][d] > 0 \/ d \in IdsOf(channel[b])
  /\ \A d \in Deliveries : shown[b][d] <= 1

(* So it is as long as nothing goes wrong. *)
SmoothInv == Smooth => AiredOnce /\ \A b \in Browsers : GetsOnce(b)

(* What has gone well up to a step went well before it. *)
LEMMA SmoothBefore ==
  ASSUME RoomTypes, [Next]_vars, Smooth'
  PROVE  /\ Smooth
         /\ ~Crash /\ ~Hibernate /\ \A d \in Snapshots, persisted \in BOOLEAN : ~SnapshotCrash(d, persisted)
         /\ \A d \in Deliveries : Lapse(d) => \A q \in Requests : request[q].id # d
<1>1. ASSUME Spend("crashes", MaxCrashes) PROVE FALSE
  BY <1>1, SpendFacts DEF Smooth
<1>2. ASSUME Spend("lapses", MaxLapses) PROVE FALSE
  BY <1>2, SpendFacts DEF Smooth
<1>3. ASSUME Spend("drops", MaxDrops) PROVE Smooth
  BY <1>3, SpendFacts DEF Smooth
<1>4. ASSUME spent' = spent PROVE Smooth
  BY <1>4 DEF Smooth
<1>5. /\ ~Crash /\ ~Hibernate /\ \A d \in Snapshots, persisted \in BOOLEAN : ~SnapshotCrash(d, persisted)
      /\ \A d \in Deliveries : Lapse(d) => spent' = spent /\ \A q \in Requests : request[q].id # d
  BY <1>1, <1>2 DEF Crash, Hibernate, SnapshotCrash, Lapse
<1>6. spent' = spent \/ Spend("drops", MaxDrops)
  BY <1>5 DEF Next, vars, Tick, PublishSnapshot, PublishPulse, Flush, Complete, Admit, Hydrate, Refuse, Upgrade,
              Disconnect, Receive
<1> QED BY <1>3, <1>4, <1>5, <1>6

(* A pulse whose claim can lapse has its request, so that none does. *)
LEMMA AiredOnceStep ==
  ASSUME RoomTypes, ClaimsAreHeld, DeliveredWasAired, Smooth', AiredOnce, [Next]_vars
  PROVE  AiredOnce'
<1>0. /\ claim \in [Deliveries -> {"new", "processing", "lapsed", "delivered"}]
      /\ request \in [Requests -> [id : Pulses \cup {NoDelivery}, done : BOOLEAN]]
      /\ pending \in Seq(Pulses) /\ NoDelivery \notin Deliveries
      /\ ToSet(pending) \subseteq Deliveries
  BY PendingFacts, ConstantsAssumption DEF RoomTypes
<1>1. ASSUME UNCHANGED <<request, claim, pending, aired>> PROVE AiredOnce'
  BY <1>1 DEF AiredOnce
<1>2. ASSUME NEW d \in Snapshots, PublishSnapshot(d) PROVE AiredOnce'
  <2>1. /\ claim' = [claim EXCEPT ![d] = "delivered"] /\ UNCHANGED <<request, pending>>
        /\ aired' = aired \cup {d} /\ d \in Deliveries /\ d \notin ToSet(pending)
    <3>1. d \notin Pulses
      BY ConstantsAssumption
    <3> QED BY <1>2, <3>1, SnapshotIsPacket, PendingFacts DEF PublishSnapshot, Broadcast
  <2> QED BY <1>0, <2>1 DEF AiredOnce
<1>3. ASSUME NEW q \in Requests, NEW d \in Pulses, PublishPulse(q, d) PROVE AiredOnce'
  <2>1. /\ d \in Deliveries /\ claim[d] = "new" /\ d \notin aired /\ aired' = aired
        /\ claim' = [claim EXCEPT ![d] = "processing"] /\ request[q] = Idle
        /\ request' = [request EXCEPT ![q].id = d]
    BY <1>3 DEF PublishPulse, Claimable, Deliveries, history, AiredOnce
  <2>2. ToSet(pending') = ToSet(pending) \cup {d}
    BY <1>0, <1>3, AppendFacts DEF PublishPulse
  <2>3. \A p \in Requests : IF p = q THEN request'[p].id = d ELSE request'[p] = request[p]
    BY <1>0, <2>1
  <2>4. ASSUME NEW e \in Deliveries, claim'[e] = "processing" PROVE \E p \in Requests : request'[p].id = e
    <3>1. CASE e = d
      BY <2>3, <3>1
    <3>2. CASE e # d
      <4>1. PICK p \in Requests : request[p].id = e
        BY <1>0, <2>1, <2>4, <3>2 DEF AiredOnce
      <4>2. p # q
        BY <1>0, <2>1, <4>1 DEF Idle
      <4> QED BY <2>3, <4>1, <4>2
    <3> QED BY <3>1, <3>2
  <2> QED BY <1>0, <2>1, <2>2, <2>4 DEF AiredOnce
<1>4. CASE Flush
  <2>1. ToSet(pending') = {} /\ aired' = aired \cup ToSet(pending) /\ claim' = claim
    BY <1>4 DEF Flush, Broadcast, ToSet
  <2>2. \A q \in Requests : request'[q].id = request[q].id
    BY <1>0, <1>4 DEF Flush
  <2>3. \A d \in ToSet(pending) : claim[d] # "new"
    BY DEF ClaimsAreHeld
  <2> QED BY <2>1, <2>2, <2>3 DEF AiredOnce
<1>5. ASSUME NEW q \in Requests, Complete(q) PROVE AiredOnce'
  <2>1. /\ UNCHANGED <<pending, aired>>
        /\ claim' = [claim EXCEPT ![request[q].id] = "delivered"]
        /\ request' = [request EXCEPT ![q] = Idle]
    BY <1>5 DEF Complete, history
  <2>2. ASSUME NEW d \in Deliveries, claim'[d] = "processing" PROVE \E p \in Requests : request'[p].id = d
    <3>1. claim[d] = "processing" /\ d # request[q].id
      BY <1>0, <2>1, <2>2
    <3>2. PICK p \in Requests : request[p].id = d
      BY <3>1 DEF AiredOnce
    <3> QED BY <1>0, <2>1, <3>1, <3>2
  <2> QED BY <1>0, <2>1, <2>2 DEF AiredOnce
<1>6. ASSUME NEW d \in Deliveries, Lapse(d) PROVE FALSE
  BY <1>6, SmoothBefore DEF Lapse, AiredOnce
<1>7. CASE UNCHANGED vars \/ Tick
  BY <1>1, <1>7 DEF vars, room, history, Tick
<1>8. ASSUME NEW b \in Browsers, Admit(b) \/ Hydrate(b) \/ Refuse(b) \/ Upgrade(b) \/ Disconnect(b) \/ Receive(b)
      PROVE  AiredOnce'
  BY <1>1, <1>8 DEF Admit, Hydrate, Refuse, Upgrade, Disconnect, Receive, room, history
<1> QED
  BY <1>2, <1>3, <1>4, <1>5, <1>6, <1>7, <1>8, SmoothBefore DEF Next

(* A packet that is broadcast is new to every browser, and none is dropped *)
(* as a duplicate.                                                         *)
LEMMA GetsOnceStep ==
  ASSUME RoomTypes, ClaimsAreHeld, Numbered, PacketsArePacked, AiredOnce, [Next]_vars,
         NEW b \in Browsers, GetsOnce(b)
  PROVE  GetsOnce(b)'
<1>1. /\ channel[b] \in Seq(Envelopes) /\ Packed(channel[b]) /\ seen[b] \in Seq(Deliveries)
      /\ aired \subseteq aired' /\ owed[b] \subseteq Pulses /\ Pulses \subseteq Deliveries
      /\ shown[b] \in [Deliveries -> Nat]
  BY SocketCases DEF RoomTypes, PacketsArePacked, Deliveries
<1>2. CASE Kept(b)
  <2>1. Known(b)' = Known(b)
    BY <1>2 DEF Kept, Known
  <2> QED BY <1>1, <1>2, <2>1 DEF Kept, GetsOnce
<1>3. ASSUME DOMAIN channel'[b] = {} \/ (DOMAIN channel'[b] = {1} /\ ToSet(channel'[b][1].ids) = {}),
             UNCHANGED <<seen[b], shown[b]>>, \A d \in owed'[b] : shown[b][d] > 0
      PROVE  GetsOnce(b)'
  <2>1. Known(b)' = Known(b) /\ IdsOf(channel'[b]) = {}
    BY <1>3 DEF Known, IdsOf
  <2> QED BY <1>1, <1>3, <2>1 DEF GetsOnce, Apart
<1>4. CASE Cut(b)
  BY <1>3, <1>4 DEF Cut
<1>5. ASSUME NEW ids \in Seq(Deliveries), Packet(ids), Broadcast(ids), Sent(b, ids) PROVE GetsOnce(b)'
  <2> DEFINE e == [seq |-> sequence', ids |-> ids]
  <2>1. sequence' \in Nat
    BY SocketCases
  <2>2. e \in Envelopes /\ e.ids = ids /\ channel'[b] = Append(channel[b], e)
    BY <1>5, <2>1 DEF Sent, Envelopes
  <2> HIDE DEF e
  <2>3. ToSet(ids) \cap aired = {}
    <3>1. CASE ids = pending
      BY <3>1 DEF AiredOnce
    <3>2. ASSUME NEW d \in Snapshots, Claimable(d), ids = <<d>> PROVE ToSet(ids) \cap aired = {}
      BY <3>2, SnapshotIsPacket DEF AiredOnce, Claimable
    <3> QED BY <1>5, <3>1, <3>2 DEF Packet
  <2>4. ToSet(ids) \cap (Known(b) \cup IdsOf(channel[b])) = {}
    BY <2>3 DEF GetsOnce
  <2>5. Known(b)' = Known(b) /\ aired' = aired \cup ToSet(ids)
    BY <1>5 DEF Sent, Known, Broadcast
  <2>6. IdsOf(channel'[b]) = IdsOf(channel[b]) \cup ToSet(ids) /\ Apart(channel'[b], Known(b))
    BY <1>1, <2>2, <2>4, SendFacts DEF GetsOnce
  <2> QED BY <1>5, <2>5, <2>6 DEF GetsOnce, Sent
<1>6. CASE Upgrade(b)
  <2>1. channel[b] = <<>>
    BY <1>6 DEF Upgrade, RoomTypes, Offline
  <2>2. /\ channel'[b] = <<[seq |-> sequence, ids |-> <<>>]>>
        /\ UNCHANGED <<seen, shown, owed>>
    BY <1>6 DEF Upgrade, RoomTypes
  <2> DEFINE e == [seq |-> sequence, ids |-> <<>>]
  <2>3. channel'[b] = <<e>> /\ ToSet(e.ids) = {}
    BY <2>2 DEF ToSet
  <2> HIDE DEF e
  <2>4. DOMAIN channel'[b] = {1} /\ channel'[b][1] = e
    BY <2>3
  <2>5. \A d \in owed[b] : shown[b][d] > 0
    BY <2>1 DEF GetsOnce, IdsOf
  <2> QED BY <1>3, <2>2, <2>3, <2>4, <2>5
<1>7. CASE Receive(b)
  <2> DEFINE e == Head(channel[b])
  <2>1. /\ channel[b] # <<>> /\ e \in Envelopes /\ channel' = [channel EXCEPT ![b] = Tail(channel[b])]
        /\ aired' = aired /\ owed' = owed
    BY <1>7, ReceiveFacts DEF Receive, history
  <2>2. /\ ToSet(e.ids) \cap Known(b) = {} /\ Apart(Tail(channel[b]), Known(b) \cup ToSet(e.ids))
        /\ IdsOf(channel[b]) = ToSet(e.ids) \cup IdsOf(Tail(channel[b]))
        /\ Distinct(e.ids)
    BY <1>1, <2>1, ArriveFacts DEF GetsOnce
  <2>3. lastSeq[b] <= e.seq
    <3>1. lastSeq[b] \in Nat /\ sequence \in Nat /\ InOrder(channel[b], lastSeq[b], sequence)
      BY DEF RoomTypes, Numbered
    <3> QED BY <1>1, <2>1, <3>1, ArriveFacts
  <2>4. ToSet(e.ids) \cap ToSet(seen[b]) = {}
    BY <2>2 DEF Known
  <2>5. /\ ToSet(seen'[b]) \subseteq ToSet(seen[b]) \cup ToSet(e.ids)
        /\ \A d \in Deliveries :
             /\ d \notin ToSet(e.ids) => shown'[b][d] = shown[b][d]
             /\ d \in ToSet(e.ids) => shown'[b][d] > shown[b][d]
             /\ d \in ToSet(e.ids) /\ Distinct(e.ids) => shown'[b][d] = shown[b][d] + 1
    BY <1>7, <2>3, <2>4, ReceiveFacts
  <2> HIDE DEF e
  <2>6. \A d \in Deliveries : /\ d \notin ToSet(e.ids) => shown'[b][d] = shown[b][d]
                              /\ d \in ToSet(e.ids) => shown[b][d] = 0 /\ shown'[b][d] = 1
    <3>1. ASSUME NEW d \in Deliveries, d \in ToSet(e.ids) PROVE shown[b][d] = 0
      BY <1>1, <2>2, <3>1 DEF Known
    <3> QED BY <2>2, <2>5, <3>1
  <2>7. Known(b)' \subseteq Known(b) \cup ToSet(e.ids)
    BY <2>5, <2>6 DEF Known
  <2>8. channel'[b] = Tail(channel[b])
    BY <2>1 DEF RoomTypes
  <2>9. Apart(channel'[b], Known(b)')
    BY <2>2, <2>7, <2>8 DEF Apart
  <2>10. \A d \in owed[b] : shown'[b][d] > 0 \/ d \in IdsOf(channel'[b])
    <3>1. ASSUME NEW d \in owed[b] PROVE shown'[b][d] > 0 \/ d \in IdsOf(channel'[b])
      <4>1. d \in Deliveries
        BY <1>1
      <4>2. CASE d \in ToSet(e.ids)
        BY <2>6, <4>1, <4>2
      <4>3. CASE d \notin ToSet(e.ids)
        BY <2>2, <2>6, <2>8, <4>1, <4>3 DEF GetsOnce
      <4> QED BY <4>2, <4>3
    <3> QED BY <3>1
  <2>11. IdsOf(channel'[b]) \subseteq aired /\ Known(b)' \subseteq aired
    BY <2>2, <2>7, <2>8 DEF GetsOnce
  <2>12. \A d \in Deliveries : shown'[b][d] <= 1
    BY <2>6 DEF GetsOnce
  <2> QED BY <2>1, <2>9, <2>10, <2>11, <2>12 DEF GetsOnce
<1> QED BY <1>2, <1>4, <1>5, <1>6, <1>7, SocketCases

(* While nothing goes wrong in the room, the invariant stays. *)
LEMMA SmoothInvariant == Spec => []SmoothInv
<1> DEFINE Base == ClaimsAreHeld /\ DeliveredWasAired /\ Numbered /\ PacketsArePacked
<1>1. Init => Base /\ SmoothInv
  <2> SUFFICES ASSUME Init PROVE Numbered /\ PacketsArePacked /\ SmoothInv
    BY ClaimsStart
  <2>1. /\ \A b \in Browsers : DOMAIN channel[b] = {} /\ DOMAIN seen[b] = {} /\ ToSet(seen[b]) = {}
        /\ ToSet(pending) = {}
    BY DEF Init, Offline, ToSet
  <2>2. Numbered /\ PacketsArePacked
    BY <2>1 DEF Init, Numbered, PacketsArePacked, InOrder, Packed
  <2>3. \A b \in Browsers : Known(b) = {} /\ IdsOf(channel[b]) = {}
    BY <2>1 DEF Known, IdsOf, Init
  <2> QED BY <2>1, <2>2, <2>3 DEF Init, SmoothInv, AiredOnce, GetsOnce, Apart
<1>2. RoomTypes /\ Base /\ SmoothInv /\ [Next]_vars => Base' /\ SmoothInv'
  <2> SUFFICES ASSUME RoomTypes, Base, SmoothInv, [Next]_vars PROVE Base' /\ SmoothInv'
    OBVIOUS
  <2>1. Base'
    BY ClaimsStep, NumberedStep, PackedStep
  <2>2. ASSUME Smooth' PROVE AiredOnce' /\ \A b \in Browsers : GetsOnce(b)'
    <3>1. AiredOnce /\ \A b \in Browsers : GetsOnce(b)
      BY <2>2, SmoothBefore DEF SmoothInv
    <3> QED BY <2>2, <3>1, AiredOnceStep, GetsOnceStep
  <2> QED BY <2>1, <2>2 DEF SmoothInv
<1> QED BY <1>1, <1>2, RoomTyped, PTL DEF Spec

(* A browser that has received what was sent to it has shown every pulse   *)
(* it was sent, as long as the object did not die and no claim lapsed      *)
(* under its request.                                                      *)
THEOREM NothingIsDropped == Spec => []NothingDropped
<1>1. SmoothInv => NothingDropped
  BY DEF SmoothInv, Smooth, GetsOnce, IdsOf, NothingDropped, Offline
<1> QED BY <1>1, SmoothInvariant, PTL

(* As long as that is so a browser shows a delivery once however few ids   *)
(* it remembers.                                                           *)
THEOREM ShownOnceWhileSmooth == Spec => [](Smooth => ShownOnce)
<1>1. SmoothInv => (Smooth => ShownOnce)
  BY DEF SmoothInv, GetsOnce, ShownOnce
<1> QED BY <1>1, SmoothInvariant, PTL
=============================================================================
