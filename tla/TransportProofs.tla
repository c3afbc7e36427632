---------------------------- MODULE TransportProofs -------------------------
(***************************************************************************)
(* The transports, for any log of the source, any sets of subscriptions    *)
(* and walks, any page and cache size, and any number of faults.           *)
(*                                                                         *)
(* HypersnapHttp: what a job hands to its caller has no gap and no         *)
(* repetition, since what it has at hand is always a piece of the log that *)
(* goes on where it stopped (HandsInv).  Its subscriptions keep the        *)
(* contract of Subscription (SubsInv): every step but close moves one of   *)
(* them, by nothing, by some events or to its end.  The events of a block  *)
(* never have two timestamps, since the cache vouches for every one that   *)
(* is handed over (TimesInv).                                              *)
(*                                                                         *)
(* HubStream: whatever gRPC emits, in whatever order, its subscriptions    *)
(* keep the same contract.                                                 *)
(***************************************************************************)
EXTENDS HypersnapHttp, HubStream, FiniteSetTheorems, SequenceTheorems,
        WellFoundedInduction, TLAPS

-----------------------------------------------------------------------------
(* Sequences, sets of numbers, and the log. *)

(* A sequence, of whatever. *)
IsSeq(s) == s \in Seq(ToSet(s))

(* A sequence of events: records that have an id. *)
IsEvents(s) == IsSeq(s) /\ \A i \in 1 .. Len(s) : "id" \in DOMAIN s[i]

(* Every sequence is one of its own elements. *)
LEMMA SeqIsSeq ==
  ASSUME NEW S, NEW s \in Seq(S)
  PROVE  IsSeq(s)
<1>1. DOMAIN s = 1 .. Len(s) /\ s \in [1 .. Len(s) -> S] /\ Len(s) \in Nat
  BY LenProperties
<1>2. s \in [1 .. Len(s) -> ToSet(s)]
  BY <1>1 DEF ToSet
<1> QED BY <1>1, <1>2, SeqDef DEF IsSeq

(* A sequence is a function on the positions up to its length. *)
LEMMA SeqFacts ==
  ASSUME NEW s, IsSeq(s)
  PROVE  /\ Len(s) \in Nat /\ DOMAIN s = 1 .. Len(s) /\ s = [i \in 1 .. Len(s) |-> s[i]]
         /\ s = <<>> <=> Len(s) = 0
<1>1. Len(s) \in Nat /\ DOMAIN s = 1 .. Len(s) /\ s \in [1 .. Len(s) -> ToSet(s)]
  BY LenProperties DEF IsSeq
<1>2. s = [i \in 1 .. Len(s) |-> s[i]]
  BY <1>1
<1>3. s = <<>> <=> Len(s) = 0
  BY EmptySeq DEF IsSeq
<1> QED BY <1>1, <1>2, <1>3

(* A function on 1 .. n is a sequence. *)
LEMMA FunctionIsSeq ==
  ASSUME NEW n \in Nat, NEW f, f = [i \in 1 .. n |-> f[i]]
  PROVE  IsSeq(f) /\ Len(f) = n
<1>1. DOMAIN f = 1 .. n
  OBVIOUS
<1>2. f \in [1 .. n -> ToSet(f)]
  BY <1>1 DEF ToSet
<1>3. f \in Seq(ToSet(f))
  BY <1>2, SeqDef
<1>4. DOMAIN f = 1 .. Len(f) /\ Len(f) \in Nat
  BY <1>3, LenProperties
<1>5. \A k \in Nat : 1 .. k = 1 .. n => k = n
  <2>1. ASSUME NEW k \in Nat, 1 .. k = 1 .. n PROVE k = n
    <3>1. k <= n
      <4>1. CASE k = 0
        BY <4>1
      <4>2. CASE k > 0
        <5>1. k \in 1 .. k
          BY <4>2
        <5>2. k \in 1 .. n
          BY <2>1, <5>1
        <5> QED BY <5>2
      <4> QED BY <4>1, <4>2
    <3>2. n <= k
      <4>1. CASE n = 0
        BY <4>1
      <4>2. CASE n > 0
        <5>1. n \in 1 .. n
          BY <4>2
        <5>2. n \in 1 .. k
          BY <2>1, <5>1
        <5> QED BY <5>2
      <4> QED BY <4>1, <4>2
    <3> QED BY <3>1, <3>2
  <2> QED BY <2>1
<1>6. Len(f) = n
  BY <1>1, <1>4, <1>5
<1> QED BY <1>3, <1>6 DEF IsSeq

(* What stands where in two sequences put together. *)
LEMMA ConcatIsSeq ==
  ASSUME NEW s, IsSeq(s), NEW t, IsSeq(t)
  PROVE  /\ IsSeq(s \o t) /\ Len(s \o t) = Len(s) + Len(t)
         /\ \A i \in 1 .. Len(s) + Len(t) : (s \o t)[i] = IF i <= Len(s) THEN s[i] ELSE t[i - Len(s)]
<1> DEFINE S == ToSet(s) \cup ToSet(t)
<1>1. s \in Seq(S) /\ t \in Seq(S)
  BY SeqMonotonic DEF IsSeq
<1> HIDE DEF S
<1>2. s \o t \in Seq(S)
  BY <1>1, ConcatProperties
<1> QED BY <1>1, <1>2, ConcatProperties, SeqIsSeq

(* What stands where in a part of a sequence. *)
LEMMA SubSeqIsSeq ==
  ASSUME NEW s, IsSeq(s), NEW m \in Nat \ {0}, NEW n \in 0 .. Len(s), m <= n + 1
  PROVE  /\ IsSeq(SubSeq(s, m, n)) /\ Len(SubSeq(s, m, n)) = n - m + 1
         /\ \A i \in 1 .. n - m + 1 : SubSeq(s, m, n)[i] = s[m + i - 1]
<1>1. Len(s) \in Nat /\ DOMAIN s = 1 .. Len(s)
  BY SeqFacts
<1>2. \A i \in m .. n : s[i] \in ToSet(s)
  BY <1>1 DEF ToSet
<1>3. m \in Int /\ n \in Int
  BY <1>1
<1>4. /\ SubSeq(s, m, n) \in Seq(ToSet(s))
      /\ Len(SubSeq(s, m, n)) = IF m <= n THEN n - m + 1 ELSE 0
      /\ \A i \in 1 .. n - m + 1 : SubSeq(s, m, n)[i] = s[m + i - 1]
  BY <1>2, <1>3, SubSeqProperties
<1>5. IsSeq(SubSeq(s, m, n))
  BY <1>4, SeqIsSeq
<1>6. Len(SubSeq(s, m, n)) = n - m + 1
  BY <1>3, <1>4
<1> QED BY <1>4, <1>5, <1>6

(* Nothing is a sequence, too. *)
LEMMA EmptyIsSeq == IsSeq(<<>>) /\ Len(<<>>) = 0
<1>1. <<>> \in Seq({})
  BY EmptySeq
<1> QED BY <1>1, SeqIsSeq, EmptySeq

(* The least of a set of natural numbers. *)
LEMMA MinOf ==
  ASSUME NEW S \in SUBSET Nat, S # {}
  PROVE  \E m \in S : \A x \in S : m <= x
<1>1. PICK m \in S : \A x \in S : ~(<<x, m>> \in OpToRel(<, Nat))
  BY NatLessThanWellFounded, WFMin
<1>2. ASSUME NEW x \in S PROVE m <= x
  <2>1. x \in Nat /\ m \in Nat
    OBVIOUS
  <2>2. ~(x < m)
    BY <1>1, <2>1, Zenon DEF OpToRel
  <2> QED BY <2>1, <2>2
<1> QED BY <1>2

(* The greatest of a set of natural numbers with a bound. *)
LEMMA MaxOf ==
  ASSUME NEW n \in Nat, NEW S \in SUBSET (0 .. n), S # {}
  PROVE  Max(S) \in S /\ \A x \in S : x <= Max(S)
<1> DEFINE T == {n - x : x \in S}
<1>0. \A x \in S : x \in 0 .. n
  OBVIOUS
<1>1. T \in SUBSET Nat /\ T # {}
  <2>1. \A x \in S : n - x \in Nat
    BY <1>0
  <2> QED BY <2>1
<1>2. PICK m \in S : \A y \in T : n - m <= y
  BY <1>1, MinOf
<1>3. ASSUME NEW x \in S PROVE x <= m
  <2>1. n - m <= n - x
    BY <1>2
  <2> QED BY <1>0, <2>1
<1>4. \E x \in S : \A y \in S : x >= y
  BY <1>0, <1>3
<1>5. Max(S) \in S /\ \A y \in S : Max(S) >= y
  BY <1>4 DEF Max
<1> QED BY <1>0, <1>5

(* The log is a strictly increasing sequence of ids. *)
LEMMA LogFacts ==
  /\ Log \in Seq(Nat) /\ Len(Log) \in Nat /\ DOMAIN Log = 1 .. Len(Log)
  /\ \A i \in 1 .. Len(Log) : Log[i] \in Nat /\ Log[i] \in Ids
  /\ \A i, k \in 1 .. Len(Log) : i < k => Log[i] < Log[k]
  /\ Ids \subseteq Nat
<1>1. Log \in Seq(Nat) /\ \A i, k \in DOMAIN Log : i < k => Log[i] < Log[k]
  BY ConstantsAssumption
<1>2. Len(Log) \in Nat /\ DOMAIN Log = 1 .. Len(Log) /\ Log \in [1 .. Len(Log) -> Nat]
  BY <1>1, LenProperties
<1> QED BY <1>1, <1>2 DEF Ids, ToSet

(* The events below n are the first Below(n) of the log. *)
LEMMA BelowFacts ==
  ASSUME NEW n \in Int
  PROVE  /\ Below(n) \in 0 .. Len(Log)
         /\ \A i \in 1 .. Len(Log) : Log[i] < n <=> i <= Below(n)
<1> DEFINE S == {i \in DOMAIN Log : Log[i] < n}
           T == {i \in 1 .. Len(Log) : ~(Log[i] < n)}
<1>1. \E k \in 0 .. Len(Log) : S = 1 .. k
  <2>1. CASE T = {}
    BY <2>1, LogFacts
  <2>2. CASE T # {}
    <3>1. T \in SUBSET Nat
      OBVIOUS
    <3>2. PICK m \in T : \A x \in T : m <= x
      BY <2>2, <3>1, MinOf
    <3>3. m \in 1 .. Len(Log) /\ m - 1 \in 0 .. Len(Log)
      BY LogFacts
    <3>4. \A i \in 1 .. Len(Log) : i < m => Log[i] < n
      BY <3>2, <3>3
    <3>5. \A i \in 1 .. Len(Log) : i >= m => ~(Log[i] < n)
      BY <3>2, <3>3, LogFacts
    <3>6. S = 1 .. m - 1
      BY <3>3, <3>4, <3>5, LogFacts
    <3> QED BY <3>3, <3>6
  <2> QED BY <2>1, <2>2
<1>2. PICK k \in 0 .. Len(Log) : S = 1 .. k
  BY <1>1
<1>3. k \in Nat
  BY LogFacts
<1>4. Cardinality(1 .. k) = k
  <2>1. Cardinality(1 .. k) = IF 1 > k THEN 0 ELSE k - 1 + 1
    BY <1>3, FS_Interval
  <2> QED BY <1>3, <2>1
<1>5. Below(n) = k
  BY <1>2, <1>4 DEF Below
<1>6. \A i \in 1 .. Len(Log) : i \in S <=> i <= k
  BY <1>2, <1>3
<1> QED BY <1>5, <1>6, LogFacts

(* No more events lie below an id than there are. *)
LEMMA BelowNat ==
  ASSUME NEW n \in Nat
  PROVE  Below(n) \in Nat /\ Below(n) <= Len(Log)
<1>1. n \in Int /\ Len(Log) \in Nat
  BY LogFacts
<1>2. Below(n) \in 0 .. Len(Log)
  BY <1>1, BelowFacts
<1> QED BY <1>1, <1>2

(* The events up to the i-th one are the first i. *)
LEMMA BelowAt ==
  ASSUME NEW i \in 1 .. Len(Log)
  PROVE  Below(Log[i] + 1) = i
<1>1. Log[i] \in Nat /\ Len(Log) \in Nat
  BY LogFacts
<1>2. Log[i] + 1 \in Int
  BY <1>1
<1>3. \E k \in 0 .. Len(Log) :
        k = Below(Log[i] + 1) /\ \A j \in 1 .. Len(Log) : Log[j] < Log[i] + 1 <=> j <= k
  BY <1>2, BelowFacts, Zenon
<1> PICK k \in 0 .. Len(Log) :
      k = Below(Log[i] + 1) /\ \A j \in 1 .. Len(Log) : Log[j] < Log[i] + 1 <=> j <= k
  BY <1>3
<1>4. i <= k
  BY <1>1
<1>5. ~(i < k)
  <2>1. SUFFICES ASSUME i < k PROVE FALSE
    OBVIOUS
  <2>2. k \in 1 .. Len(Log)
    BY <1>1, <2>1
  <2>3. Log[k] < Log[i] + 1 /\ Log[i] < Log[k] /\ Log[k] \in Nat
    BY <2>1, <2>2, LogFacts
  <2> QED BY <1>1, <2>3
<1>6. k = i
  BY <1>1, <1>4, <1>5
<1> QED BY <1>6

(* Between(a, b) is the part of the log from the first id that is at least *)
(* a to the last that is at most b.                                        *)
LEMMA BetweenFacts ==
  ASSUME NEW a \in Int, NEW b \in Int
  PROVE  /\ Between(a, b) \in Seq(Nat)
         /\ Len(Between(a, b)) = IF Below(a) <= Below(b + 1) THEN Below(b + 1) - Below(a) ELSE 0
         /\ Below(a) + Len(Between(a, b)) <= Len(Log)
         /\ \A i \in 1 .. Len(Between(a, b)) : Between(a, b)[i] = Log[Below(a) + i]
<1> DEFINE lo == Below(a)  hi == Below(b + 1)
<1>1. lo \in 0 .. Len(Log) /\ hi \in 0 .. Len(Log) /\ Len(Log) \in Nat
  BY BelowFacts, LogFacts
<1>2. Between(a, b) = SubSeq(Log, lo + 1, hi)
  BY DEF Between
<1> HIDE DEF lo, hi
<1>3. \A i \in lo + 1 .. hi : Log[i] \in Nat
  BY <1>1, LogFacts
<1>4. lo + 1 \in Int /\ hi \in Int
  BY <1>1
<1>5. /\ SubSeq(Log, lo + 1, hi) \in Seq(Nat)
      /\ Len(SubSeq(Log, lo + 1, hi)) = IF lo + 1 <= hi THEN hi - (lo + 1) + 1 ELSE 0
      /\ \A i \in 1 .. hi - (lo + 1) + 1 : SubSeq(Log, lo + 1, hi)[i] = Log[lo + 1 + i - 1]
  BY <1>3, <1>4, SubSeqProperties
<1>6. Len(Between(a, b)) = IF lo <= hi THEN hi - lo ELSE 0
  BY <1>1, <1>2, <1>5
<1>7. \A i \in 1 .. Len(Between(a, b)) : Between(a, b)[i] = Log[lo + i]
  <2>1. ASSUME NEW i \in 1 .. Len(Between(a, b)) PROVE Between(a, b)[i] = Log[lo + i]
    <3>1. i \in 1 .. hi - (lo + 1) + 1 /\ lo + 1 + i - 1 = lo + i
      BY <1>1, <1>6
    <3> QED BY <1>2, <1>5, <3>1
  <2> QED BY <2>1
<1>8. lo + Len(Between(a, b)) <= Len(Log)
  BY <1>1, <1>6
<1> QED BY <1>2, <1>5, <1>6, <1>7, <1>8 DEF lo, hi

-----------------------------------------------------------------------------
(* What an answer's events are. *)

(* The events p have the ids ids. *)
Spells(p, ids) ==
  IsEvents(p) /\ Len(p) = Len(ids) /\ \A i \in 1 .. Len(ids) : p[i].id = ids[i]

(* An answer as the transport reads it. *)
Read(answer) == [i \in DOMAIN answer |-> Normalized(answer[i])]

(* A page is found in one piece of the log, from the first id asked for. *)
LEMMA FoundPage ==
  ASSUME NEW q, q.op = "page", q.from \in Nat, q.stop \in Nat, NEW h \in Ids \cup {0}
  PROVE  /\ IsSeq(Found(q, h)) /\ Below(q.from) + Len(Found(q, h)) <= Len(Log)
         /\ \A i \in 1 .. Len(Found(q, h)) : Found(q, h)[i] = Log[Below(q.from) + i]
<1> DEFINE b == IF h < q.stop THEN h ELSE q.stop - 1
           B == Between(q.from, b)
           m == IF Len(B) < PageSize THEN Len(B) ELSE PageSize
<1>1. b \in Int /\ q.from \in Int
  BY LogFacts
<1>2. Found(q, h) = SubSeq(B, 1, m)
  BY DEF Found, FirstOf
<1> HIDE DEF b
<1>3. /\ B \in Seq(Nat) /\ Below(q.from) + Len(B) <= Len(Log)
      /\ \A i \in 1 .. Len(B) : B[i] = Log[Below(q.from) + i]
  BY <1>1, BetweenFacts
<1> HIDE DEF B
<1>4. IsSeq(B) /\ Len(B) \in Nat /\ Below(q.from) \in Nat /\ Len(Log) \in Nat
  BY <1>1, <1>3, SeqIsSeq, SeqFacts, BelowFacts, LogFacts
<1>5. m \in 0 .. Len(B)
  BY <1>4, ConstantsAssumption
<1> HIDE DEF m
<1>6. /\ IsSeq(SubSeq(B, 1, m)) /\ Len(SubSeq(B, 1, m)) = m - 1 + 1
      /\ \A i \in 1 .. m - 1 + 1 : SubSeq(B, 1, m)[i] = B[1 + i - 1]
  BY <1>4, <1>5, SubSeqIsSeq
<1>7. m - 1 + 1 = m /\ (\A i \in 1 .. m : 1 + i - 1 = i /\ i \in 1 .. Len(B)) /\ Below(q.from) + m <= Len(Log)
  BY <1>3, <1>4, <1>5
<1>8. \A i \in 1 .. m : SubSeq(B, 1, m)[i] = Log[Below(q.from) + i]
  BY <1>3, <1>6, <1>7
<1> QED BY <1>2, <1>6, <1>7, <1>8

(* A head and an event are found as one event, or as none. *)
LEMMA FoundOther ==
  ASSUME NEW q, q.op \in {"head", "event"}, NEW h \in Ids \cup {0}
  PROVE  /\ IsSeq(Found(q, h)) /\ Len(Found(q, h)) <= 1
         /\ q.op = "head" => \A i \in 1 .. Len(Found(q, h)) : Found(q, h)[i] \in Ids
<1>1. ASSUME NEW e PROVE IsSeq(<< e >>) /\ Len(<< e >>) = 1 /\ << e >>[1] = e
  <2>1. << e >> \in Seq({e})
    OBVIOUS
  <2> QED BY <2>1, SeqIsSeq
<1>2. IsSeq(<<>>) /\ Len(<<>>) = 0
  BY EmptyIsSeq
<1>3. CASE q.op = "head"
  <2>1. CASE h = 0
    BY <1>2, <1>3, <2>1 DEF Found
  <2>2. CASE h # 0
    <3>1. Found(q, h) = << h >>
      BY <1>3, <2>2 DEF Found
    <3> QED BY <1>1, <2>2, <3>1
  <2> QED BY <2>1, <2>2
<1>4. CASE q.op = "event"
  <2>1. Found(q, h) = << q.from >> \/ Found(q, h) = <<>>
    BY <1>4 DEF Found
  <2>2. q.op # "head"
    BY <1>4
  <2>3. IsSeq(<< q.from >>) /\ Len(<< q.from >>) = 1
    BY <1>1
  <2>4. IsSeq(Found(q, h)) /\ (Len(Found(q, h)) = 0 \/ Len(Found(q, h)) = 1)
    BY <1>2, <2>1, <2>3, Zenon
  <2>5. CASE Len(Found(q, h)) = 0
    BY <2>2, <2>4, <2>5
  <2>6. CASE Len(Found(q, h)) = 1
    BY <2>2, <2>4, <2>6
  <2> QED BY <2>4, <2>5, <2>6
<1> QED BY <1>3, <1>4

(* An answer without a fault has the ids of what was found. *)
LEMMA HonestSpells ==
  ASSUME NEW ids, IsSeq(ids)
  PROVE  Spells(Read(Faithful(ids)), ids)
<1> DEFINE a == Faithful(ids)
<1>1. Len(ids) \in Nat /\ DOMAIN ids = 1 .. Len(ids)
  BY SeqFacts
<1>2. Read(a) = [i \in 1 .. Len(ids) |-> Normalized(Honest(ids[i]))]
  BY <1>1 DEF Read, Faithful
<1>3. \A e : Normalized(Honest(e)).id = e /\ "id" \in DOMAIN Normalized(Honest(e))
  BY DEF Normalized, Honest
<1> HIDE DEF a
<1>4. Read(a) = [i \in 1 .. Len(ids) |-> Read(a)[i]]
  BY <1>2
<1>5. IsSeq(Read(a)) /\ Len(Read(a)) = Len(ids)
  BY <1>1, <1>4, FunctionIsSeq
<1>6. \A i \in 1 .. Len(ids) : Read(a)[i].id = ids[i] /\ "id" \in DOMAIN Read(a)[i]
  BY <1>2, <1>3
<1>7. Spells(Read(a), ids)
  BY <1>5, <1>6 DEF Spells, IsEvents
<1> QED BY <1>7 DEF a

(* An event that was spoilt has kept its id. *)
LEMMA SpoiltSpells ==
  ASSUME NEW ids, IsSeq(ids), NEW i \in 1 .. Len(ids), NEW v \in Spoilt(Honest(ids[i]))
  PROVE  Spells(Read([Faithful(ids) EXCEPT ![i] = v]), ids)
<1> DEFINE a == [Faithful(ids) EXCEPT ![i] = v]
<1>1. Len(ids) \in Nat /\ DOMAIN ids = 1 .. Len(ids)
  BY SeqFacts
<1>2. \A u : "id" \in DOMAIN u => \A w \in Spoilt(u) : w.id = u.id
  BY DEF Spoilt
<1>3. \A e : "id" \in DOMAIN Honest(e) /\ Honest(e).id = e
  BY DEF Honest
<1>4. v.id = ids[i]
  BY <1>2, <1>3
<1>5. DOMAIN a = 1 .. Len(ids) /\ \A k \in 1 .. Len(ids) : a[k].id = ids[k]
  BY <1>1, <1>3, <1>4 DEF Faithful
<1> HIDE DEF a
<1>6. Read(a) = [k \in 1 .. Len(ids) |-> Normalized(a[k])]
  BY <1>5 DEF Read
<1>7. \A w : Normalized(w).id = w.id /\ "id" \in DOMAIN Normalized(w)
  BY DEF Normalized
<1>8. Read(a) = [k \in 1 .. Len(ids) |-> Read(a)[k]]
  BY <1>6
<1>9. IsSeq(Read(a)) /\ Len(Read(a)) = Len(ids)
  BY <1>1, <1>8, FunctionIsSeq
<1>10. \A k \in 1 .. Len(ids) : Read(a)[k].id = ids[k] /\ "id" \in DOMAIN Read(a)[k]
  BY <1>5, <1>6, <1>7
<1>11. Spells(Read(a), ids)
  BY <1>9, <1>10 DEF Spells, IsEvents
<1> QED BY <1>11 DEF a

(* A page out of order, or with an event too many, is a sequence of ids. *)
LEMMA ConfusedIsSeq ==
  ASSUME NEW q, NEW ids, IsSeq(ids), NEW c \in Confused(q, ids)
  PROVE  IsSeq(c)
<1>1. CASE c = Reverse(ids)
  <2>1. Len(ids) \in Nat
    BY SeqFacts
  <2>2. c = [i \in 1 .. Len(ids) |-> c[i]]
    BY <1>1 DEF Reverse
  <2> QED BY <2>1, <2>2, FunctionIsSeq
<1>2. ASSUME NEW e PROVE IsSeq(<< e >>)
  <2>1. << e >> \in Seq({e})
    OBVIOUS
  <2> QED BY <2>1, SeqIsSeq
<1>3. ASSUME NEW e \in Ids, c = << e >> \o ids PROVE IsSeq(c)
  BY <1>2, <1>3, ConcatIsSeq
<1>4. ASSUME NEW e \in Ids, c = Append(ids, e) PROVE IsSeq(c)
  <2>1. Append(ids, e) = ids \o << e >>
    BY AppendIsConcat DEF IsSeq
  <2> QED BY <1>2, <1>4, <2>1, ConcatIsSeq
<1> QED BY <1>1, <1>3, <1>4 DEF Confused

(* Whatever the fault of an answer, its events have the ids that the       *)
(* backend found, or those of a confused page.                             *)
LEMMA AnswerSpells ==
  ASSUME NEW q, NEW h, IsSeq(Found(q, h)), NEW answer,
         answer = Answer(q, h) \/ answer \in CorruptAnswers(q, h)
  PROVE  \E ids : /\ IsSeq(ids) /\ Spells(Read(answer), ids)
                  /\ ids = Found(q, h) \/ (q.op = "page" /\ ids \in Confused(q, Found(q, h)))
<1> DEFINE F == Found(q, h)
<1>1. Answer(q, h) = Faithful(F)
  BY DEF Answer
<1>2. DOMAIN F = 1 .. Len(F) /\ DOMAIN Faithful(F) = DOMAIN F /\ \A i \in DOMAIN F : Faithful(F)[i] = Honest(F[i])
  BY SeqFacts DEF Faithful
<1>3. CorruptAnswers(q, h) =
        (UNION { { [Faithful(F) EXCEPT ![i] = v] : v \in Spoilt(Faithful(F)[i]) } : i \in DOMAIN Faithful(F) })
        \cup (IF q.op # "page" THEN {} ELSE { Faithful(ids) : ids \in Confused(q, F) })
  BY DEF CorruptAnswers, Answer
<1> HIDE DEF F
<1>4. IsSeq(F)
  BY DEF F
<1>5. \/ answer = Faithful(F)
      \/ \E i \in DOMAIN F : \E v \in Spoilt(Faithful(F)[i]) : answer = [Faithful(F) EXCEPT ![i] = v]
      \/ q.op = "page" /\ \E ids \in Confused(q, F) : answer = Faithful(ids)
  BY <1>1, <1>2, <1>3
<1>6. CASE answer = Faithful(F)
  BY <1>4, <1>6, HonestSpells DEF F
<1>7. ASSUME NEW i \in DOMAIN F, NEW v \in Spoilt(Faithful(F)[i]), answer = [Faithful(F) EXCEPT ![i] = v]
      PROVE  Spells(Read(answer), F)
  <2>1. v \in Spoilt(Honest(F[i])) /\ i \in 1 .. Len(F)
    BY <1>2, <1>7
  <2> QED BY <1>4, <1>7, <2>1, SpoiltSpells
<1>8. ASSUME NEW ids \in Confused(q, F), answer = Faithful(ids)
      PROVE  IsSeq(ids) /\ Spells(Read(answer), ids)
  <2>1. IsSeq(ids)
    BY <1>4, ConfusedIsSeq
  <2> QED BY <1>8, <2>1, HonestSpells
<1>9. CASE \E i \in DOMAIN F : \E v \in Spoilt(Faithful(F)[i]) : answer = [Faithful(F) EXCEPT ![i] = v]
  BY <1>4, <1>7, <1>9 DEF F
<1>10. CASE q.op = "page" /\ \E ids \in Confused(q, F) : answer = Faithful(ids)
  BY <1>8, <1>10 DEF F
<1> QED BY <1>5, <1>6, <1>9, <1>10

(* The events s are those of the log that follow its first lo ones. *)
IsPiece(s, lo) == lo + Len(s) <= Len(Log) /\ \A i \in 1 .. Len(s) : s[i].id = Log[lo + i]

(* What the answer to q consists of, once it is accepted. *)
Carries(q, s) ==
  /\ q.op = "page" => IsPiece(s, Below(q.from))
  /\ q.op = "head" => Len(s) <= 1 /\ \A i \in 1 .. Len(s) : s[i].id \in Ids

(* What a job may ask for. *)
IsRequest(q) ==
  /\ q.op \in {"head", "page", "event"}
  /\ q.op = "page" => q.from \in Nat /\ q.stop \in Nat

(* A page that a confused backend returns is not in order, unless nothing  *)
(* is wrong with it.                                                       *)
LEMMA ConfusedIsRefused ==
  ASSUME NEW q, IsRequest(q), q.op = "page", NEW h \in Ids \cup {0}, NEW p,
         NEW ids \in Confused(q, Found(q, h)), Spells(p, ids), Forward(p, q.from, q.stop)
  PROVE  Spells(p, Found(q, h))
<1> DEFINE F == Found(q, h)
           lo == Below(q.from)
<1>1. /\ IsSeq(F) /\ lo + Len(F) <= Len(Log)
      /\ \A i \in 1 .. Len(F) : F[i] = Log[lo + i]
  BY FoundPage DEF IsRequest
<1>2. Len(F) \in Nat /\ lo \in Nat /\ q.from \in Nat /\ q.stop \in Nat /\ Len(Log) \in Nat
  BY <1>1, SeqFacts, BelowFacts, LogFacts DEF IsRequest
<1>3. ids \in Confused(q, F) /\ IsSeq(ids)
  BY <1>1, ConfusedIsSeq
<1> HIDE DEF F, lo
<1>4. Len(ids) \in Nat /\ Len(p) = Len(ids) /\ DOMAIN p = 1 .. Len(p) /\ IsEvents(p)
      /\ \A i \in 1 .. Len(ids) : p[i].id = ids[i]
  BY <1>3, SeqFacts DEF Spells, IsEvents
<1>5. /\ \A i \in 1 .. Len(ids) : q.from <= ids[i] /\ ids[i] < q.stop
      /\ \A i \in 2 .. Len(ids) : ids[i - 1] < ids[i]
  <2>1. \A i \in 2 .. Len(ids) : i - 1 \in 1 .. Len(ids) /\ i \in 1 .. Len(ids)
    BY <1>4
  <2>2. /\ \A i \in 1 .. Len(ids) : q.from <= p[i].id /\ p[i].id < q.stop
        /\ \A i \in 2 .. Len(ids) : p[i - 1].id < p[i].id
    BY <1>4 DEF Forward
  <2> QED BY <1>4, <2>1, <2>2
<1>6. CASE ids = Reverse(F)
  <2>1. Len(ids) = Len(F) /\ \A i \in 1 .. Len(F) : ids[i] = F[Len(F) - i + 1]
    <3>1. ids = [i \in 1 .. Len(F) |-> F[Len(F) - i + 1]]
      BY <1>6 DEF Reverse
    <3>2. ids = [i \in 1 .. Len(F) |-> ids[i]]
      BY <3>1
    <3> QED BY <1>2, <3>1, <3>2, FunctionIsSeq
  <2>2. ~(Len(F) > 1)
    <3>1. SUFFICES ASSUME Len(F) > 1 PROVE FALSE
      OBVIOUS
    <3>2. 1 \in 1 .. Len(F) /\ 2 \in 1 .. Len(F) /\ 2 \in 2 .. Len(ids)
      BY <1>2, <2>1, <3>1
    <3>3. ids[1] < ids[2]
      BY <1>5, <3>2
    <3>4. ids[1] = F[Len(F)] /\ ids[2] = F[Len(F) - 1]
      BY <1>2, <2>1, <3>2
    <3>5. Len(F) \in 1 .. Len(F) /\ Len(F) - 1 \in 1 .. Len(F)
      BY <1>2, <3>1
    <3>6. ids[1] = Log[lo + Len(F)] /\ ids[2] = Log[lo + (Len(F) - 1)]
      BY <1>1, <3>4, <3>5
    <3>7. lo + Len(F) \in 1 .. Len(Log) /\ lo + (Len(F) - 1) \in 1 .. Len(Log) /\ lo + (Len(F) - 1) < lo + Len(F)
      BY <1>1, <1>2, <3>1
    <3>8. ids[2] < ids[1] /\ ids[1] \in Nat /\ ids[2] \in Nat
      BY <3>6, <3>7, LogFacts
    <3> QED BY <3>3, <3>8
  <2>3. \A i \in 1 .. Len(F) : ids[i] = F[i]
    <3>1. \A i \in 1 .. Len(F) : Len(F) - i + 1 = i
      BY <1>2, <2>2
    <3> QED BY <2>1, <3>1
  <2> QED BY <1>4, <2>1, <2>3 DEF Spells, F
<1>7. ASSUME NEW e, NEW t, IsSeq(t) PROVE (<< e >> \o t)[1] = e /\ Len(<< e >> \o t) = Len(t) + 1
  <2>1. << e >> \in Seq({e}) /\ Len(<< e >>) = 1 /\ << e >>[1] = e
    OBVIOUS
  <2>2. IsSeq(<< e >>)
    BY <2>1, SeqIsSeq
  <2>3. Len(t) \in Nat
    BY <1>7, SeqFacts
  <2>4. Len(<< e >> \o t) = 1 + Len(t) /\ \A i \in 1 .. 1 + Len(t) :
           (<< e >> \o t)[i] = IF i <= 1 THEN << e >>[i] ELSE t[i - 1]
    BY <1>7, <2>1, <2>2, ConcatIsSeq
  <2> QED BY <2>1, <2>3, <2>4
<1>8. ASSUME NEW e \in Ids, e < q.from, ids = << e >> \o F PROVE FALSE
  <2>1. ids[1] = e /\ Len(ids) = Len(F) + 1
    BY <1>1, <1>7, <1>8 DEF F
  <2>2. 1 \in 1 .. Len(ids)
    BY <1>2, <2>1
  <2>3. q.from <= e /\ e \in Nat
    BY <1>5, <2>1, <2>2, LogFacts
  <2> QED BY <1>2, <1>8, <2>3
<1>9. ASSUME NEW e \in Ids, e >= q.stop, ids = Append(F, e) PROVE FALSE
  <2>1. Len(ids) = Len(F) + 1 /\ ids[Len(F) + 1] = e
    <3>1. F \in Seq(ToSet(F) \cup {e}) /\ e \in ToSet(F) \cup {e}
      <4>1. F \in Seq(ToSet(F))
        BY <1>1 DEF IsSeq, F
      <4> QED BY <4>1, SeqMonotonic
    <3> QED BY <1>9, <3>1, AppendProperties
  <2>2. Len(F) + 1 \in 1 .. Len(ids)
    BY <1>2, <2>1
  <2>3. e < q.stop /\ e \in Nat
    BY <1>5, <2>1, <2>2, LogFacts
  <2> QED BY <1>2, <1>9, <2>3
<1> QED BY <1>3, <1>6, <1>8, <1>9 DEF Confused

(* What is accepted of an answer is what was asked for. *)
LEMMA AcceptedCarries ==
  ASSUME NEW q, IsRequest(q), NEW h \in Ids \cup {0}, NEW answer,
         answer = Answer(q, h) \/ answer \in CorruptAnswers(q, h),
         q.op = "page" => Forward(Read(answer), q.from, q.stop)
  PROVE  IsEvents(Read(answer)) /\ Carries(q, Read(answer))
<1>1. IsSeq(Found(q, h))
  BY FoundPage, FoundOther DEF IsRequest
<1>2. PICK ids : /\ IsSeq(ids) /\ Spells(Read(answer), ids)
                 /\ ids = Found(q, h) \/ (q.op = "page" /\ ids \in Confused(q, Found(q, h)))
  BY <1>1, AnswerSpells
<1>3. Spells(Read(answer), Found(q, h))
  BY <1>2, ConfusedIsRefused
<1>4. CASE q.op = "page"
  BY <1>3, <1>4, FoundPage DEF Carries, IsPiece, Spells, IsRequest
<1>5. CASE q.op \in {"head", "event"}
  BY <1>3, <1>5, FoundOther DEF Carries, Spells
<1> QED BY <1>3, <1>4, <1>5 DEF Spells, IsRequest

-----------------------------------------------------------------------------
(* What holds of a job and of what it has handed over. *)

(* The fields of a job, and where it is while it has a request. *)
Fields == {"at", "q", "got", "todo", "block", "next"}
Busy == {"gate", "flight", "hand"}

(* A page that waits at the gate or in flight for a block's timestamp, or  *)
(* for the caller, is what was asked for.                                  *)
JobOk(x) ==
  /\ DOMAIN x = Fields /\ IsEvents(x.got) /\ IsEvents(x.todo)
  /\ x.next \in Nat /\ IsRequest(x.q)
  /\ x.at = "hand" => x.block = 0 /\ Carries(x.q, x.got)
  /\ x.at \in {"gate", "flight"} /\ x.block # 0 => Carries(x.q, x.got \o x.todo)

(* Where a subscription goes on after the head e it found first, if it was *)
(* asked to start at f.                                                    *)
StartAfter(f, e) == IF f > e + 1 THEN f ELSE e + 1

(* How many events of the log precede what follows the head. *)
Base(f, z) == Below(StartAfter(f, z[1].id))

(* What a subscription has handed over: a head, then the log from there.   *)
Follows(f, z) ==
  z # <<>> =>
    /\ z[1].id \in Nat /\ Base(f, z) + (Len(z) - 1) <= Len(Log)
    /\ \A i \in 2 .. Len(z) : z[i].id = Log[Base(f, z) + (i - 1)]

(* A subscription has handed over what follows its head, and its next poll *)
(* or page starts right after that.                                        *)
SubHands(f, x, z) ==
  /\ Follows(f, z)
  /\ x.at = "idle" => z = <<>>
  /\ x.at # "over" => (x.next = 0 <=> z = <<>>)
  /\ x.at # "over" /\ z # <<>> => Below(x.next) = Base(f, z) + (Len(z) - 1)
  /\ x.at \in Busy => /\ x.q.op \in {"head", "page"}
                      /\ x.q.op = "page" => x.q.from = x.next /\ x.next # 0

(* A walk has handed over a piece of the log from its first id on, and its *)
(* next page starts right after that.                                      *)
WalkHands(f, x, z) ==
  /\ IsPiece(z, Below(f))
  /\ x.at = "idle" => z = <<>>
  /\ x.at \in Busy => /\ x.q.op \in {"event", "page"}
                      /\ x.q.op = "event" => z = <<>>
                      /\ x.q.op = "page" => Below(x.q.from) = Below(f) + Len(z)

(* What holds of job t when it is in state x and has handed over z. *)
Keeps(t, x, z) ==
  /\ JobOk(x) /\ IsEvents(z)
  /\ t \in Subs => SubHands(From[t], x, z)
  /\ t \in Walks => WalkHands(From[t], x, z)

(* The inductive invariant of what is handed over. *)
HandsInv ==
  /\ head \in Ids \cup {0} /\ queue \in Seq(Jobs)
  /\ job = [t \in Jobs |-> job[t]] /\ seen = [t \in Jobs |-> seen[t]]
  /\ \A t \in Jobs : Keeps(t, job[t], seen[t])

(* The states that a job is put into: at its end, in a pause, at the gate. *)
Ended == [Idle EXCEPT !.at = "over"]
Paused(next) == [Idle EXCEPT !.at = "pause", !.next = next]
Requesting(x, q, b, got, todo) ==
  [x EXCEPT !.at = "gate", !.q = q, !.block = b, !.got = got, !.todo = todo]

(* The fields of the initial state of a job, and of those three. *)
LEMMA IdleFields ==
  /\ DOMAIN Idle = Fields /\ Idle.at = "idle" /\ Idle.q = HeadRequest /\ Idle.got = <<>>
  /\ Idle.todo = <<>> /\ Idle.block = 0 /\ Idle.next = 0
  BY DEF Idle, Fields, HeadRequest

(* The fields of a job at its end. *)
LEMMA EndedFields ==
  /\ DOMAIN Ended = Fields /\ Ended.at = "over" /\ Ended.q = HeadRequest /\ Ended.got = <<>>
  /\ Ended.todo = <<>> /\ Ended.next = 0
  BY IdleFields DEF Ended, Fields

(* The fields of a job in a pause. *)
LEMMA PausedFields ==
  ASSUME NEW n
  PROVE  /\ DOMAIN Paused(n) = Fields /\ Paused(n).at = "pause" /\ Paused(n).q = HeadRequest
         /\ Paused(n).got = <<>> /\ Paused(n).todo = <<>> /\ Paused(n).next = n
  BY IdleFields DEF Paused, Fields

(* The fields of a job at the gate. *)
LEMMA RequestingFields ==
  ASSUME NEW x, DOMAIN x = Fields, NEW q, NEW b, NEW got, NEW todo
  PROVE  LET y == Requesting(x, q, b, got, todo)
         IN  /\ DOMAIN y = Fields /\ y.at = "gate" /\ y.q = q /\ y.block = b
             /\ y.got = got /\ y.todo = todo /\ y.next = x.next
  BY DEF Requesting, Fields

(* What jobs ask for are requests. *)
LEMMA RequestFacts ==
  /\ IsRequest(HeadRequest) /\ HeadRequest.op = "head"
  /\ \A e : IsRequest(EventRequest(e)) /\ EventRequest(e).op = "event"
  /\ \A a, b : LET q == PageRequest(a, b) IN q.op = "page" /\ q.from = a /\ q.stop = b
  /\ \A a, b \in Nat : IsRequest(PageRequest(a, b))
  BY DEF IsRequest, HeadRequest, EventRequest, PageRequest

(* No events are events, too. *)
LEMMA EmptyIsEvents == IsEvents(<<>>)
  BY EmptyIsSeq DEF IsEvents

(* A job that has come to its end keeps nothing but what it handed over. *)
LEMMA EndedKeeps ==
  ASSUME NEW t, NEW z, IsEvents(z),
         t \in Subs => Follows(From[t], z), t \in Walks => IsPiece(z, Below(From[t]))
  PROVE  Keeps(t, Ended, z)
<1>1. JobOk(Ended)
  BY EndedFields, RequestFacts, EmptyIsEvents DEF JobOk
<1> QED BY <1>1, EndedFields DEF Keeps, SubHands, WalkHands, Busy

(* A new request of a job that has nothing at hand. *)
LEMMA RequestingKeeps ==
  ASSUME NEW t, NEW x, NEW z, JobOk(x), IsEvents(z), NEW q, IsRequest(q),
         NEW y, y = Requesting(x, q, 0, <<>>, <<>>),
         t \in Subs => /\ Follows(From[t], z)
                       /\ x.next = 0 <=> z = <<>>
                       /\ z # <<>> => Below(x.next) = Base(From[t], z) + (Len(z) - 1)
                       /\ q.op \in {"head", "page"}
                       /\ q.op = "page" => q.from = x.next /\ x.next # 0,
         t \in Walks => /\ IsPiece(z, Below(From[t])) /\ q.op \in {"event", "page"}
                        /\ q.op = "event" => z = <<>>
                        /\ q.op = "page" => Below(q.from) = Below(From[t]) + Len(z)
  PROVE  Keeps(t, y, z)
<1>1. DOMAIN x = Fields /\ x.next \in Nat
  BY DEF JobOk
<1>2. /\ DOMAIN y = Fields /\ y.at = "gate" /\ y.q = q /\ y.block = 0
      /\ y.got = <<>> /\ y.todo = <<>> /\ y.next = x.next
  BY <1>1, RequestingFields
<1>3. JobOk(y)
  BY <1>1, <1>2, EmptyIsEvents DEF JobOk
<1> QED BY <1>2, <1>3 DEF Keeps, SubHands, WalkHands, Busy

(* A job that goes on with the request it has. *)
LEMMA SameRequestKeeps ==
  ASSUME NEW t, NEW x, NEW z, Keeps(t, x, z), x.at \in Busy,
         NEW y, DOMAIN y = Fields, y.at \in Busy, y.q = x.q, y.next = x.next,
         IsEvents(y.got), IsEvents(y.todo),
         y.at = "hand" => y.block = 0 /\ Carries(y.q, y.got),
         y.at \in {"gate", "flight"} /\ y.block # 0 => Carries(y.q, y.got \o y.todo)
  PROVE  Keeps(t, y, z)
<1>1. JobOk(y)
  BY DEF Keeps, JobOk
<1>2. y.at # "idle" /\ y.at # "over" /\ x.at # "over" /\ y.q.op = x.q.op
  BY DEF Busy
<1>3. ASSUME SubHands(From[t], x, z) PROVE SubHands(From[t], y, z)
  BY <1>2, <1>3 DEF SubHands
<1>4. ASSUME WalkHands(From[t], x, z) PROVE WalkHands(From[t], y, z)
  BY <1>2, <1>4 DEF WalkHands
<1> QED BY <1>1, <1>3, <1>4 DEF Keeps

(* Events that have the ids of others are the same to the caller. *)
SameIds(s, r) == IsEvents(s) /\ Len(s) = Len(r) /\ \A i \in 1 .. Len(r) : s[i].id = r[i].id

(* What an answer consists of is a matter of its ids. *)
LEMMA SameIdsCarry ==
  ASSUME NEW q, NEW r, NEW s, SameIds(s, r), Carries(q, r)
  PROVE  Carries(q, s)
  BY DEF Carries, SameIds, IsPiece

(* Events followed by events are events. *)
LEMMA EventsConcat ==
  ASSUME NEW s, IsEvents(s), NEW r, IsEvents(r)
  PROVE  IsEvents(s \o r)
<1>1. IsSeq(s) /\ IsSeq(r) /\ Len(s) \in Nat /\ Len(r) \in Nat
  BY SeqFacts DEF IsEvents
<1>2. /\ IsSeq(s \o r) /\ Len(s \o r) = Len(s) + Len(r)
      /\ \A i \in 1 .. Len(s) + Len(r) : (s \o r)[i] = IF i <= Len(s) THEN s[i] ELSE r[i - Len(s)]
  BY <1>1, ConcatIsSeq
<1>3. ASSUME NEW i \in 1 .. Len(s) + Len(r) PROVE "id" \in DOMAIN (s \o r)[i]
  <2>1. CASE i <= Len(s)
    <3>1. i \in 1 .. Len(s)
      BY <1>1, <2>1
    <3> QED BY <1>2, <2>1, <3>1 DEF IsEvents
  <2>2. CASE ~(i <= Len(s))
    <3>1. i - Len(s) \in 1 .. Len(r)
      BY <1>1, <2>2
    <3> QED BY <1>2, <2>2, <3>1 DEF IsEvents
  <2> QED BY <2>1, <2>2
<1> QED BY <1>2, <1>3 DEF IsEvents

(* A part of some events is events. *)
LEMMA EventsSubSeq ==
  ASSUME NEW s, IsEvents(s), NEW m \in Nat \ {0}, NEW n \in 0 .. Len(s), m <= n + 1
  PROVE  IsEvents(SubSeq(s, m, n))
<1>1. IsSeq(s) /\ Len(s) \in Nat /\ m \in Nat /\ n \in Nat
  BY SeqFacts DEF IsEvents
<1>2. /\ IsSeq(SubSeq(s, m, n)) /\ Len(SubSeq(s, m, n)) = n - m + 1
      /\ \A i \in 1 .. n - m + 1 : SubSeq(s, m, n)[i] = s[m + i - 1]
  BY <1>1, SubSeqIsSeq
<1>3. \A i \in 1 .. n - m + 1 : m + i - 1 \in 1 .. Len(s)
  BY <1>1
<1> QED BY <1>2, <1>3 DEF IsEvents

(* Stamping the first n events of what is still to do. *)
FirstStamped(c, todo, n) == [i \in 1 .. n |-> Stamped(c, todo[i])]

(* The page of a job after that. *)
StampedTo(c, got, todo, n) == got \o FirstStamped(c, todo, n)

(* A stamp leaves an event its id. *)
LEMMA StampedIsEvents ==
  ASSUME NEW c, NEW todo, IsEvents(todo), NEW n \in 0 .. Len(todo)
  PROVE  LET s == FirstStamped(c, todo, n)
         IN  IsEvents(s) /\ Len(s) = n /\ \A i \in 1 .. n : s[i].id = todo[i].id
<1> DEFINE s == FirstStamped(c, todo, n)
<1>1. Len(todo) \in Nat /\ n \in Nat
  BY SeqFacts DEF IsEvents
<1>2. \A i \in 1 .. n : "id" \in DOMAIN todo[i]
  BY <1>1 DEF IsEvents
<1>3. \A v : "id" \in DOMAIN v => "id" \in DOMAIN Stamped(c, v) /\ Stamped(c, v).id = v.id
  BY DEF Stamped
<1>4. s = [i \in 1 .. n |-> s[i]]
  BY DEF FirstStamped
<1>5. IsSeq(s) /\ Len(s) = n
  BY <1>1, <1>4, FunctionIsSeq
<1>6. \A i \in 1 .. n : s[i].id = todo[i].id /\ "id" \in DOMAIN s[i]
  BY <1>2, <1>3 DEF FirstStamped
<1> QED BY <1>5, <1>6 DEF IsEvents

(* What is stamped and what is still to be stamped is the page that was    *)
(* accepted.                                                               *)
LEMMA StampedCarries ==
  ASSUME NEW c, NEW got, IsEvents(got), NEW todo, IsEvents(todo), NEW n \in 0 .. Len(todo)
  PROVE  LET s == StampedTo(c, got, todo, n)
             r == SubSeq(todo, n + 1, Len(todo))
         IN  IsEvents(s) /\ IsEvents(r) /\ SameIds(s \o r, got \o todo)
                         /\ (n = Len(todo) => SameIds(s, got \o todo))
<1> DEFINE a == FirstStamped(c, todo, n)
           s == got \o a
           r == SubSeq(todo, n + 1, Len(todo))
<1>1. Len(todo) \in Nat /\ Len(got) \in Nat /\ n \in Nat /\ IsSeq(got) /\ IsSeq(todo)
  BY SeqFacts DEF IsEvents
<1>2. IsEvents(a) /\ Len(a) = n /\ \A i \in 1 .. n : a[i].id = todo[i].id
  BY StampedIsEvents
<1> HIDE DEF a
<1>3. IsSeq(a)
  BY <1>2 DEF IsEvents
<1>4. IsEvents(s) /\ Len(s) = Len(got) + n
      /\ \A i \in 1 .. Len(got) + n : s[i] = IF i <= Len(got) THEN got[i] ELSE a[i - Len(got)]
  BY <1>1, <1>2, <1>3, EventsConcat, ConcatIsSeq
<1> HIDE DEF s
<1>5. n + 1 \in Nat \ {0} /\ Len(todo) \in 0 .. Len(todo) /\ n + 1 <= Len(todo) + 1 /\ Len(todo) - (n + 1) + 1 = Len(todo) - n
  BY <1>1
<1>6. IsEvents(r) /\ IsSeq(r) /\ Len(r) = Len(todo) - n
      /\ \A i \in 1 .. Len(todo) - n : r[i] = todo[n + 1 + i - 1]
  <2>1. IsEvents(r)
    BY <1>5, EventsSubSeq
  <2>2. /\ IsSeq(r) /\ Len(r) = Len(todo) - (n + 1) + 1
        /\ \A i \in 1 .. Len(todo) - (n + 1) + 1 : r[i] = todo[n + 1 + i - 1]
    BY <1>1, <1>5, SubSeqIsSeq
  <2> QED BY <1>5, <2>1, <2>2
<1> HIDE DEF r
<1>7. Len(got \o todo) = Len(got) + Len(todo)
      /\ \A i \in 1 .. Len(got) + Len(todo) : (got \o todo)[i] = IF i <= Len(got) THEN got[i] ELSE todo[i - Len(got)]
  BY <1>1, ConcatIsSeq
<1>8. \A i \in 1 .. Len(got) + n : s[i].id = (got \o todo)[i].id
  <2>1. ASSUME NEW i \in 1 .. Len(got) + n PROVE s[i].id = (got \o todo)[i].id
    <3>1. i \in 1 .. Len(got) + Len(todo)
      BY <1>1
    <3>2. CASE i <= Len(got)
      BY <1>4, <1>7, <3>1, <3>2
    <3>3. CASE ~(i <= Len(got))
      <4>1. i - Len(got) \in 1 .. n
        BY <1>1, <3>3
      <4> QED BY <1>2, <1>4, <1>7, <3>1, <3>3, <4>1
    <3> QED BY <3>2, <3>3
  <2> QED BY <2>1
<1>9. IsSeq(s) /\ IsEvents(s \o r)
  BY <1>4, <1>6, EventsConcat DEF IsEvents
<1>10. /\ Len(s \o r) = Len(s) + Len(r)
       /\ \A i \in 1 .. Len(s) + Len(r) : (s \o r)[i] = IF i <= Len(s) THEN s[i] ELSE r[i - Len(s)]
  BY <1>6, <1>9, ConcatIsSeq
<1>11. Len(s) + Len(r) = Len(got) + Len(todo)
  BY <1>1, <1>4, <1>6
<1>12. ASSUME NEW i \in 1 .. Len(got) + Len(todo) PROVE (s \o r)[i].id = (got \o todo)[i].id
  <2>1. (s \o r)[i] = IF i <= Len(s) THEN s[i] ELSE r[i - Len(s)]
    BY <1>10, <1>11
  <2>2. CASE i <= Len(s)
    <3>1. i \in 1 .. Len(got) + n
      BY <1>1, <1>4, <2>2
    <3> QED BY <1>8, <2>1, <2>2, <3>1
  <2>3. CASE ~(i <= Len(s))
    <3>1. i - Len(s) \in 1 .. Len(todo) - n /\ n + 1 + (i - Len(s)) - 1 = i - Len(got) /\ ~(i <= Len(got))
      BY <1>1, <1>4, <2>3
    <3>2. r[i - Len(s)] = todo[i - Len(got)]
      BY <1>6, <3>1
    <3> QED BY <1>7, <2>1, <2>3, <3>1, <3>2
  <2> QED BY <2>2, <2>3
<1>13. SameIds(s \o r, got \o todo)
  BY <1>7, <1>9, <1>10, <1>11, <1>12 DEF SameIds
<1>14. n = Len(todo) => SameIds(s, got \o todo)
  BY <1>4, <1>7, <1>8 DEF SameIds
<1> QED BY <1>4, <1>6, <1>13, <1>14 DEF s, r, a, StampedTo

-----------------------------------------------------------------------------
(* The steps of a job. *)

(* Job t moves, and the invariant holds of it afterwards. *)
Turns(t) ==
  \E x, z : job' = [job EXCEPT ![t] = x] /\ seen' = [seen EXCEPT ![t] = z] /\ Keeps(t, x, z)

(* What the invariant says of a single job. *)
LEMMA JobFacts ==
  ASSUME HandsInv, NEW t \in Jobs
  PROVE  /\ Keeps(t, job[t], seen[t]) /\ JobOk(job[t]) /\ DOMAIN job[t] = Fields /\ IsEvents(seen[t])
         /\ IsEvents(job[t].got) /\ IsEvents(job[t].todo) /\ IsRequest(job[t].q)
         /\ UNCHANGED seen => seen' = [seen EXCEPT ![t] = seen[t]]
         /\ UNCHANGED job => job' = [job EXCEPT ![t] = job[t]]
  BY DEF HandsInv, Keeps, JobOk

(* The gate admits jobs only. *)
LEMMA QueueFacts ==
  ASSUME HandsInv
  PROVE  /\ \A t \in Jobs : Append(queue, t) \in Seq(Jobs)
         /\ queue # <<>> => queue[1] \in Jobs /\ Tail(queue) \in Seq(Jobs)
<1>1. queue \in Seq(Jobs)
  BY DEF HandsInv
<1>2. \A t \in Jobs : Append(queue, t) \in Seq(Jobs)
  BY <1>1, AppendProperties
<1>3. queue # <<>> => queue[1] \in Jobs /\ Tail(queue) \in Seq(Jobs)
  BY <1>1, HeadTailProperties, ElementOfSeq, LenProperties
<1> QED BY <1>2, <1>3

(* A subscription is no walk. *)
LEMMA JobKinds ==
  /\ Subs \subseteq Jobs /\ Walks \subseteq Jobs /\ \A s \in Subs : s \notin Walks
  /\ \A t \in Jobs : From[t] \in Nat
  BY ConstantsAssumption DEF Jobs

(* The end of a job. *)
LEMMA EndingKeeps ==
  ASSUME HandsInv, NEW t \in Jobs, NEW failed, Ending(t, failed), UNCHANGED seen
  PROVE  Turns(t)
<1>1. Keeps(t, Ended, seen[t])
  BY JobFacts, EndedKeeps DEF Keeps, SubHands, WalkHands
<1>2. job' = [job EXCEPT ![t] = Ended]
  BY DEF Ending, Ended
<1> QED BY <1>1, <1>2, JobFacts DEF Turns

(* A page is stamped as far as the cache allows; the job asks for a block, *)
(* or waits for its caller, or fails.                                      *)
LEMMA CanonicalizeKeeps ==
  ASSUME HandsInv, NEW t \in Jobs, NEW c, NEW got, NEW todo, job[t].at = "flight",
         IsEvents(got), IsEvents(todo), Carries(job[t].q, got \o todo),
         Canonicalize(t, c, got, todo), UNCHANGED seen
  PROVE  Turns(t) /\ queue' \in Seq(Jobs)
<1> DEFINE K == {k \in 0 .. Len(todo) : \A i \in 1 .. k : Stampable(c, todo[i])}
           n == Max(K)
           s == StampedTo(c, got, todo, n)
           r == SubSeq(todo, n + 1, Len(todo))
           x == job[t]
<1>1. Len(todo) \in Nat
  BY SeqFacts DEF IsEvents
<1>2. n \in 0 .. Len(todo)
  <2>1. K \in SUBSET (0 .. Len(todo)) /\ 0 \in K
    BY <1>1
  <2> HIDE DEF K
  <2> QED BY <1>1, <2>1, MaxOf
<1>3. \/ Ending(t, TRUE) /\ UNCHANGED queue
      \/ Asking(t, x.q, todo[n + 1].block, s, r)
      \/ /\ n = Len(todo)
         /\ job' = [job EXCEPT ![t] = [x EXCEPT !.at = "hand", !.got = s, !.todo = <<>>, !.block = 0]]
         /\ UNCHANGED queue
  <2>1. \E m \in {n} : \E stamped \in {got \o FirstStamped(c, todo, m)} :
          IF \E i \in 1 .. m : Claims(c, todo[i])
          THEN Ending(t, TRUE) /\ UNCHANGED queue
          ELSE IF m < Len(todo)
          THEN /\ Asking(t, x.q, todo[m + 1].block, stamped, SubSeq(todo, m + 1, Len(todo)))
               /\ UNCHANGED sub
          ELSE /\ job' = [job EXCEPT ![t] = [@ EXCEPT !.at = "hand", !.got = stamped,
                                                      !.todo = <<>>, !.block = 0]]
               /\ UNCHANGED <<queue, sub>>
    BY Zenon DEF Canonicalize, FirstStamped
  <2> HIDE DEF n
  <2>2. IF \E i \in 1 .. n : Claims(c, todo[i])
        THEN Ending(t, TRUE) /\ UNCHANGED queue
        ELSE IF n < Len(todo)
        THEN Asking(t, x.q, todo[n + 1].block, s, r)
        ELSE /\ job' = [job EXCEPT ![t] = [x EXCEPT !.at = "hand", !.got = s, !.todo = <<>>, !.block = 0]]
             /\ UNCHANGED queue
    BY <2>1 DEF StampedTo
  <2>3. ~(n < Len(todo)) => n = Len(todo)
    BY <1>1, <1>2
  <2> HIDE DEF s, r, x
  <2> QED BY <2>2, <2>3
<1> HIDE DEF n
<1>4. /\ IsEvents(s) /\ IsEvents(r) /\ SameIds(s \o r, got \o todo)
      /\ n = Len(todo) => SameIds(s, got \o todo)
  BY <1>2, StampedCarries
<1>5. Carries(x.q, s \o r) /\ (n = Len(todo) => Carries(x.q, s))
  BY <1>4, SameIdsCarry
<1> HIDE DEF s, r
<1>6. CASE Ending(t, TRUE) /\ UNCHANGED queue
  BY <1>6, EndingKeeps DEF HandsInv
<1>7. CASE Asking(t, x.q, todo[n + 1].block, s, r)
  <2> DEFINE y == Requesting(x, x.q, todo[n + 1].block, s, r)
  <2>1. job' = [job EXCEPT ![t] = y] /\ queue' \in Seq(Jobs)
    BY <1>7, QueueFacts DEF Asking, Requesting
  <2>2. /\ DOMAIN y = Fields /\ y.at = "gate" /\ y.q = x.q /\ y.got = s /\ y.todo = r /\ y.next = x.next
    BY JobFacts, RequestingFields
  <2>3. Keeps(t, x, seen[t]) /\ x.at \in Busy /\ y.at \in Busy
    BY <2>2, JobFacts DEF Busy
  <2> HIDE DEF y, x
  <2>4. Keeps(t, y, seen[t])
    BY <1>4, <1>5, <2>2, <2>3, SameRequestKeeps
  <2> QED BY <2>1, <2>4, JobFacts DEF Turns
<1>8. CASE /\ n = Len(todo)
           /\ job' = [job EXCEPT ![t] = [x EXCEPT !.at = "hand", !.got = s, !.todo = <<>>, !.block = 0]]
           /\ UNCHANGED queue
  <2> DEFINE y == [x EXCEPT !.at = "hand", !.got = s, !.todo = <<>>, !.block = 0]
  <2>1. job' = [job EXCEPT ![t] = y] /\ queue' \in Seq(Jobs)
    BY <1>8 DEF HandsInv
  <2>2. /\ DOMAIN y = Fields /\ y.at = "hand" /\ y.q = x.q /\ y.got = s /\ y.todo = <<>> /\ y.next = x.next
        /\ y.block = 0
    BY JobFacts DEF Fields
  <2>3. Keeps(t, x, seen[t]) /\ x.at \in Busy /\ y.at \in Busy
    BY <2>2, JobFacts DEF Busy
  <2> HIDE DEF y, x
  <2>4. Keeps(t, y, seen[t])
    BY <1>4, <1>5, <1>8, <2>2, <2>3, EmptyIsEvents, SameRequestKeeps
  <2> QED BY <2>1, <2>4, JobFacts DEF Turns
<1> QED BY <1>3, <1>6, <1>7, <1>8

(* An answer that is taken is refused, or it is what was asked for, or it  *)
(* brings the timestamp that the page waits for.                           *)
LEMMA TakeKeeps ==
  ASSUME HandsInv, NEW t \in Jobs, NEW h \in Ids \cup {0}, NEW answer, Take(t, answer),
         answer = Answer(Wanted(t), h) \/ answer \in CorruptAnswers(Wanted(t), h)
  PROVE  Turns(t) /\ queue' \in Seq(Jobs) /\ UNCHANGED head
<1> DEFINE p == Read(answer)
           q == job[t].q
<1>1. job[t].at = "flight" /\ UNCHANGED <<seen, head>>
  BY DEF Take
<1>2. \/ Ending(t, TRUE) /\ UNCHANGED queue
      \/ InOrder(t, p) /\ job[t].block = 0 /\ Canonicalize(t, cache', <<>>, p)
      \/ job[t].block # 0 /\ Canonicalize(t, cache', job[t].got, job[t].todo)
  <2>1. \E page \in {Read(answer)} :
          IF ~(Fits(t, page) /\ \A i \in DOMAIN answer : Normalizable(answer[i]))
          THEN Ending(t, TRUE) /\ UNCHANGED <<queue, cache, evicted>>
          ELSE /\ Remember(page)
               /\ IF Agreeing(cache, page) < Len(page) \/ ~InOrder(t, page)
                  THEN Ending(t, TRUE) /\ UNCHANGED queue
                  ELSE IF job[t].block = 0 THEN Canonicalize(t, cache', <<>>, page)
                  ELSE Canonicalize(t, cache', job[t].got, job[t].todo)
    BY Zenon DEF Take, Read
  <2> HIDE DEF p
  <2>2. PICK page \in {Read(answer)} :
          IF ~(Fits(t, page) /\ \A i \in DOMAIN answer : Normalizable(answer[i]))
          THEN Ending(t, TRUE) /\ UNCHANGED <<queue, cache, evicted>>
          ELSE /\ Remember(page)
               /\ IF Agreeing(cache, page) < Len(page) \/ ~InOrder(t, page)
                  THEN Ending(t, TRUE) /\ UNCHANGED queue
                  ELSE IF job[t].block = 0 THEN Canonicalize(t, cache', <<>>, page)
                  ELSE Canonicalize(t, cache', job[t].got, job[t].todo)
    BY <2>1
  <2>3. \/ Ending(t, TRUE) /\ UNCHANGED queue
        \/ InOrder(t, page) /\ job[t].block = 0 /\ Canonicalize(t, cache', <<>>, page)
        \/ job[t].block # 0 /\ Canonicalize(t, cache', job[t].got, job[t].todo)
    BY <2>2
  <2> QED BY <2>3 DEF p
<1>3. JobOk(job[t]) /\ IsEvents(job[t].got) /\ IsEvents(job[t].todo) /\ IsRequest(q)
  BY JobFacts
<1> HIDE DEF p
<1>4. CASE Ending(t, TRUE) /\ UNCHANGED queue
  BY <1>1, <1>4, EndingKeeps DEF HandsInv
<1>5. CASE InOrder(t, p) /\ job[t].block = 0 /\ Canonicalize(t, cache', <<>>, p)
  <2>1. Wanted(t) = q
    BY <1>5 DEF Wanted
  <2>2. q.op = "page" => Forward(p, q.from, q.stop)
    BY <1>5 DEF InOrder
  <2>3. IsEvents(p) /\ Carries(q, p)
    BY <1>3, <2>1, <2>2, AcceptedCarries DEF p
  <2>4. <<>> \o p = p
    BY <2>3, ConcatEmptySeq DEF IsEvents, IsSeq
  <2>5. Carries(q, <<>> \o p)
    BY <2>3, <2>4
  <2> QED BY <1>1, <1>5, <2>3, <2>5, EmptyIsEvents, CanonicalizeKeeps
<1>6. CASE job[t].block # 0 /\ Canonicalize(t, cache', job[t].got, job[t].todo)
  <2>1. Carries(q, job[t].got \o job[t].todo)
    BY <1>1, <1>3, <1>6 DEF JobOk
  <2> QED BY <1>1, <1>3, <1>6, <2>1, CanonicalizeKeeps
<1> QED BY <1>2, <1>4, <1>5, <1>6

(* Answers of a source that is up to date, behind, or at fault. *)
LEMMA AnsweredKeeps ==
  ASSUME HandsInv, NEW t \in Jobs, Respond(t) \/ RespondLate(t) \/ RespondBadly(t)
  PROVE  Turns(t) /\ queue' \in Seq(Jobs) /\ UNCHANGED head
<1>0. head \in Ids \cup {0}
  BY DEF HandsInv
<1>1. CASE Respond(t)
  BY <1>0, <1>1, TakeKeeps DEF Respond
<1>2. CASE RespondLate(t)
  <2>1. PICK h \in {e \in Ids : e < head} \cup {0} : Take(t, Answer(Wanted(t), h))
    BY <1>2 DEF RespondLate
  <2>2. h \in Ids \cup {0}
    OBVIOUS
  <2> QED BY <2>1, <2>2, TakeKeeps
<1>3. CASE RespondBadly(t)
  BY <1>0, <1>3, TakeKeeps DEF RespondBadly
<1> QED BY <1>1, <1>2, <1>3

(* A request that starts, or finds the client closed, or is never made.    *)
LEMMA GateKeeps ==
  ASSUME HandsInv, GateStart
  PROVE  (\E t \in Jobs : Turns(t)) /\ queue' \in Seq(Jobs) /\ UNCHANGED head
<1> DEFINE t == queue[1]
<1>1. /\ t \in Jobs /\ job[t].at = "gate" /\ UNCHANGED <<seen, head>> /\ queue' \in Seq(Jobs)
      /\ Ending(t, TRUE) \/ job' = [job EXCEPT ![t].at = "flight"]
  BY QueueFacts DEF GateStart
<1> HIDE DEF t
<1>2. CASE Ending(t, TRUE)
  BY <1>1, <1>2, EndingKeeps
<1>3. CASE job' = [job EXCEPT ![t].at = "flight"]
  <2> DEFINE x == job[t]
             y == [x EXCEPT !.at = "flight"]
  <2>1. job' = [job EXCEPT ![t] = y]
    BY <1>3
  <2>2. Keeps(t, x, seen[t]) /\ JobOk(x)
    BY <1>1, JobFacts
  <2>3. /\ DOMAIN y = Fields /\ y.at = "flight" /\ y.q = x.q /\ y.got = x.got /\ y.todo = x.todo
        /\ y.next = x.next /\ y.block = x.block
    BY <2>2 DEF JobOk, Fields
  <2>4. x.at \in Busy /\ y.at \in Busy
    BY <1>1, <2>3 DEF Busy
  <2> HIDE DEF y
  <2>5. IsEvents(y.got) /\ IsEvents(y.todo) /\ (y.block # 0 => Carries(y.q, y.got \o y.todo)) /\ y.at # "hand"
    BY <1>1, <2>2, <2>3 DEF JobOk
  <2>6. Keeps(t, y, seen[t])
    BY <2>2, <2>3, <2>4, <2>5, SameRequestKeeps
  <2> QED BY <1>1, <2>1, <2>6, JobFacts DEF Turns
<1> QED BY <1>1, <1>2, <1>3

(* A subscription asks for the head. *)
LEMMA SubscribeKeeps ==
  ASSUME HandsInv, NEW s \in Subs, Subscribe(s) \/ Poll(s)
  PROVE  Turns(s) /\ queue' \in Seq(Jobs) /\ UNCHANGED head
<1> DEFINE x == job[s]
           y == Requesting(x, HeadRequest, 0, <<>>, <<>>)
<1>1. s \in Jobs /\ s \notin Walks
  BY JobKinds
<1>2. /\ x.at \in {"idle", "pause"} /\ UNCHANGED <<seen, head>> /\ queue' \in Seq(Jobs)
      /\ job' = [job EXCEPT ![s] = y]
  BY <1>1, QueueFacts DEF Subscribe, Poll, Ask, Asking, Requesting
<1>3. JobOk(x) /\ IsEvents(seen[s]) /\ SubHands(From[s], x, seen[s])
  BY <1>1, JobFacts DEF Keeps
<1> HIDE DEF y, x
<1>4. Keeps(s, y, seen[s])
  BY <1>1, <1>2, <1>3, RequestFacts, RequestingKeeps DEF SubHands, y
<1> QED BY <1>1, <1>2, <1>4, JobFacts DEF Turns

(* The first events of an answer that was accepted. *)
LEMMA PrefixCarries ==
  ASSUME NEW q, IsRequest(q), NEW p, IsEvents(p), Carries(q, p), NEW k \in 0 .. Len(p)
  PROVE  IsEvents(SubSeq(p, 1, k)) /\ Len(SubSeq(p, 1, k)) = k /\ Carries(q, SubSeq(p, 1, k))
<1>1. IsSeq(p) /\ Len(p) \in Nat /\ k \in Nat /\ k <= Len(p) /\ 1 \in Nat \ {0} /\ 1 <= k + 1
  BY SeqFacts DEF IsEvents
<1>2. IsEvents(SubSeq(p, 1, k))
  BY <1>1, EventsSubSeq
<1>3. /\ Len(SubSeq(p, 1, k)) = k - 1 + 1
      /\ \A i \in 1 .. k - 1 + 1 : SubSeq(p, 1, k)[i] = p[1 + i - 1]
  BY <1>1, SubSeqIsSeq
<1>4. k - 1 + 1 = k /\ \A i \in 1 .. k : 1 + i - 1 = i /\ i \in 1 .. Len(p)
  BY <1>1
<1>5. Len(SubSeq(p, 1, k)) = k /\ \A i \in 1 .. k : SubSeq(p, 1, k)[i] = p[i]
  BY <1>3, <1>4
<1>6. CASE q.op = "page"
  <2>1. Below(q.from) \in Nat /\ Len(Log) \in Nat
    BY <1>6, BelowNat, LogFacts DEF IsRequest
  <2>2. Below(q.from) + Len(p) <= Len(Log) /\ \A i \in 1 .. Len(p) : p[i].id = Log[Below(q.from) + i]
    BY <1>6 DEF Carries, IsPiece
  <2>3. Below(q.from) + k <= Len(Log)
    BY <1>1, <2>1, <2>2
  <2> QED BY <1>2, <1>4, <1>5, <1>6, <2>2, <2>3 DEF Carries, IsPiece
<1>7. CASE q.op # "page"
  <2>1. q.op = "head" => k <= 1 /\ \A i \in 1 .. k : p[i].id \in Ids
    BY <1>1, <1>4 DEF Carries
  <2> QED BY <1>2, <1>5, <1>7, <2>1 DEF Carries
<1> QED BY <1>6, <1>7

(* Where the next poll starts, after the events p. *)
Onward(f, x, p) ==
  LET n == p[Len(p)].id + 1 IN IF x.next = 0 /\ f > n THEN f ELSE n

(* What a subscription hands over follows what it has handed over, and the *)
(* next poll starts after it.                                              *)
LEMMA Handing ==
  ASSUME NEW f \in Nat, NEW x, NEW z, JobOk(x), IsEvents(z), SubHands(f, x, z), x.at = "hand",
         x.q.op = "page" \/ x.next = 0, NEW g, IsEvents(g), Carries(x.q, g)
  PROVE  /\ IsEvents(z \o g) /\ Follows(f, z \o g)
         /\ g # <<>> => /\ z \o g # <<>> /\ Onward(f, x, g) \in Nat \ {0}
                        /\ Below(Onward(f, x, g)) = Base(f, z \o g) + (Len(z \o g) - 1)
<1>1. /\ IsSeq(z) /\ IsSeq(g) /\ Len(z) \in Nat /\ Len(g) \in Nat /\ Len(Log) \in Nat
      /\ (z = <<>> <=> Len(z) = 0) /\ (g = <<>> <=> Len(g) = 0)
  BY SeqFacts, LogFacts DEF IsEvents
<1>2. IsEvents(z \o g)
  BY EventsConcat
<1>3. x.q.op \in {"head", "page"} /\ x.next \in Nat /\ IsRequest(x.q) /\ (x.next = 0 <=> z = <<>>)
  BY DEF SubHands, Busy, JobOk
<1>4. CASE x.q.op = "head"
  <2>1. z = <<>> /\ Len(g) <= 1 /\ \A i \in 1 .. Len(g) : g[i].id \in Ids
    BY <1>3, <1>4 DEF Carries
  <2>2. z \o g = g
    BY <1>1, <2>1, ConcatEmptySeq DEF IsSeq
  <2>3. CASE g = <<>>
    BY <1>2, <2>2, <2>3 DEF Follows
  <2>4. CASE g # <<>>
    <3>a. Len(g) \in Nat /\ Len(g) # 0
      BY <1>1, <2>4
    <3>b. Len(g) <= 1
      BY <2>1
    <3>c. \A n \in Nat : n # 0 /\ n <= 1 => n = 1 /\ 1 \in 1 .. n
      OBVIOUS
    <3>0. Len(g) = 1 /\ 1 \in 1 .. Len(g)
      BY <3>a, <3>b, <3>c
    <3>1. Len(g) = 1 /\ g[1].id \in Nat
      BY <2>1, <3>0, LogFacts
    <3>2. StartAfter(f, g[1].id) \in Nat \ {0} /\ Onward(f, x, g) = StartAfter(f, g[1].id)
      BY <1>3, <2>1, <3>1 DEF StartAfter, Onward
    <3>3. Base(f, g) \in 0 .. Len(Log)
      BY <3>2, BelowFacts DEF Base
    <3>4. Follows(f, g)
      BY <1>1, <3>1, <3>3 DEF Follows
    <3>5. Base(f, g) + (Len(g) - 1) = Base(f, g)
      BY <1>1, <3>1, <3>3
    <3> QED BY <1>2, <2>2, <2>4, <3>2, <3>4, <3>5 DEF Base
  <2> QED BY <2>3, <2>4
<1>5. CASE x.q.op = "page"
  <2> DEFINE lo == Base(f, z)
             b == Below(x.next)
             y == z \o g
  <2>1. x.q.from = x.next /\ x.next # 0 /\ z # <<>> /\ x.at # "over"
    BY <1>3, <1>5 DEF SubHands, Busy
  <2>2. /\ z[1].id \in Nat /\ \A i \in 2 .. Len(z) : z[i].id = Log[lo + (i - 1)]
        /\ b = lo + (Len(z) - 1)
    BY <2>1 DEF SubHands, Follows
  <2>3. b + Len(g) <= Len(Log) /\ \A i \in 1 .. Len(g) : g[i].id = Log[b + i]
    BY <1>5, <2>1 DEF Carries, IsPiece
  <2>4. b \in Nat
    BY <1>3, BelowNat
  <2>5. StartAfter(f, z[1].id) \in Nat
    BY <2>2 DEF StartAfter
  <2>6. lo \in Nat
    BY <2>5, BelowFacts DEF Base
  <2>7. /\ Len(y) = Len(z) + Len(g)
        /\ \A i \in 1 .. Len(z) + Len(g) : y[i] = IF i <= Len(z) THEN z[i] ELSE g[i - Len(z)]
    BY <1>1, ConcatIsSeq
  <2>8. Len(z) > 0 /\ 1 \in 1 .. Len(z) + Len(g)
    BY <1>1, <2>1
  <2>9. y[1] = z[1]
    BY <1>1, <2>7, <2>8
  <2>10. Base(f, y) = lo
    BY <2>9 DEF Base
  <2> HIDE DEF lo, b, y
  <2>11. y # <<>>
    BY <1>1, <2>7, <2>8, EmptyIsSeq
  <2>12. lo + (Len(y) - 1) <= Len(Log) /\ lo + (Len(y) - 1) = b + Len(g)
    BY <1>1, <2>2, <2>3, <2>4, <2>6, <2>7
  <2>13. ASSUME NEW i \in 2 .. Len(y) PROVE y[i].id = Log[lo + (i - 1)]
    <3>1. i \in 1 .. Len(z) + Len(g)
      BY <1>1, <2>7
    <3>2. CASE i <= Len(z)
      <4>1. i \in 2 .. Len(z)
        BY <1>1, <2>7, <3>2
      <4> QED BY <2>2, <2>7, <3>1, <3>2, <4>1
    <3>3. CASE ~(i <= Len(z))
      <4>1. i - Len(z) \in 1 .. Len(g) /\ b + (i - Len(z)) = lo + (i - 1)
        BY <1>1, <2>2, <2>4, <2>6, <2>7, <3>1, <3>3
      <4> QED BY <2>3, <2>7, <3>1, <3>3, <4>1
    <3> QED BY <3>2, <3>3
  <2>14. Follows(f, y)
    BY <2>2, <2>9, <2>10, <2>12, <2>13 DEF Follows
  <2>15. ASSUME g # <<>>
         PROVE  Onward(f, x, g) \in Nat \ {0} /\ Below(Onward(f, x, g)) = lo + (Len(y) - 1)
    <3>1. Len(g) \in 1 .. Len(g) /\ b + Len(g) \in 1 .. Len(Log)
      BY <1>1, <2>3, <2>4, <2>15
    <3>2. g[Len(g)].id = Log[b + Len(g)] /\ Log[b + Len(g)] \in Nat
      BY <2>3, <3>1, LogFacts
    <3>3. Onward(f, x, g) = Log[b + Len(g)] + 1
      BY <2>1, <3>2 DEF Onward
    <3>4. Below(Log[b + Len(g)] + 1) = b + Len(g)
      BY <3>1, BelowAt
    <3> QED BY <2>12, <3>2, <3>3, <3>4
  <2> QED BY <1>2, <2>10, <2>11, <2>14, <2>15 DEF y
<1> QED BY <1>3, <1>4, <1>5

(* A subscription hands a page over: all of it, or nothing once it is      *)
(* cancelled, or what precedes the event its handler throws at.            *)
LEMMA EmitKeeps ==
  ASSUME HandsInv, NEW s \in Subs, Emit(s)
  PROVE  Turns(s) /\ queue' \in Seq(Jobs) /\ UNCHANGED head
<1> DEFINE x == job[s]
           z == seen[s]
           p == x.got
           f == From[s]
<1>1. s \in Jobs /\ s \notin Walks /\ f \in Nat
  BY JobKinds
<1>2. JobOk(x) /\ IsEvents(z) /\ SubHands(f, x, z) /\ IsEvents(p) /\ IsRequest(x.q) /\ DOMAIN x = Fields
  BY <1>1, JobFacts DEF Keeps
<1>3. /\ x.at = "hand" /\ p # <<>> /\ (x.q.op = "page" \/ x.next = 0) /\ UNCHANGED head
      /\ x.block = 0 /\ Carries(x.q, p)
  BY <1>2 DEF Emit, JobOk
<1>4. Len(p) \in Nat /\ DOMAIN p = 1 .. Len(p) /\ queue \in Seq(Jobs)
  BY <1>2, SeqFacts DEF IsEvents, HandsInv
<1>5. /\ IsEvents(z \o p) /\ Follows(f, z \o p)
      /\ z \o p # <<>> /\ Onward(f, x, p) \in Nat \ {0}
      /\ Below(Onward(f, x, p)) = Base(f, z \o p) + (Len(z \o p) - 1)
  <2> HIDE DEF x, z, p, f
  <2> QED BY <1>1, <1>2, <1>3, Handing
<1>6. Emitted(s) = p \/ Emitted(s) = <<>>
  BY DEF Emitted
<1>7. NextAfter(s, p) = Onward(f, x, p)
  BY DEF NextAfter, Onward
<1>8. \/ /\ seen' = [seen EXCEPT ![s] = z \o Emitted(s)]
         /\ Emitted(s) = <<>> /\ Ending(s, FALSE) /\ UNCHANGED queue
      \/ /\ seen' = [seen EXCEPT ![s] = z \o Emitted(s)]
         /\ Emitted(s) # <<>> /\ Continue(s, NextAfter(s, p))
      \/ \E n \in DOMAIN Emitted(s) :
           /\ seen' = [seen EXCEPT ![s] = z \o SubSeq(p, 1, n - 1)]
           /\ job' = [job EXCEPT ![s] = Ended] /\ UNCHANGED queue
  BY DEF Emit, Ended
<1>9. CASE /\ seen' = [seen EXCEPT ![s] = z \o Emitted(s)]
           /\ Emitted(s) = <<>> /\ Ending(s, FALSE) /\ UNCHANGED queue
  <2>1. z \o <<>> = z
    BY <1>2, ConcatEmptySeq DEF IsEvents, IsSeq
  <2>2. job' = [job EXCEPT ![s] = Ended] /\ seen' = [seen EXCEPT ![s] = z]
    BY <1>9, <2>1 DEF Ending, Ended
  <2>3. Keeps(s, Ended, z)
    BY <1>1, <1>2, EndedKeeps DEF SubHands
  <2> QED BY <1>3, <1>4, <1>9, <2>2, <2>3 DEF Turns
<1>10. CASE /\ seen' = [seen EXCEPT ![s] = z \o Emitted(s)]
            /\ Emitted(s) # <<>> /\ Continue(s, NextAfter(s, p))
  <2> DEFINE m == Onward(f, x, p)
             zz == z \o p
             r == PageRequest(m, x.q.stop)
             y == [x EXCEPT !.at = "gate", !.got = <<>>, !.next = m, !.q = r]
  <2>1. seen' = [seen EXCEPT ![s] = zz]
    BY <1>6, <1>10
  <2>2. \/ /\ x.q.op = "page" /\ job' = [job EXCEPT ![s] = y] /\ queue' = Append(queue, s)
        \/ job' = [job EXCEPT ![s] = Paused(m)] /\ UNCHANGED queue
    BY <1>7, <1>10 DEF Continue, Paused
  <2>3. queue' \in Seq(Jobs)
    BY <1>1, <1>4, <2>2, QueueFacts
  <2>4. m \in Nat \ {0} /\ IsEvents(zz) /\ Follows(f, zz) /\ zz # <<>> /\ Below(m) = Base(f, zz) + (Len(zz) - 1)
    BY <1>5
  <2>5. CASE x.q.op = "page" /\ job' = [job EXCEPT ![s] = y]
    <3>1. x.q.stop \in Nat
      BY <1>2, <2>5 DEF IsRequest
    <3>2. IsRequest(r) /\ r.op = "page" /\ r.from = m
      BY <2>4, <3>1, RequestFacts
    <3>3. /\ DOMAIN y = Fields /\ y.at = "gate" /\ y.got = <<>> /\ y.todo = x.todo
          /\ y.next = m /\ y.q = r /\ y.block = x.block
      BY <1>2 DEF Fields
    <3> HIDE DEF m, y, zz, r
    <3>4. JobOk(y)
      BY <1>2, <1>3, <2>4, <3>2, <3>3, EmptyIsEvents DEF JobOk
    <3>5. SubHands(f, y, zz)
      BY <2>4, <3>2, <3>3 DEF SubHands
    <3>6. Keeps(s, y, zz)
      BY <1>1, <2>4, <3>4, <3>5 DEF Keeps
    <3> QED BY <1>3, <2>1, <2>3, <2>5, <3>6 DEF Turns
  <2>6. CASE job' = [job EXCEPT ![s] = Paused(m)]
    <3> HIDE DEF m, zz
    <3>1. JobOk(Paused(m))
      BY <2>4, PausedFields, RequestFacts, EmptyIsEvents DEF JobOk
    <3>2. SubHands(f, Paused(m), zz)
      BY <2>4, PausedFields DEF SubHands, Busy
    <3>3. Keeps(s, Paused(m), zz)
      BY <1>1, <2>4, <3>1, <3>2 DEF Keeps
    <3> QED BY <1>3, <2>1, <2>3, <2>6, <3>3 DEF Turns
  <2> QED BY <2>2, <2>5, <2>6
<1>11. ASSUME NEW n \in DOMAIN Emitted(s),
              seen' = [seen EXCEPT ![s] = z \o SubSeq(p, 1, n - 1)],
              job' = [job EXCEPT ![s] = Ended], UNCHANGED queue
       PROVE  Turns(s) /\ queue' \in Seq(Jobs)
  <2>1. n \in 1 .. Len(p) /\ n - 1 \in 0 .. Len(p)
    <3>1. DOMAIN Emitted(s) = DOMAIN p \/ DOMAIN Emitted(s) = {}
      <4>1. DOMAIN <<>> = {}
        OBVIOUS
      <4> QED BY <1>6, <4>1
    <3>2. n \in 1 .. Len(p)
      BY <1>4, <3>1
    <3> QED BY <1>4, <3>2
  <2> DEFINE g == SubSeq(p, 1, n - 1)
  <2>2. IsEvents(g) /\ Carries(x.q, g)
    BY <1>2, <1>3, <2>1, PrefixCarries
  <2> HIDE DEF g
  <2>3. IsEvents(z \o g) /\ Follows(f, z \o g)
    BY <1>1, <1>2, <1>3, <2>2, Handing
  <2>4. Keeps(s, Ended, z \o g)
    BY <1>1, <2>3, EndedKeeps
  <2>5. seen' = [seen EXCEPT ![s] = z \o g]
    BY <1>11 DEF g
  <2> QED BY <1>4, <1>11, <2>4, <2>5 DEF Turns
<1> QED BY <1>3, <1>8, <1>9, <1>10, <1>11

(* A subscription asks for the page up to a new head, or pauses. *)
LEMMA AdvanceKeeps ==
  ASSUME HandsInv, NEW s \in Subs, Advance(s)
  PROVE  Turns(s) /\ queue' \in Seq(Jobs) /\ UNCHANGED head
<1> DEFINE x == job[s]
           z == seen[s]
           p == x.got
           f == From[s]
<1>1. s \in Jobs /\ s \notin Walks
  BY JobKinds
<1>2. JobOk(x) /\ IsEvents(z) /\ SubHands(f, x, z) /\ IsEvents(p)
  BY <1>1, JobFacts DEF Keeps
<1>3. /\ x.at = "hand" /\ (p = <<>> \/ (x.q.op = "head" /\ x.next # 0)) /\ UNCHANGED <<seen, head>>
      /\ \/ p # <<>> /\ Ask(s, PageRequest(x.next, p[1].id + 1))
         \/ job' = [job EXCEPT ![s] = Paused(x.next)] /\ UNCHANGED queue
  BY DEF Advance, Paused
<1>4. CASE p # <<>> /\ Ask(s, PageRequest(x.next, p[1].id + 1))
  <2> DEFINE r == PageRequest(x.next, p[1].id + 1)
             y == Requesting(x, r, 0, <<>>, <<>>)
  <2>1. job' = [job EXCEPT ![s] = y] /\ queue' \in Seq(Jobs)
    BY <1>1, <1>4, QueueFacts DEF Ask, Asking, Requesting
  <2>2. Carries(x.q, p) /\ x.q.op = "head" /\ x.next \in Nat /\ x.next # 0
    BY <1>2, <1>3, <1>4 DEF JobOk
  <2>3. Len(p) \in Nat /\ Len(p) # 0
    BY <1>2, <1>4, SeqFacts DEF IsEvents
  <2>4. p[1].id + 1 \in Nat
    <3>1. 1 \in 1 .. Len(p)
      BY <2>3
    <3>2. p[1].id \in Nat
      BY <2>2, <3>1, LogFacts DEF Carries
    <3> QED BY <3>2
  <2>5. IsRequest(r) /\ r.op = "page" /\ r.from = x.next
    BY <2>2, <2>4, RequestFacts
  <2> HIDE DEF r, y, x, z, p
  <2>6. Keeps(s, y, z)
    BY <1>1, <1>2, <1>3, <2>2, <2>5, RequestingKeeps DEF SubHands, y, f
  <2> QED BY <1>1, <1>3, <2>1, <2>6, JobFacts DEF Turns, z
<1>5. CASE job' = [job EXCEPT ![s] = Paused(x.next)] /\ UNCHANGED queue
  <2>1. JobOk(Paused(x.next))
    BY <1>2, PausedFields, RequestFacts, EmptyIsEvents DEF JobOk
  <2>2. SubHands(f, Paused(x.next), z)
    <3> HIDE DEF z, f, x
    <3> QED BY <1>2, <1>3, PausedFields DEF SubHands, Busy
  <2>3. Keeps(s, Paused(x.next), z)
    BY <1>1, <1>2, <2>1, <2>2 DEF Keeps
  <2>4. queue' \in Seq(Jobs)
    BY <1>5 DEF HandsInv
  <2> QED BY <1>1, <1>3, <1>5, <2>3, <2>4, JobFacts DEF Turns
<1> QED BY <1>3, <1>4, <1>5

(* A piece of the log goes on where the one before it stops. *)
LEMMA PieceConcat ==
  ASSUME NEW lo \in Nat, NEW z, IsEvents(z), IsPiece(z, lo), NEW g, IsEvents(g), IsPiece(g, lo + Len(z))
  PROVE  /\ IsEvents(z \o g) /\ IsPiece(z \o g, lo)
         /\ Len(g) # 0 => /\ g[Len(g)].id \in Nat
                          /\ Below(g[Len(g)].id + 1) = lo + Len(z \o g)
<1> DEFINE y == z \o g
<1>1. IsSeq(z) /\ IsSeq(g) /\ Len(z) \in Nat /\ Len(g) \in Nat /\ Len(Log) \in Nat
  BY SeqFacts, LogFacts DEF IsEvents
<1>2. /\ Len(y) = Len(z) + Len(g)
      /\ \A i \in 1 .. Len(z) + Len(g) : y[i] = IF i <= Len(z) THEN z[i] ELSE g[i - Len(z)]
  BY <1>1, ConcatIsSeq
<1>3. /\ lo + Len(z) + Len(g) <= Len(Log) /\ \A i \in 1 .. Len(z) : z[i].id = Log[lo + i]
      /\ \A i \in 1 .. Len(g) : g[i].id = Log[lo + Len(z) + i]
  BY DEF IsPiece
<1>4. IsEvents(y)
  BY EventsConcat
<1> HIDE DEF y
<1>5. ASSUME NEW i \in 1 .. Len(y) PROVE y[i].id = Log[lo + i]
  <2>1. CASE i <= Len(z)
    <3>1. i \in 1 .. Len(z)
      BY <1>1, <2>1
    <3> QED BY <1>2, <1>3, <2>1, <3>1
  <2>2. CASE ~(i <= Len(z))
    <3>1. i - Len(z) \in 1 .. Len(g) /\ lo + Len(z) + (i - Len(z)) = lo + i
      BY <1>1, <1>2, <2>2
    <3> QED BY <1>2, <1>3, <2>2, <3>1
  <2> QED BY <2>1, <2>2
<1>6. lo + Len(y) <= Len(Log) /\ lo + Len(y) = lo + Len(z) + Len(g)
  BY <1>1, <1>2, <1>3
<1>7. ASSUME Len(g) # 0
      PROVE  g[Len(g)].id \in Nat /\ Below(g[Len(g)].id + 1) = lo + Len(y)
  <2>1. Len(g) \in 1 .. Len(g) /\ lo + Len(z) + Len(g) \in 1 .. Len(Log)
    BY <1>1, <1>3, <1>7
  <2>2. g[Len(g)].id = Log[lo + Len(z) + Len(g)]
    BY <1>3, <2>1
  <2> QED BY <1>6, <2>1, <2>2, LogFacts, BelowAt
<1> QED BY <1>4, <1>5, <1>6, <1>7 DEF IsPiece, y

(* A walk asks for its first event. *)
LEMMA WalkKeeps ==
  ASSUME HandsInv, NEW w \in Walks, Walk(w)
  PROVE  Turns(w) /\ queue' \in Seq(Jobs) /\ UNCHANGED head
<1> DEFINE x == job[w]
           y == Requesting(x, EventRequest(From[w]), 0, <<>>, <<>>)
<1>1. w \in Jobs /\ w \notin Subs
  BY JobKinds
<1>2. /\ x.at = "idle" /\ UNCHANGED <<seen, head>> /\ queue' \in Seq(Jobs)
      /\ job' = [job EXCEPT ![w] = y]
  BY <1>1, QueueFacts DEF Walk, Ask, Asking, Requesting
<1>3. JobOk(x) /\ IsEvents(seen[w]) /\ WalkHands(From[w], x, seen[w])
  BY <1>1, JobFacts DEF Keeps
<1> HIDE DEF y, x
<1>4. Keeps(w, y, seen[w])
  <2>1. IsPiece(seen[w], Below(From[w])) /\ seen[w] = <<>>
    BY <1>2, <1>3 DEF WalkHands
  <2> QED BY <1>1, <1>3, <2>1, RequestFacts, RequestingKeeps DEF y
<1> QED BY <1>1, <1>2, <1>4, JobFacts DEF Turns

(* A walk goes from its first event to its first page, from a full page to *)
(* the next, and from the last page to its end.                            *)
LEMMA WalkOnKeeps ==
  ASSUME HandsInv, NEW w \in Walks, WalkOn(w)
  PROVE  Turns(w) /\ queue' \in Seq(Jobs) /\ UNCHANGED head
<1> DEFINE x == job[w]
           z == seen[w]
           p == x.got
           f == From[w]
           y(r) == Requesting(x, r, 0, <<>>, <<>>)
<1>1. w \in Jobs /\ w \notin Subs /\ f \in Nat /\ Stop \in Nat
  BY JobKinds, ConstantsAssumption
<1>2. JobOk(x) /\ IsEvents(z) /\ WalkHands(f, x, z) /\ IsEvents(p) /\ IsRequest(x.q)
  BY <1>1, JobFacts DEF Keeps
<1>3. /\ x.at = "hand" /\ UNCHANGED head
      /\ \/ x.q.op = "event" /\ UNCHANGED seen /\ Ask(w, PageRequest(f, Stop))
         \/ /\ x.q.op # "event" /\ Len(p) = PageSize /\ Ask(w, PageRequest(Token(p), Stop))
            /\ seen' = IF x.q.op = "page" THEN [seen EXCEPT ![w] = @ \o p] ELSE seen
         \/ /\ x.q.op # "event" /\ Ending(w, FALSE) /\ UNCHANGED queue
            /\ seen' = IF x.q.op = "page" THEN [seen EXCEPT ![w] = @ \o p] ELSE seen
  BY DEF WalkOn
<1>4. x.q.op \in {"event", "page"} /\ Carries(x.q, p) /\ IsPiece(z, Below(f))
  BY <1>2, <1>3 DEF WalkHands, Busy, JobOk
<1>5. ASSUME NEW r, Ask(w, r)
      PROVE  job' = [job EXCEPT ![w] = y(r)] /\ queue' \in Seq(Jobs)
  BY <1>1, <1>5, QueueFacts DEF Ask, Asking, Requesting
<1>6. Below(f) \in Nat
  BY <1>1, BelowNat
<1>7. CASE x.q.op = "event" /\ UNCHANGED seen /\ Ask(w, PageRequest(f, Stop))
  <2> DEFINE r == PageRequest(f, Stop)
  <2>1. job' = [job EXCEPT ![w] = y(r)] /\ queue' \in Seq(Jobs)
    BY <1>5, <1>7
  <2>2. z = <<>>
    BY <1>2, <1>3, <1>7 DEF WalkHands, Busy
  <2>3. Below(f) = Below(f) + Len(z)
    BY <1>6, <2>2, EmptyIsSeq
  <2>4. IsRequest(r) /\ r.op = "page" /\ r.from = f
    BY <1>1, RequestFacts
  <2> HIDE DEF r, x, z, f, p
  <2>5. Keeps(w, y(r), z)
    BY <1>1, <1>2, <1>4, <2>3, <2>4, RequestingKeeps DEF f
  <2> QED BY <1>1, <1>3, <1>7, <2>1, <2>5, JobFacts DEF Turns, z
<1>8. ASSUME x.q.op # "event", seen' = IF x.q.op = "page" THEN [seen EXCEPT ![w] = @ \o p] ELSE seen
      PROVE  /\ seen' = [seen EXCEPT ![w] = z \o p] /\ IsEvents(z \o p) /\ IsPiece(z \o p, Below(f))
             /\ Len(p) # 0 => /\ p[Len(p)].id \in Nat
                              /\ Below(p[Len(p)].id + 1) = Below(f) + Len(z \o p)
  <2>1. x.q.op = "page" /\ Below(x.q.from) = Below(f) + Len(z)
    BY <1>2, <1>3, <1>4, <1>8 DEF WalkHands, Busy
  <2>2. IsPiece(p, Below(f) + Len(z))
    BY <1>4, <2>1 DEF Carries
  <2>3. seen' = [seen EXCEPT ![w] = z \o p]
    BY <1>8, <2>1
  <2> HIDE DEF x, z, f, p
  <2> QED BY <1>2, <1>4, <1>6, <2>2, <2>3, PieceConcat
<1>9. CASE /\ x.q.op # "event" /\ Len(p) = PageSize /\ Ask(w, PageRequest(Token(p), Stop))
           /\ seen' = IF x.q.op = "page" THEN [seen EXCEPT ![w] = @ \o p] ELSE seen
  <2> DEFINE r == PageRequest(Token(p), Stop)
  <2>1. job' = [job EXCEPT ![w] = y(r)] /\ queue' \in Seq(Jobs)
    BY <1>5, <1>9
  <2>2. Len(p) # 0 /\ Token(p) = p[Len(p)].id + 1
    BY <1>9, ConstantsAssumption DEF Token
  <2>3. /\ seen' = [seen EXCEPT ![w] = z \o p] /\ IsEvents(z \o p) /\ IsPiece(z \o p, Below(f))
        /\ Token(p) \in Nat /\ Below(Token(p)) = Below(f) + Len(z \o p)
    <3>1. /\ seen' = [seen EXCEPT ![w] = z \o p] /\ IsEvents(z \o p) /\ IsPiece(z \o p, Below(f))
          /\ Len(p) # 0 => /\ p[Len(p)].id \in Nat
                           /\ Below(p[Len(p)].id + 1) = Below(f) + Len(z \o p)
      BY <1>8, <1>9
    <3> HIDE DEF x, z, f, p
    <3>2. p[Len(p)].id \in Nat /\ Below(p[Len(p)].id + 1) = Below(f) + Len(z \o p)
      BY <2>2, <3>1
    <3> QED BY <2>2, <3>1, <3>2
  <2>4. IsRequest(r) /\ r.op = "page" /\ r.from = Token(p)
    BY <1>1, <2>3, RequestFacts
  <2> DEFINE zz == z \o p
  <2> HIDE DEF r, x, z, f, p, zz
  <2>5. IsEvents(zz) /\ IsPiece(zz, Below(f)) /\ Below(r.from) = Below(f) + Len(zz)
    BY <2>3, <2>4 DEF zz
  <2>6. Keeps(w, y(r), zz)
    BY <1>1, <1>2, <2>4, <2>5, RequestingKeeps DEF f
  <2> QED BY <1>3, <2>1, <2>3, <2>6 DEF Turns, zz
<1>10. CASE /\ x.q.op # "event" /\ Ending(w, FALSE) /\ UNCHANGED queue
            /\ seen' = IF x.q.op = "page" THEN [seen EXCEPT ![w] = @ \o p] ELSE seen
  <2>1. seen' = [seen EXCEPT ![w] = z \o p] /\ IsEvents(z \o p) /\ IsPiece(z \o p, Below(f))
    BY <1>8, <1>10
  <2>2. job' = [job EXCEPT ![w] = Ended] /\ queue' \in Seq(Jobs)
    BY <1>10 DEF Ending, Ended, HandsInv
  <2>3. Keeps(w, Ended, z \o p)
    BY <1>1, <2>1, EndedKeeps
  <2> QED BY <1>3, <2>1, <2>2, <2>3 DEF Turns
<1> QED BY <1>3, <1>7, <1>9, <1>10

(* A job that fails, is aborted or gives up. *)
LEMMA EndKeeps ==
  ASSUME HandsInv, NEW t \in Jobs, RequestFails(t) \/ Unwind(t) \/ AbortWalk(t)
  PROVE  Turns(t) /\ queue' \in Seq(Jobs) /\ UNCHANGED head
<1>1. UNCHANGED <<seen, head, queue>> /\ \E failed \in BOOLEAN : Ending(t, failed)
  BY DEF RequestFails, Unwind, AbortWalk
<1> QED BY <1>1, EndingKeeps DEF HandsInv

(* close ends the walks that have a request in flight, and nothing else.   *)
LEMMA CloseKeeps ==
  ASSUME HandsInv, Close
  PROVE  HandsInv'
<1>1. UNCHANGED <<head, seen, queue>>
  BY DEF Close
<1>2. job' = [t \in Jobs |-> IF t \in Walks /\ job[t].at = "flight" THEN Ended ELSE job[t]]
  BY DEF Close, Ended
<1>3. ASSUME NEW t \in Jobs PROVE Keeps(t, job'[t], seen[t])
  <2>1. job'[t] = Ended \/ job'[t] = job[t]
    BY <1>2
  <2>2. Keeps(t, Ended, seen[t])
    BY JobFacts, EndedKeeps DEF Keeps, SubHands, WalkHands
  <2> QED BY <2>1, <2>2, JobFacts
<1>4. job' = [t \in Jobs |-> job'[t]]
  BY <1>2
<1> QED BY <1>1, <1>3, <1>4 DEF HandsInv

(* The move of one job leaves the others as they are. *)
LEMMA TurnKeeps ==
  ASSUME HandsInv, NEW t \in Jobs, Turns(t), queue' \in Seq(Jobs), head' \in Ids \cup {0}
  PROVE  HandsInv'
<1> PICK x, z : job' = [job EXCEPT ![t] = x] /\ seen' = [seen EXCEPT ![t] = z] /\ Keeps(t, x, z)
  BY DEF Turns
<1>1. job = [u \in Jobs |-> job[u]] /\ seen = [u \in Jobs |-> seen[u]] /\ \A u \in Jobs : Keeps(u, job[u], seen[u])
  BY DEF HandsInv
<1>2. ASSUME NEW u \in Jobs PROVE Keeps(u, job'[u], seen'[u])
  <2>1. CASE u = t
    <3>1. job'[u] = x /\ seen'[u] = z
      BY <1>1, <2>1
    <3> QED BY <2>1, <3>1
  <2>2. CASE u # t
    <3>1. job'[u] = job[u] /\ seen'[u] = seen[u]
      BY <1>1, <2>2
    <3> QED BY <1>1, <3>1
  <2> QED BY <2>1, <2>2
<1>3. job' = [u \in Jobs |-> job'[u]] /\ seen' = [u \in Jobs |-> seen'[u]]
  BY <1>1
<1> QED BY <1>2, <1>3 DEF HandsInv

(* HandsInv is inductive. *)
LEMMA HandsInvariant == Spec => []HandsInv
<1>1. Init => HandsInv
  <2> SUFFICES ASSUME Init PROVE HandsInv
    OBVIOUS
  <2>1. /\ head = 0 /\ queue = <<>> /\ job = [t \in Jobs |-> Idle] /\ seen = [t \in Jobs |-> <<>>]
    BY DEF Init
  <2>2. JobOk(Idle)
    BY IdleFields, RequestFacts, EmptyIsEvents DEF JobOk
  <2>3. ASSUME NEW t \in Jobs PROVE Keeps(t, Idle, <<>>)
    <3>1. t \in Subs => SubHands(From[t], Idle, <<>>)
      BY IdleFields DEF SubHands, Follows, Busy
    <3>2. From[t] \in Nat /\ Below(From[t]) \in Nat /\ Below(From[t]) <= Len(Log)
      BY JobKinds, BelowNat
    <3>3. IsPiece(<<>>, Below(From[t]))
      BY <3>2, EmptyIsSeq DEF IsPiece
    <3>4. t \in Walks => WalkHands(From[t], Idle, <<>>)
      BY <3>3, IdleFields DEF WalkHands, Busy
    <3> QED BY <2>2, <3>1, <3>4, EmptyIsEvents DEF Keeps
  <2>4. queue \in Seq(Jobs)
    BY <2>1, EmptySeq
  <2> QED BY <2>1, <2>3, <2>4 DEF HandsInv
<1>2. HandsInv /\ [Next]_vars => HandsInv'
  <2> SUFFICES ASSUME HandsInv, [Next]_vars PROVE HandsInv'
    OBVIOUS
  <2>0. head \in Ids \cup {0} /\ queue \in Seq(Jobs)
    BY DEF HandsInv
  <2>1. ASSUME UNCHANGED <<job, seen>>, queue' \in Seq(Jobs), head' \in Ids \cup {0} PROVE HandsInv'
    BY <2>1 DEF HandsInv
  <2>2. CASE Produce
    <3>1. UNCHANGED <<job, seen, queue>> /\ head' \in Ids
      BY <2>2, LogFacts DEF Produce
    <3> QED BY <2>0, <2>1, <3>1
  <2>3. CASE GateSkip \/ Tick \/ (\E s \in Subs : Cancel(s)) \/ UNCHANGED vars
    <3>1. UNCHANGED <<job, seen, head>> /\ (queue' = queue \/ (queue # <<>> /\ queue' = Tail(queue)))
      BY <2>3 DEF GateSkip, Tick, Cancel, vars
    <3> QED BY <2>0, <2>1, <3>1, QueueFacts
  <2>4. CASE GateStart
    BY <2>0, <2>4, GateKeeps, TurnKeeps
  <2>5. CASE Close
    BY <2>5, CloseKeeps
  <2>6. ASSUME NEW t \in Jobs, RequestFails(t) \/ Respond(t) \/ RespondLate(t) \/ RespondBadly(t) PROVE HandsInv'
    BY <2>0, <2>6, AnsweredKeeps, EndKeeps, TurnKeeps
  <2>7. ASSUME NEW s \in Subs, Subscribe(s) \/ Emit(s) \/ Advance(s) \/ Poll(s) \/ Unwind(s) PROVE HandsInv'
    <3>1. s \in Jobs
      BY JobKinds
    <3> QED BY <2>0, <2>7, <3>1, SubscribeKeeps, EmitKeeps, AdvanceKeeps, EndKeeps, TurnKeeps
  <2>8. ASSUME NEW w \in Walks, Walk(w) \/ WalkOn(w) \/ AbortWalk(w) PROVE HandsInv'
    <3>1. w \in Jobs
      BY JobKinds
    <3> QED BY <2>0, <2>8, <3>1, WalkKeeps, WalkOnKeeps, EndKeeps, TurnKeeps
  <2> QED BY <2>2, <2>3, <2>4, <2>5, <2>6, <2>7, <2>8 DEF Next
<1> QED BY <1>1, <1>2, PTL DEF Spec

(* A piece of the log is what lies between where it starts and its last.   *)
LEMMA PieceIsBetween ==
  ASSUME NEW a \in Nat, NEW s, IsSeq(s), Len(s) > 0, Below(a) + Len(s) <= Len(Log),
         \A i \in 1 .. Len(s) : s[i] = Log[Below(a) + i]
  PROVE  s = Between(a, s[Len(s)])
<1> DEFINE lo == Below(a)
           hi == Below(s[Len(s)] + 1)
           B == Between(a, s[Len(s)])
<1>1. Len(s) \in Nat /\ s = [i \in 1 .. Len(s) |-> s[i]] /\ lo \in Nat /\ Len(Log) \in Nat
  BY SeqFacts, BelowNat, LogFacts
<1>2. Len(s) \in 1 .. Len(s) /\ lo + Len(s) \in 1 .. Len(Log)
  BY <1>1
<1>3. s[Len(s)] = Log[lo + Len(s)] /\ s[Len(s)] \in Int
  BY <1>2, LogFacts
<1>4. hi = lo + Len(s)
  BY <1>2, <1>3, BelowAt
<1>5. /\ B \in Seq(Nat)
      /\ Len(B) = IF lo <= hi THEN hi - lo ELSE 0
      /\ \A i \in 1 .. Len(B) : B[i] = Log[lo + i]
  <2>1. a \in Int /\ s[Len(s)] \in Int
    BY <1>3
  <2> QED BY <2>1, BetweenFacts
<1> HIDE DEF B, lo, hi
<1>6. Len(B) = Len(s)
  BY <1>1, <1>4, <1>5
<1>7. B = [i \in 1 .. Len(B) |-> B[i]]
  BY <1>5, SeqIsSeq, SeqFacts
<1>8. \A i \in 1 .. Len(s) : B[i] = s[i]
  BY <1>5, <1>6 DEF lo
<1> QED BY <1>1, <1>6, <1>7, <1>8 DEF B

(* What a job hands over has no gap and no repetition: a walk's events are *)
(* the source's from its first id on, a subscription's the head it found   *)
(* first and then every event after it, or from where it was asked to      *)
(* start, whatever is lost, late, corrupt, aborted or closed.              *)
THEOREM NothingIsSkipped == Spec => []HandsOverWithoutGap
<1>1. HandsInv => HandsOverWithoutGap
  <2> SUFFICES ASSUME HandsInv, NEW t \in Jobs, seen[t] # <<>>
               PROVE  LET ids == SeenIds(t)
                          last == ids[Len(ids)]
                          first == ids[1] + 1
                          start == IF From[t] > first THEN From[t] ELSE first
                      IN  IF t \in Walks THEN ids = Between(From[t], last)
                          ELSE Len(ids) > 1 => Tail(ids) = Between(start, last)
    BY DEF HandsOverWithoutGap
  <2> DEFINE z == seen[t]
             ids == SeenIds(t)
             f == From[t]
  <2>1. Keeps(t, job[t], z) /\ IsEvents(z) /\ z # <<>>
    BY JobFacts
  <2>2. Len(z) \in Nat /\ Len(z) # 0 /\ DOMAIN z = 1 .. Len(z)
    BY <2>1, SeqFacts DEF IsEvents
  <2>3. ids = [i \in 1 .. Len(z) |-> z[i].id]
    BY <2>2 DEF SeenIds
  <2>4. ids = [i \in 1 .. Len(z) |-> ids[i]] /\ \A i \in 1 .. Len(z) : ids[i] = z[i].id
    BY <2>3
  <2>5. IsSeq(ids) /\ Len(ids) = Len(z)
    BY <2>2, <2>4, FunctionIsSeq
  <2>6. f \in Nat
    BY JobKinds
  <2> HIDE DEF z, ids, f
  <2>7. CASE t \in Walks
    <3>1. IsPiece(z, Below(f))
      BY <2>1, <2>7 DEF Keeps, WalkHands, f
    <3>2. Len(ids) > 0 /\ Below(f) + Len(ids) <= Len(Log) /\ \A i \in 1 .. Len(ids) : ids[i] = Log[Below(f) + i]
      BY <2>2, <2>4, <2>5, <3>1 DEF IsPiece
    <3>3. ids = Between(f, ids[Len(ids)])
      BY <2>5, <2>6, <3>2, PieceIsBetween
    <3> QED BY <2>7, <3>3 DEF ids, f
  <2>8. CASE t \notin Walks
    <3> SUFFICES ASSUME Len(ids) > 1
                 PROVE  Tail(ids) = Between(StartAfter(f, ids[1]), ids[Len(ids)])
      BY <2>8 DEF StartAfter, ids, f
    <3> DEFINE r == Tail(ids)
               st == StartAfter(f, ids[1])
               lo == Below(st)
    <3>1. t \in Subs
      BY <2>8 DEF Jobs
    <3>2. SubHands(f, job[t], z)
      BY <2>1, <3>1 DEF Keeps, f
    <3>3. ids[1] = z[1].id
      BY <2>2, <2>4
    <3>4. /\ z[1].id \in Nat /\ lo + (Len(z) - 1) <= Len(Log)
          /\ \A i \in 2 .. Len(z) : z[i].id = Log[lo + (i - 1)]
      BY <2>1, <3>2, <3>3 DEF SubHands, Follows, Base
    <3>5. st \in Nat
      BY <2>6, <3>3, <3>4 DEF StartAfter
    <3>6. ids # <<>> /\ ids \in Seq(ToSet(ids))
      BY <2>2, <2>5, EmptyIsSeq DEF IsSeq
    <3>7. r \in Seq(ToSet(ids)) /\ Len(r) = Len(ids) - 1 /\ \A i \in 1 .. Len(r) : r[i] = ids[i + 1]
      BY <3>6, HeadTailProperties
    <3>8. IsSeq(r)
      BY <3>7, SeqIsSeq
    <3> HIDE DEF r, st, lo
    <3>9. Len(r) > 0 /\ Len(r) = Len(z) - 1
      BY <2>2, <2>5, <3>7
    <3>10. ASSUME NEW i \in 1 .. Len(r) PROVE r[i] = Log[lo + i]
      <4>1. i + 1 \in 2 .. Len(z) /\ i + 1 \in 1 .. Len(z) /\ i + 1 - 1 = i
        BY <2>2, <3>9
      <4>2. z[i + 1].id = Log[lo + (i + 1 - 1)]
        BY <3>4, <4>1
      <4> QED BY <2>4, <3>7, <4>1, <4>2
    <3>11. r = Between(st, r[Len(r)])
      BY <3>4, <3>5, <3>8, <3>9, <3>10, PieceIsBetween DEF lo
    <3>12. r[Len(r)] = ids[Len(ids)]
      <4>1. Len(r) \in 1 .. Len(r) /\ Len(r) + 1 = Len(ids)
        BY <2>2, <2>5, <3>9
      <4> QED BY <3>7, <4>1
    <3> QED BY <3>11, <3>12 DEF r, st
  <2> QED BY <2>7, <2>8
<1> QED BY <1>1, HandsInvariant, PTL

-----------------------------------------------------------------------------
(* The contract of a subscription. *)

(* The promises and reports of one subscription. *)
SubTypes == [ready : {"pending", "ready", "failed"}, finished : BOOLEAN,
             cancelled : BOOLEAN, reported : Nat]

(* A subscription that is not over is ready once it has handed something   *)
(* over; one that is over was cancelled, or its loop has ended.            *)
SubOk(h, x, z) ==
  /\ h \in SubTypes
  /\ h.cancelled = TRUE => h.finished = TRUE
  /\ h.finished = TRUE => h.cancelled = TRUE \/ x.at = "over"
  /\ h.finished = FALSE => h.ready = IF Len(z) = 0 THEN "pending" ELSE "ready"

(* The inductive invariant of what is promised. *)
SubsInv ==
  /\ sub \in [Subs -> SubTypes]
  /\ \A s \in Subs : SubOk(sub[s], job[s], seen[s])

(* A step of one subscription as its contract sees it, from h and z handed *)
(* over to k and y: nothing, some more events, or the end.                 *)
Stays(h, z, k, y) ==
  /\ k.ready = h.ready /\ k.finished = h.finished /\ k.reported = h.reported
  /\ Len(y) = Len(z)

(* Some more events. *)
HandsOver(h, z, k, y) ==
  /\ h.finished = FALSE /\ k.finished = FALSE /\ k.ready = "ready" /\ k.reported = h.reported
  /\ Len(y) > Len(z)

(* The end, perhaps after some last events, with a report or without. *)
Stops(h, z, k, y) ==
  /\ h.finished = FALSE /\ k.finished = TRUE /\ k.reported \in {h.reported, h.reported + 1}
  /\ k.ready = IF Len(y) = 0 THEN "failed" ELSE "ready"
  /\ Len(y) >= Len(z)

(* One of the three. *)
SubMoves(h, z, k, y) == Stays(h, z, k, y) \/ HandsOver(h, z, k, y) \/ Stops(h, z, k, y)

(* Subscription s takes such a step, or no subscription does. *)
Advances(s) ==
  \E k, x, y :
    /\ sub' = [sub EXCEPT ![s] = k] /\ job' = [job EXCEPT ![s] = x] /\ seen' = [seen EXCEPT ![s] = y]
    /\ IsEvents(y) /\ SubOk(k, x, y) /\ SubMoves(sub[s], seen[s], k, y)

(* No subscription moves. *)
Bystanding == UNCHANGED sub /\ \A s \in Subs : job'[s] = job[s] /\ seen'[s] = seen[s]

(* What every step but close comes to. *)
SubStep == Bystanding \/ \E s \in Subs : Advances(s)

(* What the invariants say of a single subscription. *)
LEMMA SubFacts ==
  ASSUME HandsInv, SubsInv, NEW s \in Subs
  PROVE  /\ SubOk(sub[s], job[s], seen[s]) /\ sub[s] \in SubTypes /\ IsEvents(seen[s]) /\ Len(seen[s]) \in Nat
         /\ sub[s].finished \in BOOLEAN /\ sub[s].cancelled \in BOOLEAN
         /\ sub[s].reported \in Nat /\ sub[s].ready \in {"pending", "ready", "failed"}
         /\ UNCHANGED sub => sub' = [sub EXCEPT ![s] = sub[s]]
<1>1. sub \in [Subs -> SubTypes] /\ SubOk(sub[s], job[s], seen[s])
  BY DEF SubsInv
<1>2. IsEvents(seen[s])
  BY JobKinds, JobFacts
<1>3. Len(seen[s]) \in Nat
  BY <1>2, SeqFacts DEF IsEvents
<1>4. sub[s] \in SubTypes
  BY <1>1
<1>5. /\ sub[s].finished \in BOOLEAN /\ sub[s].cancelled \in BOOLEAN
      /\ sub[s].reported \in Nat /\ sub[s].ready \in {"pending", "ready", "failed"}
  BY <1>4 DEF SubTypes
<1>6. UNCHANGED sub => sub' = [sub EXCEPT ![s] = sub[s]]
  BY <1>1
<1> QED BY <1>1, <1>2, <1>3, <1>4, <1>5, <1>6

(* A job goes on without its subscription or its caller hearing of it. *)
LEMMA QuietStep ==
  ASSUME HandsInv, SubsInv, NEW t \in Jobs, UNCHANGED <<sub, seen>>, job[t].at # "over",
         NEW x, job' = [job EXCEPT ![t] = x]
  PROVE  SubStep
<1>1. CASE t \in Subs
  <2>1. SubOk(sub[t], x, seen[t])
    BY <1>1, SubFacts DEF SubOk
  <2>2. Stays(sub[t], seen[t], sub[t], seen[t])
    BY DEF Stays
  <2>3. seen' = [seen EXCEPT ![t] = seen[t]] /\ sub' = [sub EXCEPT ![t] = sub[t]] /\ IsEvents(seen[t])
    BY <1>1, JobFacts, SubFacts
  <2>4. Advances(t)
    BY <2>1, <2>2, <2>3 DEF Advances, SubMoves
  <2> QED BY <1>1, <2>4 DEF SubStep
<1>2. CASE t \notin Subs
  <2>1. \A s \in Subs : job'[s] = job[s]
    BY <1>2, JobKinds DEF HandsInv
  <2> QED BY <2>1 DEF SubStep, Bystanding
<1> QED BY <1>1, <1>2

(* The end of a job is the end of its subscription, unless it was          *)
(* cancelled before.                                                       *)
LEMMA EndingStep ==
  ASSUME HandsInv, SubsInv, NEW t \in Jobs, NEW failed \in BOOLEAN, Ending(t, failed), UNCHANGED seen
  PROVE  SubStep
<1>1. job' = [job EXCEPT ![t] = Ended]
  BY DEF Ending, Ended
<1>2. CASE t \notin Subs
  <2>1. UNCHANGED sub
    BY <1>2 DEF Ending, Jobs
  <2>2. \A s \in Subs : job'[s] = job[s]
    BY <1>1, <1>2, JobKinds DEF HandsInv
  <2> QED BY <2>1, <2>2 DEF SubStep, Bystanding
<1>3. CASE t \in Subs
  <2> DEFINE h == sub[t]
             z == seen[t]
  <2>1. /\ SubOk(h, job[t], z) /\ h \in SubTypes /\ IsEvents(z) /\ Len(z) \in Nat
        /\ h.finished \in BOOLEAN /\ h.reported \in Nat /\ seen' = [seen EXCEPT ![t] = z]
    BY <1>3, SubFacts, JobFacts
  <2>2. \E k : sub' = [sub EXCEPT ![t] = k] /\ SubOk(k, Ended, z) /\ SubMoves(h, z, k, z)
    <3>1. CASE h.finished = TRUE
      <4>1. sub' = [sub EXCEPT ![t] = h]
        BY <1>3, <3>1, SubFacts DEF Ending
      <4>2. SubOk(h, Ended, z) /\ SubMoves(h, z, h, z)
        BY <2>1, <3>1, EndedFields DEF SubOk, SubMoves, Stays
      <4> QED BY <4>1, <4>2
    <3>2. CASE h.finished = FALSE
      <4> DEFINE k == [h EXCEPT !.finished = TRUE,
                               !.ready = IF @ = "pending" THEN "failed" ELSE @,
                               !.reported = IF failed THEN @ + 1 ELSE @]
      <4>1. t \notin Walks
        BY <1>3, JobKinds
      <4>2. sub' = [sub EXCEPT ![t].finished = TRUE,
                               ![t].ready = IF @ = "pending" THEN "failed" ELSE @,
                               ![t].reported = IF failed THEN @ + 1 ELSE @]
        BY <3>2, <4>1 DEF Ending
      <4>3. sub' = [sub EXCEPT ![t] = k]
        BY <1>3, <2>1, <4>2 DEF SubsInv, SubTypes
      <4>4. /\ k.finished = TRUE /\ k.cancelled = h.cancelled
            /\ k.ready = IF h.ready = "pending" THEN "failed" ELSE h.ready
            /\ k.reported = IF failed THEN h.reported + 1 ELSE h.reported
        BY <2>1 DEF SubTypes
      <4>5. k \in SubTypes
        <5>1. (IF failed THEN h.reported + 1 ELSE h.reported) \in Nat
          BY <2>1
        <5>2. (IF h.ready = "pending" THEN "failed" ELSE h.ready) \in {"pending", "ready", "failed"}
          BY <2>1 DEF SubTypes
        <5> QED BY <2>1, <5>1, <5>2 DEF SubTypes
      <4>6. h.ready = IF Len(z) = 0 THEN "pending" ELSE "ready"
        BY <2>1, <3>2 DEF SubOk
      <4> HIDE DEF k, h, z
      <4>7. SubOk(k, Ended, z)
        BY <4>4, <4>5, EndedFields DEF SubOk
      <4>8. Stops(h, z, k, z)
        BY <2>1, <3>2, <4>4, <4>6 DEF Stops
      <4> QED BY <4>3, <4>7, <4>8 DEF SubMoves, h
    <3> QED BY <2>1, <3>1, <3>2
  <2>3. Advances(t)
    BY <1>1, <2>1, <2>2 DEF Advances
  <2> QED BY <1>3, <2>3 DEF SubStep
<1> QED BY <1>2, <1>3

(* Stamping a page is quiet, or it ends the job. *)
LEMMA CanonicalizeStep ==
  ASSUME HandsInv, SubsInv, NEW t \in Jobs, NEW c, NEW got, NEW todo, job[t].at = "flight",
         Canonicalize(t, c, got, todo), UNCHANGED seen
  PROVE  SubStep
<1>1. Ending(t, TRUE) \/ (UNCHANGED sub /\ \E x : job' = [job EXCEPT ![t] = x])
  <2> DEFINE M == { Max({k \in 0 .. Len(todo) : \A i \in 1 .. k : Stampable(c, todo[i])}) }
             S(n) == { got \o [i \in 1 .. n |-> Stamped(c, todo[i])] }
             R(n) == SubSeq(todo, n + 1, Len(todo))
  <2>1. \E n \in M : \E stamped \in S(n) :
          \/ Ending(t, TRUE)
          \/ Asking(t, job[t].q, todo[n + 1].block, stamped, R(n)) /\ UNCHANGED sub
          \/ job' = [job EXCEPT ![t] = [@ EXCEPT !.at = "hand", !.got = stamped, !.todo = <<>>, !.block = 0]]
             /\ UNCHANGED <<queue, sub>>
    BY Zenon DEF Canonicalize
  <2> HIDE DEF M, S, R
  <2>2. PICK n \in M : \E stamped \in S(n) :
          \/ Ending(t, TRUE)
          \/ Asking(t, job[t].q, todo[n + 1].block, stamped, R(n)) /\ UNCHANGED sub
          \/ job' = [job EXCEPT ![t] = [@ EXCEPT !.at = "hand", !.got = stamped, !.todo = <<>>, !.block = 0]]
             /\ UNCHANGED <<queue, sub>>
    BY <2>1
  <2> QED BY <2>2 DEF Asking
<1> QED BY <1>1, EndingStep, QuietStep

(* So is taking an answer. *)
LEMMA TakeStep ==
  ASSUME HandsInv, SubsInv, NEW t \in Jobs, NEW answer, Take(t, answer)
  PROVE  SubStep
<1>1. job[t].at = "flight" /\ UNCHANGED seen
  BY DEF Take
<1>2. \/ Ending(t, TRUE)
      \/ \E page : Canonicalize(t, cache', <<>>, page)
      \/ Canonicalize(t, cache', job[t].got, job[t].todo)
  <2>1. \E page \in {Read(answer)} :
          \/ Ending(t, TRUE)
          \/ Canonicalize(t, cache', <<>>, page)
          \/ Canonicalize(t, cache', job[t].got, job[t].todo)
    BY Zenon DEF Take, Read
  <2> QED BY <2>1
<1> QED BY <1>1, <1>2, EndingStep, CanonicalizeStep

(* A page that is handed over is some more events, unless the subscription *)
(* was cancelled before or its handler throws.                             *)
LEMMA EmitStep ==
  ASSUME HandsInv, SubsInv, NEW s \in Subs, Emit(s)
  PROVE  SubStep
<1> DEFINE h == sub[s]
           z == seen[s]
           p == job[s].got
<1>1. s \in Jobs /\ s \notin Walks
  BY JobKinds
<1>2. /\ SubOk(h, job[s], z) /\ h \in SubTypes /\ IsEvents(z) /\ Len(z) \in Nat
      /\ h.finished \in BOOLEAN /\ h.cancelled \in BOOLEAN /\ h.reported \in Nat
      /\ h.ready \in {"pending", "ready", "failed"} /\ sub \in [Subs -> SubTypes]
  BY SubFacts DEF SubsInv
<1>3. IsEvents(p) /\ Len(p) \in Nat /\ DOMAIN p = 1 .. Len(p) /\ (p = <<>> <=> Len(p) = 0)
  <2>1. IsEvents(p)
    BY <1>1, JobFacts
  <2> QED BY <2>1, SeqFacts DEF IsEvents
<1>4. job[s].at = "hand" /\ p # <<>>
  BY DEF Emit
<1>5. h.finished = TRUE => h.cancelled = TRUE
  BY <1>2, <1>4 DEF SubOk
<1>6. Emitted(s) = IF h.cancelled THEN <<>> ELSE p
  BY DEF Emitted, Aborted
<1>7. \/ /\ seen' = [seen EXCEPT ![s] = z \o Emitted(s)]
         /\ Emitted(s) = <<>> /\ Ending(s, FALSE)
      \/ /\ seen' = [seen EXCEPT ![s] = z \o Emitted(s)]
         /\ Emitted(s) # <<>> /\ Continue(s, NextAfter(s, p))
         /\ sub' = [sub EXCEPT ![s].ready = IF @ = "pending" THEN "ready" ELSE @]
      \/ \E n \in DOMAIN Emitted(s) :
           /\ seen' = [seen EXCEPT ![s] = z \o SubSeq(p, 1, n - 1)]
           /\ job' = [job EXCEPT ![s] = Ended]
           /\ sub' = [sub EXCEPT ![s].finished = TRUE,
                 ![s].ready = IF @ = "pending" /\ n = 1 THEN "failed" ELSE "ready",
                 ![s].reported = @ + 1]
  BY DEF Emit, Ended
<1>8. h.finished = FALSE => h.ready = IF Len(z) = 0 THEN "pending" ELSE "ready"
  BY <1>2 DEF SubOk
<1>9. CASE /\ seen' = [seen EXCEPT ![s] = z \o Emitted(s)]
           /\ Emitted(s) = <<>> /\ Ending(s, FALSE)
  <2>1. z \o <<>> = z
    BY <1>2, ConcatEmptySeq DEF IsEvents, IsSeq
  <2>2. UNCHANGED seen
    BY <1>1, <1>9, <2>1 DEF HandsInv
  <2> QED BY <1>1, <1>9, <2>2, EndingStep
<1>10. CASE /\ seen' = [seen EXCEPT ![s] = z \o Emitted(s)]
            /\ Emitted(s) # <<>> /\ Continue(s, NextAfter(s, p))
            /\ sub' = [sub EXCEPT ![s].ready = IF @ = "pending" THEN "ready" ELSE @]
  <2> DEFINE k == [h EXCEPT !.ready = IF @ = "pending" THEN "ready" ELSE @]
             y == z \o p
  <2>1. h.cancelled = FALSE /\ h.finished = FALSE /\ Emitted(s) = p
    BY <1>2, <1>5, <1>6, <1>10
  <2>2. k.finished = FALSE /\ k.cancelled = FALSE /\ k.reported = h.reported /\ k.ready = "ready" /\ k \in SubTypes
    <3>1. h.ready \in {"pending", "ready"}
      BY <1>8, <2>1
    <3> QED BY <1>2, <2>1, <3>1 DEF SubTypes
  <2>3. sub' = [sub EXCEPT ![s] = k] /\ seen' = [seen EXCEPT ![s] = y]
    BY <1>2, <1>10, <2>1
  <2>4. PICK x : job' = [job EXCEPT ![s] = x]
    BY <1>10 DEF Continue
  <2>5. IsEvents(y) /\ Len(y) = Len(z) + Len(p)
    BY <1>2, <1>3, EventsConcat, ConcatIsSeq DEF IsEvents
  <2> HIDE DEF k, y, h, z, p
  <2>6. Len(y) \in Nat /\ Len(y) > Len(z) /\ Len(y) # 0
    BY <1>2, <1>3, <1>4, <2>5
  <2>7. SubOk(k, x, y) /\ HandsOver(h, z, k, y)
    BY <2>1, <2>2, <2>6 DEF SubOk, HandsOver
  <2>8. Advances(s)
    BY <2>3, <2>4, <2>5, <2>7 DEF Advances, SubMoves, h, z
  <2> QED BY <2>8 DEF SubStep
<1>11. ASSUME NEW n \in DOMAIN Emitted(s),
              seen' = [seen EXCEPT ![s] = z \o SubSeq(p, 1, n - 1)],
              job' = [job EXCEPT ![s] = Ended],
              sub' = [sub EXCEPT ![s].finished = TRUE,
                 ![s].ready = IF @ = "pending" /\ n = 1 THEN "failed" ELSE "ready",
                 ![s].reported = @ + 1]
       PROVE  SubStep
  <2> DEFINE k == [h EXCEPT !.finished = TRUE,
                           !.ready = IF @ = "pending" /\ n = 1 THEN "failed" ELSE "ready",
                           !.reported = @ + 1]
             g == SubSeq(p, 1, n - 1)
             y == z \o g
  <2>1. h.cancelled = FALSE /\ Emitted(s) = p
    <3>1. CASE h.cancelled = TRUE
      <4>1. DOMAIN Emitted(s) = {}
        <5>1. Emitted(s) = <<>> /\ DOMAIN <<>> = {}
          BY <1>6, <3>1
        <5> QED BY <5>1
      <4> QED BY <1>11, <4>1
    <3>2. CASE h.cancelled = FALSE
      BY <1>6, <3>2
    <3> QED BY <1>2, <3>1, <3>2
  <2>2. h.finished = FALSE /\ n \in 1 .. Len(p)
    BY <1>2, <1>3, <1>5, <2>1
  <2>3. /\ k.finished = TRUE /\ k.cancelled = FALSE /\ k.reported = h.reported + 1
        /\ k.ready = IF h.ready = "pending" /\ n = 1 THEN "failed" ELSE "ready"
    BY <1>2, <2>1 DEF SubTypes
  <2>4. k \in SubTypes
    <3>1. h.reported + 1 \in Nat
      BY <1>2
    <3>2. (IF h.ready = "pending" /\ n = 1 THEN "failed" ELSE "ready") \in {"pending", "ready", "failed"}
      OBVIOUS
    <3> QED BY <1>2, <3>1, <3>2 DEF SubTypes
  <2>5. sub' = [sub EXCEPT ![s] = k] /\ seen' = [seen EXCEPT ![s] = y]
    BY <1>2, <1>11 DEF SubTypes
  <2>6. n - 1 \in 0 .. Len(p) /\ 1 \in Nat \ {0} /\ 1 <= n - 1 + 1
    BY <1>3, <2>2
  <2>7. IsEvents(g) /\ Len(g) = n - 1
    <3>1. Len(g) = n - 1 - 1 + 1
      BY <1>3, <2>6, SubSeqIsSeq DEF IsEvents
    <3> QED BY <1>3, <2>2, <2>6, <3>1, EventsSubSeq
  <2> HIDE DEF g
  <2>8. IsEvents(y) /\ Len(y) = Len(z) + Len(g)
    BY <1>2, <2>7, EventsConcat, ConcatIsSeq DEF IsEvents
  <2> HIDE DEF k, y, h, z, p
  <2>9. Len(y) \in Nat /\ Len(y) >= Len(z) /\ (Len(y) = 0 <=> Len(z) = 0 /\ n = 1)
    BY <1>2, <1>3, <2>2, <2>7, <2>8
  <2>10. k.ready = IF Len(y) = 0 THEN "failed" ELSE "ready"
    BY <1>8, <2>2, <2>3, <2>9
  <2>11. SubOk(k, Ended, y)
    BY <2>3, <2>4, EndedFields DEF SubOk
  <2>12. Stops(h, z, k, y)
    BY <1>2, <2>2, <2>3, <2>9, <2>10 DEF Stops
  <2>13. Advances(s)
    BY <1>11, <2>5, <2>8, <2>11, <2>12 DEF Advances, SubMoves, h, z
  <2> QED BY <2>13 DEF SubStep
<1> QED BY <1>7, <1>9, <1>10, <1>11

(* A caller cancels: its subscription is over at once, its loop is not.    *)
LEMMA CancelStep ==
  ASSUME HandsInv, SubsInv, NEW s \in Subs, Cancel(s)
  PROVE  SubStep
<1> DEFINE h == sub[s]
           z == seen[s]
           k == [h EXCEPT !.cancelled = TRUE, !.finished = TRUE,
                          !.ready = IF @ = "pending" THEN "failed" ELSE @]
<1>1. s \in Jobs
  BY JobKinds
<1>2. /\ SubOk(h, job[s], z) /\ h \in SubTypes /\ IsEvents(z) /\ Len(z) \in Nat
      /\ h.reported \in Nat /\ h.ready \in {"pending", "ready", "failed"} /\ sub \in [Subs -> SubTypes]
  BY SubFacts DEF SubsInv
<1>3. UNCHANGED <<job, seen>> /\ job[s].at # "idle" /\ h.finished = FALSE
  BY <1>2 DEF Cancel, SubTypes
<1>4. sub' = [sub EXCEPT ![s] = k]
  <2>1. sub' = [u \in Subs |-> IF u \notin {s} \/ sub[u].finished \/ job[u].at = "idle" THEN sub[u]
                               ELSE [sub[u] EXCEPT !.cancelled = TRUE, !.finished = TRUE,
                                                   !.ready = IF @ = "pending" THEN "failed" ELSE @]]
    BY Zenon DEF Cancel, Cancelled
  <2>2. \A u \in Subs : sub'[u] = IF u = s THEN k ELSE sub[u]
    BY <1>3, <2>1
  <2>3. sub' = [u \in Subs |-> sub'[u]]
    BY <2>1
  <2> HIDE DEF k
  <2> QED BY <1>2, <2>2, <2>3
<1>5. /\ k.cancelled = TRUE /\ k.finished = TRUE /\ k.reported = h.reported
      /\ k.ready = (IF h.ready = "pending" THEN "failed" ELSE h.ready) /\ k \in SubTypes
  <2>1. (IF h.ready = "pending" THEN "failed" ELSE h.ready) \in {"pending", "ready", "failed"}
    BY <1>2
  <2> QED BY <1>2, <2>1 DEF SubTypes
<1>6. h.ready = IF Len(z) = 0 THEN "pending" ELSE "ready"
  BY <1>2, <1>3 DEF SubOk
<1>7. job' = [job EXCEPT ![s] = job[s]] /\ seen' = [seen EXCEPT ![s] = z]
  BY <1>1, <1>3, JobFacts
<1> HIDE DEF h, k, z
<1>8. SubOk(k, job[s], z) /\ Stops(h, z, k, z)
  BY <1>2, <1>3, <1>5, <1>6 DEF SubOk, Stops
<1>9. Advances(s)
  BY <1>2, <1>4, <1>7, <1>8 DEF Advances, SubMoves, h, z
<1> QED BY <1>9 DEF SubStep

(* The source, the gate and the walks leave every subscription as it is.   *)
LEMMA ByStep ==
  ASSUME HandsInv,
         \/ Produce \/ GateSkip \/ Tick \/ UNCHANGED vars
         \/ \E w \in Walks : WalkOn(w)
  PROVE  SubStep
<1>1. CASE Produce \/ GateSkip \/ Tick \/ UNCHANGED vars
  BY <1>1 DEF Produce, GateSkip, Tick, vars, SubStep, Bystanding
<1>2. ASSUME NEW w \in Walks, WalkOn(w) PROVE SubStep
  <2>1. w \in Jobs /\ \A s \in Subs : s \in Jobs /\ s # w
    BY JobKinds
  <2>2. UNCHANGED sub /\ \E x : job' = [job EXCEPT ![w] = x]
    BY <1>2 DEF WalkOn, Ask, Asking, Ending
  <2>3. seen' = seen \/ \E z : seen' = [seen EXCEPT ![w] = z]
    BY <1>2 DEF WalkOn
  <2>4. \A s \in Subs : job'[s] = job[s] /\ seen'[s] = seen[s]
    BY <2>1, <2>2, <2>3 DEF HandsInv
  <2> QED BY <2>2, <2>4 DEF SubStep, Bystanding
<1> QED BY <1>1, <1>2

(* Every step but close moves one subscription, or none. *)
LEMMA StepIsSubStep ==
  ASSUME HandsInv, SubsInv, [Next]_vars
  PROVE  SubStep \/ Close
<1>1. CASE Produce \/ GateSkip \/ Tick \/ UNCHANGED vars \/ \E w \in Walks : WalkOn(w)
  BY <1>1, ByStep
<1>2. CASE GateStart
  <2> DEFINE t == queue[1]
  <2>1. /\ t \in Jobs /\ job[t].at = "gate" /\ UNCHANGED seen
        /\ Ending(t, TRUE) \/ (UNCHANGED sub /\ job' = [job EXCEPT ![t].at = "flight"])
    BY <1>2, QueueFacts DEF GateStart
  <2> HIDE DEF t
  <2>2. CASE Ending(t, TRUE)
    BY <2>1, <2>2, EndingStep
  <2>3. CASE UNCHANGED sub /\ job' = [job EXCEPT ![t].at = "flight"]
    <3>1. \E x : job' = [job EXCEPT ![t] = x]
      BY <2>3
    <3> QED BY <2>1, <2>3, <3>1, QuietStep
  <2> QED BY <2>1, <2>2, <2>3
<1>3. ASSUME NEW t \in Jobs, RequestFails(t) \/ Unwind(t) \/ AbortWalk(t) PROVE SubStep
  <2>1. UNCHANGED seen /\ \E failed \in BOOLEAN : Ending(t, failed)
    BY <1>3 DEF RequestFails, Unwind, AbortWalk
  <2> QED BY <2>1, EndingStep
<1>4. ASSUME NEW t \in Jobs, Respond(t) \/ RespondLate(t) \/ RespondBadly(t) PROVE SubStep
  <2>1. \E answer : Take(t, answer)
    BY <1>4 DEF Respond, RespondLate, RespondBadly
  <2> QED BY <2>1, TakeStep
<1>5. ASSUME NEW t \in Jobs, Subscribe(t) \/ Poll(t) \/ Advance(t) \/ Walk(t) PROVE SubStep
  <2>1. /\ UNCHANGED <<sub, seen>> /\ job[t].at # "over"
        /\ \E x : job' = [job EXCEPT ![t] = x]
    BY <1>5 DEF Subscribe, Poll, Advance, Walk, Ask, Asking
  <2> QED BY <2>1, QuietStep
<1>6. ASSUME NEW s \in Subs, Emit(s) \/ Cancel(s) PROVE SubStep
  BY <1>6, EmitStep, CancelStep
<1>7. Subs \subseteq Jobs /\ Walks \subseteq Jobs
  BY JobKinds
<1> QED BY <1>1, <1>2, <1>3, <1>4, <1>5, <1>6, <1>7 DEF Next

(* close ends every subscription that has begun and is not over.           *)
Closes(s) == sub[s].finished = FALSE /\ job[s].at # "idle"

(* What close does to a subscription. *)
LEMMA CloseFacts ==
  ASSUME HandsInv, SubsInv, Close
  PROVE  /\ sub' \in [Subs -> SubTypes] /\ UNCHANGED seen
         /\ \A s \in Subs : /\ job'[s] = job[s] /\ SubOk(sub'[s], job[s], seen[s])
                            /\ ~Closes(s) => sub'[s] = sub[s]
                            /\ Closes(s) => /\ sub'[s].finished = TRUE /\ sub'[s].reported = sub[s].reported
                                            /\ sub'[s].ready = IF Len(seen[s]) = 0 THEN "failed" ELSE "ready"
<1>1. UNCHANGED seen
  BY DEF Close
<1>2. job' = [t \in Jobs |-> IF t \in Walks /\ job[t].at = "flight" THEN Ended ELSE job[t]]
  BY DEF Close, Ended
<1>3. \A s \in Subs : job'[s] = job[s]
  BY <1>2, JobKinds
<1>4. sub' = [u \in Subs |-> IF u \notin Subs \/ sub[u].finished \/ job[u].at = "idle" THEN sub[u]
                             ELSE [sub[u] EXCEPT !.cancelled = TRUE, !.finished = TRUE,
                                                 !.ready = IF @ = "pending" THEN "failed" ELSE @]]
  BY Zenon DEF Close, Cancelled
<1>5. ASSUME NEW s \in Subs
      PROVE  /\ sub'[s] \in SubTypes /\ SubOk(sub'[s], job[s], seen[s])
             /\ ~Closes(s) => sub'[s] = sub[s]
             /\ Closes(s) => /\ sub'[s].finished = TRUE /\ sub'[s].reported = sub[s].reported
                             /\ sub'[s].ready = IF Len(seen[s]) = 0 THEN "failed" ELSE "ready"
  <2> DEFINE h == sub[s]
             z == seen[s]
             k == [h EXCEPT !.cancelled = TRUE, !.finished = TRUE,
                            !.ready = IF @ = "pending" THEN "failed" ELSE @]
  <2>1. /\ SubOk(h, job[s], z) /\ h \in SubTypes /\ Len(z) \in Nat /\ h.finished \in BOOLEAN
        /\ h.ready \in {"pending", "ready", "failed"}
    BY SubFacts
  <2>2. CASE ~Closes(s)
    <3>1. sub'[s] = h
      BY <1>4, <2>1, <2>2 DEF Closes
    <3> QED BY <2>1, <2>2, <3>1
  <2>3. CASE Closes(s)
    <3>1. sub'[s] = k
      BY <1>4, <2>1, <2>3 DEF Closes
    <3>2. /\ k.cancelled = TRUE /\ k.finished = TRUE /\ k.reported = h.reported
          /\ k.ready = (IF h.ready = "pending" THEN "failed" ELSE h.ready) /\ k \in SubTypes
      <4>1. (IF h.ready = "pending" THEN "failed" ELSE h.ready) \in {"pending", "ready", "failed"}
        BY <2>1
      <4> QED BY <2>1, <4>1 DEF SubTypes
    <3>3. h.ready = IF Len(z) = 0 THEN "pending" ELSE "ready"
      BY <2>1, <2>3 DEF SubOk, Closes
    <3> HIDE DEF k
    <3>4. SubOk(k, job[s], z) /\ k.ready = IF Len(z) = 0 THEN "failed" ELSE "ready"
      BY <3>2, <3>3 DEF SubOk
    <3> QED BY <2>3, <3>1, <3>2, <3>4
  <2> QED BY <2>2, <2>3
<1>6. sub' \in [Subs -> SubTypes]
  <2>1. sub' = [u \in Subs |-> sub'[u]]
    BY <1>4
  <2> QED BY <1>5, <2>1
<1> QED BY <1>1, <1>3, <1>5, <1>6

(* SubsInv is inductive. *)
LEMMA SubsInvariant == Spec => [](HandsInv /\ SubsInv)
<1>1. Init => SubsInv
  <2> SUFFICES ASSUME Init PROVE SubsInv
    OBVIOUS
  <2> DEFINE h == [ready |-> "pending", finished |-> FALSE, cancelled |-> FALSE, reported |-> 0]
  <2>1. sub = [s \in Subs |-> h] /\ seen = [t \in Jobs |-> <<>>] /\ Len(<<>>) = 0
    BY EmptyIsSeq DEF Init
  <2>2. h \in SubTypes /\ h.finished = FALSE /\ h.cancelled = FALSE /\ h.ready = "pending"
    BY DEF SubTypes
  <2> HIDE DEF h
  <2>3. \A s \in Subs : sub[s] = h /\ seen[s] = <<>>
    BY <2>1, JobKinds
  <2>4. \A x : SubOk(h, x, <<>>)
    BY <2>1, <2>2 DEF SubOk
  <2> QED BY <2>1, <2>2, <2>3, <2>4 DEF SubsInv
<1>2. HandsInv /\ SubsInv /\ [Next]_vars => SubsInv'
  <2> SUFFICES ASSUME HandsInv, SubsInv, [Next]_vars PROVE SubsInv'
    OBVIOUS
  <2>0. sub \in [Subs -> SubTypes] /\ \A s \in Subs : SubOk(sub[s], job[s], seen[s])
    BY DEF SubsInv
  <2>1. CASE Bystanding
    BY <2>0, <2>1 DEF Bystanding, SubsInv
  <2>2. ASSUME NEW s \in Subs, Advances(s) PROVE SubsInv'
    <3>1. PICK k, x, y : /\ sub' = [sub EXCEPT ![s] = k] /\ job' = [job EXCEPT ![s] = x]
                         /\ seen' = [seen EXCEPT ![s] = y] /\ SubOk(k, x, y)
      BY <2>2 DEF Advances
    <3>2. k \in SubTypes
      BY <3>1 DEF SubOk
    <3>3. sub' \in [Subs -> SubTypes]
      BY <2>0, <3>1, <3>2
    <3>4. ASSUME NEW u \in Subs PROVE SubOk(sub'[u], job'[u], seen'[u])
      <4>1. u \in Jobs /\ s \in Jobs
        BY JobKinds
      <4>2. CASE u = s
        <5>1. sub'[u] = k /\ job'[u] = x /\ seen'[u] = y
          BY <2>0, <3>1, <4>1, <4>2 DEF HandsInv
        <5> QED BY <3>1, <5>1
      <4>3. CASE u # s
        <5>1. sub'[u] = sub[u] /\ job'[u] = job[u] /\ seen'[u] = seen[u]
          BY <2>0, <3>1, <4>1, <4>3 DEF HandsInv
        <5> QED BY <2>0, <5>1
      <4> QED BY <4>2, <4>3
    <3> QED BY <3>3, <3>4 DEF SubsInv
  <2>3. CASE Close
    BY <2>3, CloseFacts DEF SubsInv
  <2> QED BY <2>1, <2>2, <2>3, StepIsSubStep DEF SubStep
<1> QED BY <1>1, <1>2, HandsInvariant, PTL DEF Spec

(* A step of one subscription is a step of the contract. *)
LEMMA AdvanceIsContractStep ==
  ASSUME HandsInv, SubsInv, NEW s \in Subs, Advances(s)
  PROVE  Contract!Next \/ UNCHANGED Contract!vars
<1> DEFINE h == sub[s]
           z == seen[s]
           readyBar == [u \in Subs |-> sub[u].ready]
           endedBar == [u \in Subs |-> sub[u].finished]
           reportedBar == [u \in Subs |-> sub[u].reported]
           handledBar == [u \in Subs |-> Len(seen[u])]
<1>1. PICK k, x, y : /\ sub' = [sub EXCEPT ![s] = k] /\ job' = [job EXCEPT ![s] = x]
                     /\ seen' = [seen EXCEPT ![s] = y]
                     /\ IsEvents(y) /\ SubOk(k, x, y) /\ SubMoves(h, z, k, y)
  BY DEF Advances
<1>2. /\ SubOk(h, job[s], z) /\ h.finished \in BOOLEAN /\ h.reported \in Nat /\ Len(z) \in Nat
      /\ sub \in [Subs -> SubTypes]
  BY SubFacts DEF SubsInv
<1>3. k.finished \in BOOLEAN /\ k.reported \in Nat /\ Len(y) \in Nat
  <2>1. k \in SubTypes
    BY <1>1 DEF SubOk
  <2>2. Len(y) \in Nat
    BY <1>1, SeqFacts DEF IsEvents
  <2> QED BY <2>1, <2>2 DEF SubTypes
<1>4. /\ readyBar' = [readyBar EXCEPT ![s] = k.ready]
      /\ endedBar' = [endedBar EXCEPT ![s] = k.finished]
      /\ reportedBar' = [reportedBar EXCEPT ![s] = k.reported]
  BY <1>1, <1>2
<1>5. handledBar' = [handledBar EXCEPT ![s] = Len(y)]
  <2>1. \A u \in Subs : seen'[u] = IF u = s THEN y ELSE seen[u]
    BY <1>1, JobKinds DEF HandsInv
  <2> QED BY <2>1
<1>6. /\ readyBar[s] = h.ready /\ endedBar[s] = h.finished
      /\ reportedBar[s] = h.reported /\ handledBar[s] = Len(z) /\ handledBar'[s] = Len(y)
  BY <1>5
<1>7. /\ readyBar = [readyBar EXCEPT ![s] = h.ready] /\ endedBar = [endedBar EXCEPT ![s] = h.finished]
      /\ reportedBar = [reportedBar EXCEPT ![s] = h.reported]
      /\ handledBar = [handledBar EXCEPT ![s] = Len(z)]
  OBVIOUS
<1>8. /\ (UNCHANGED Contract!vars) <=> UNCHANGED <<readyBar, endedBar, reportedBar, handledBar>>
      /\ Contract!Deliver(s) <=>
           /\ ~endedBar[s] /\ handledBar'[s] > handledBar[s]
           /\ handledBar' = [handledBar EXCEPT ![s] = handledBar'[s]]
           /\ readyBar' = [readyBar EXCEPT ![s] = "ready"]
           /\ UNCHANGED <<endedBar, reportedBar>>
      /\ \A r : Contract!End(s, r) <=>
           /\ ~endedBar[s] /\ handledBar'[s] >= handledBar[s]
           /\ handledBar' = [handledBar EXCEPT ![s] = handledBar'[s]]
           /\ endedBar' = [endedBar EXCEPT ![s] = TRUE]
           /\ reportedBar' = [reportedBar EXCEPT ![s] = reportedBar[s] + r]
           /\ readyBar' = [readyBar EXCEPT ![s] = IF handledBar'[s] = 0 THEN "failed" ELSE "ready"]
  BY DEF Contract!vars, Contract!Deliver, Contract!End, Contract!Takes
<1>9. Contract!Deliver(s) \/ Contract!End(s, 0) \/ Contract!End(s, 1) => Contract!Next
  BY DEF Contract!Next
<1>10. Stays(h, z, k, y) \/ HandsOver(h, z, k, y) \/ Stops(h, z, k, y)
  BY <1>1 DEF SubMoves
<1> HIDE DEF h, z, readyBar, endedBar, reportedBar, handledBar
<1>11. handledBar' = [handledBar EXCEPT ![s] = handledBar'[s]]
  BY <1>5, <1>6
<1>12. CASE Stays(h, z, k, y)
  <2>1. k.ready = h.ready /\ k.finished = h.finished /\ k.reported = h.reported /\ Len(y) = Len(z)
    BY <1>12 DEF Stays
  <2>2. readyBar' = readyBar /\ endedBar' = endedBar /\ reportedBar' = reportedBar /\ handledBar' = handledBar
    BY <1>4, <1>5, <1>7, <2>1
  <2> QED BY <1>8, <2>2
<1>13. CASE HandsOver(h, z, k, y)
  <2>1. /\ h.finished = FALSE /\ k.finished = FALSE /\ k.ready = "ready" /\ k.reported = h.reported
        /\ Len(y) > Len(z)
    BY <1>13 DEF HandsOver
  <2>2. ~endedBar[s] /\ UNCHANGED <<endedBar, reportedBar>>
    BY <1>4, <1>6, <1>7, <2>1
  <2>3. handledBar'[s] > handledBar[s] /\ readyBar' = [readyBar EXCEPT ![s] = "ready"]
    BY <1>4, <1>6, <2>1
  <2>4. Contract!Deliver(s)
    BY <1>8, <1>11, <2>2, <2>3
  <2> QED BY <1>9, <2>4
<1>14. CASE Stops(h, z, k, y)
  <2>1. h.finished = FALSE /\ k.finished = TRUE /\ Len(y) >= Len(z)
    BY <1>14 DEF Stops
  <2>2. k.ready = IF Len(y) = 0 THEN "failed" ELSE "ready"
    BY <1>14 DEF Stops
  <2>3. PICK r \in {0, 1} : k.reported = h.reported + r
    BY <1>2, <1>14 DEF Stops
  <2>4. ~endedBar[s] /\ handledBar'[s] >= handledBar[s]
    BY <1>6, <2>1
  <2>5. endedBar' = [endedBar EXCEPT ![s] = TRUE] /\ reportedBar' = [reportedBar EXCEPT ![s] = reportedBar[s] + r]
    BY <1>4, <1>6, <2>1, <2>3
  <2>6. readyBar' = [readyBar EXCEPT ![s] = IF handledBar'[s] = 0 THEN "failed" ELSE "ready"]
    BY <1>4, <1>6, <2>2
  <2>7. Contract!End(s, r)
    BY <1>8, <1>11, <2>4, <2>5, <2>6
  <2> QED BY <1>9, <2>7
<1> QED BY <1>10, <1>12, <1>13, <1>14

(* close is the contract's Close, of the subscriptions that it ends.       *)
LEMMA CloseIsContractStep ==
  ASSUME HandsInv, SubsInv, Close
  PROVE  Contract!Next
<1> PICK S \in SUBSET Subs : \A s \in Subs : s \in S <=> Closes(s)
  <2>1. {s \in Subs : Closes(s)} \in SUBSET Subs
    OBVIOUS
  <2> QED BY <2>1
<1> DEFINE readyBar == [u \in Subs |-> sub[u].ready]
           endedBar == [u \in Subs |-> sub[u].finished]
           reportedBar == [u \in Subs |-> sub[u].reported]
           handledBar == [u \in Subs |-> Len(seen[u])]
<1>1. /\ UNCHANGED seen
      /\ \A s \in Subs : /\ ~Closes(s) => sub'[s] = sub[s]
                         /\ Closes(s) => /\ sub'[s].finished = TRUE /\ sub'[s].reported = sub[s].reported
                                         /\ sub'[s].ready = IF Len(seen[s]) = 0 THEN "failed" ELSE "ready"
  BY CloseFacts
<1>2. \A s \in Subs : /\ sub[s].finished \in BOOLEAN
                      /\ Closes(s) => sub[s].finished = FALSE
                      /\ Closes(s) => sub[s].ready = IF Len(seen[s]) = 0 THEN "pending" ELSE "ready"
  BY SubFacts DEF SubOk, Closes
<1>3. handledBar' = handledBar /\ reportedBar' = reportedBar
  <2>1. \A s \in Subs : sub'[s].reported = sub[s].reported
    BY <1>1
  <2> QED BY <1>1, <2>1
<1>4. endedBar' = [s \in Subs |-> endedBar[s] \/ s \in S]
  <2>1. \A s \in Subs : sub'[s].finished = (sub[s].finished \/ Closes(s))
    <3> SUFFICES ASSUME NEW s \in Subs PROVE sub'[s].finished = (sub[s].finished \/ Closes(s))
      OBVIOUS
    <3>1. CASE Closes(s)
      BY <1>1, <3>1
    <3>2. CASE ~Closes(s)
      BY <1>1, <1>2, <3>2
    <3> QED BY <3>1, <3>2
  <2>2. endedBar' = [s \in Subs |-> sub'[s].finished]
    OBVIOUS
  <2>3. \A s \in Subs : (endedBar[s] \/ s \in S) = (sub[s].finished \/ Closes(s))
    OBVIOUS
  <2> QED BY <2>1, <2>2, <2>3
<1>5. readyBar' = [s \in Subs |-> IF s \in S /\ handledBar[s] = 0 THEN "failed" ELSE readyBar[s]]
  <2>1. \A s \in Subs : sub'[s].ready = IF Closes(s) /\ Len(seen[s]) = 0 THEN "failed" ELSE sub[s].ready
    BY <1>1, <1>2
  <2> QED BY <2>1
<1>6. \A s \in S : ~endedBar[s]
  BY <1>2
<1>7. Contract!Close(S) <=>
        /\ \A s \in S : ~endedBar[s]
        /\ endedBar' = [s \in Subs |-> endedBar[s] \/ s \in S]
        /\ readyBar' = [s \in Subs |-> IF s \in S /\ handledBar[s] = 0 THEN "failed" ELSE readyBar[s]]
        /\ UNCHANGED <<reportedBar, handledBar>>
  BY DEF Contract!Close
<1> HIDE DEF readyBar, endedBar, reportedBar, handledBar
<1>8. Contract!Close(S)
  BY <1>3, <1>4, <1>5, <1>6, <1>7
<1> QED BY <1>8 DEF Contract!Next

(* The HTTP subscriptions implement the contract that the shard worker is  *)
(* written against: whatever fails, is late, is corrupt or is cancelled,   *)
(* `ready` settles once, nothing is handed over after the end, and the end *)
(* is reported at most once and never after a cancellation.                *)
THEOREM TransportKeepsContract == Spec => ImplementsSubscription
<1>1. Init => Contract!Init
  <2> SUFFICES ASSUME Init PROVE Contract!Init
    OBVIOUS
  <2>1. /\ sub = [s \in Subs |-> [ready |-> "pending", finished |-> FALSE,
                                  cancelled |-> FALSE, reported |-> 0]]
        /\ \A s \in Subs : seen[s] = <<>>
    BY JobKinds DEF Init
  <2>2. \A s \in Subs : Len(seen[s]) = 0
    BY <2>1, EmptyIsSeq
  <2> QED BY <2>1, <2>2 DEF Contract!Init
<1>2. HandsInv /\ SubsInv /\ [Next]_vars => [Contract!Next]_(Contract!vars)
  <2> SUFFICES ASSUME HandsInv, SubsInv, [Next]_vars
               PROVE  Contract!Next \/ UNCHANGED Contract!vars
    OBVIOUS
  <2>1. CASE Bystanding
    BY <2>1 DEF Bystanding, Contract!vars
  <2>2. ASSUME NEW s \in Subs, Advances(s) PROVE Contract!Next \/ UNCHANGED Contract!vars
    BY <2>2, AdvanceIsContractStep
  <2>3. CASE Close
    BY <2>3, CloseIsContractStep
  <2> QED BY <2>1, <2>2, <2>3, StepIsSubStep DEF SubStep
<1> QED
  BY <1>1, <1>2, SubsInvariant, PTL DEF Spec, ImplementsSubscription, Contract!Spec

-----------------------------------------------------------------------------
(* The timestamps. *)

(* A set of natural numbers that holds 0 and goes on with every number     *)
(* below n has them all up to n.                                           *)
LEMMA CountUp ==
  ASSUME NEW n \in Nat, NEW S, 0 \in S, \A i \in 1 .. n : i - 1 \in S => i \in S
  PROVE  0 .. n \subseteq S
<1> SUFFICES ASSUME NEW k \in 0 .. n, k \notin S PROVE FALSE
  OBVIOUS
<1> DEFINE B == (0 .. n) \ S
<1>1. B \in SUBSET Nat /\ B # {}
  OBVIOUS
<1>2. PICK m \in B : \A x \in B : m <= x
  BY <1>1, MinOf
<1>3. m \in Nat /\ m # 0 /\ m <= n /\ m \notin S
  OBVIOUS
<1>4. m - 1 \in 0 .. n /\ m \in 1 .. n /\ ~(m <= m - 1)
  BY <1>3
<1>5. m - 1 \notin B
  BY <1>2, <1>4
<1> QED BY <1>3, <1>4, <1>5

(* What the cache learns from a page, event by event. *)
Learns(c, page, n, f) == f = [i \in 0 .. n |-> IF i = 0 THEN c ELSE Learn(f[i - 1], page[i])]

(* It learns from each of them, however many there are. *)
LEMMA LearntExists ==
  ASSUME NEW c, NEW page, NEW n \in Nat
  PROVE  \E f : Learns(c, page, n, f)
<1> DEFINE S == {m \in 0 .. n : \E f : Learns(c, page, m, f)}
<1>1. 0 \in S
  <2> DEFINE f == [i \in 0 .. 0 |-> c]
  <2>1. f = [i \in 0 .. 0 |-> IF i = 0 THEN c ELSE Learn(f[i - 1], page[i])]
    <3>1. \A i \in 0 .. 0 : i = 0
      OBVIOUS
    <3> HIDE DEF f
    <3>2. [i \in 0 .. 0 |-> IF i = 0 THEN c ELSE Learn(f[i - 1], page[i])] = [i \in 0 .. 0 |-> c]
      BY <3>1
    <3> QED BY <3>2 DEF f
  <2> HIDE DEF f
  <2> QED BY <2>1 DEF Learns
<1>2. ASSUME NEW m \in 1 .. n, m - 1 \in S PROVE m \in S
  <2>1. PICK f : f = [i \in 0 .. m - 1 |-> IF i = 0 THEN c ELSE Learn(f[i - 1], page[i])]
    BY <1>2 DEF Learns
  <2> DEFINE g == [i \in 0 .. m |-> IF i = m THEN Learn(f[m - 1], page[m]) ELSE f[i]]
  <2>2. ASSUME NEW i \in 0 .. m PROVE g[i] = IF i = 0 THEN c ELSE Learn(g[i - 1], page[i])
    <3>1. CASE i = 0
      BY <2>1, <3>1
    <3>2. CASE i = m
      <4>1. m - 1 \in 0 .. m /\ m - 1 # m /\ m # 0
        OBVIOUS
      <4>2. g[m] = Learn(f[m - 1], page[m]) /\ g[m - 1] = f[m - 1]
        BY <4>1
      <4> HIDE DEF g
      <4> QED BY <3>2, <4>1, <4>2
    <3>3. CASE i # 0 /\ i # m
      <4>1. i \in 0 .. m - 1 /\ i - 1 \in 0 .. m /\ i - 1 # m
        BY <3>3
      <4>2. g[i] = f[i] /\ g[i - 1] = f[i - 1]
        BY <3>3, <4>1
      <4>3. f[i] = Learn(f[i - 1], page[i])
        BY <2>1, <3>3, <4>1
      <4> HIDE DEF g
      <4> QED BY <3>3, <4>2, <4>3
    <3> QED BY <3>1, <3>2, <3>3
  <2>3. g = [i \in 0 .. m |-> g[i]]
    OBVIOUS
  <2> HIDE DEF g
  <2>4. g = [i \in 0 .. m |-> IF i = 0 THEN c ELSE Learn(g[i - 1], page[i])]
    BY <2>2, <2>3
  <2>5. m \in 0 .. n
    OBVIOUS
  <2> QED BY <2>4, <2>5 DEF Learns
<1> HIDE DEF S
<1>3. 0 .. n \subseteq S
  BY <1>1, <1>2, CountUp
<1>4. n \in S
  BY <1>3
<1> QED BY <1>4 DEF S

(* The cache after the first k events of a page. *)
LEMMA AfterFacts ==
  ASSUME NEW c, NEW page, Len(page) \in Nat, NEW k \in 0 .. Len(page)
  PROVE  After(c, page, k) = IF k = 0 THEN c ELSE Learn(After(c, page, k - 1), page[k])
<1> DEFINE Is(g) == g = [i \in 0 .. Len(page) |-> IF i = 0 THEN c ELSE Learn(g[i - 1], page[i])]
           f == CHOOSE g : Is(g)
<1>1. f = [i \in 0 .. Len(page) |-> IF i = 0 THEN c ELSE Learn(f[i - 1], page[i])]
  <2>1. \E g : Is(g)
    <3>1. \E g : Learns(c, page, Len(page), g)
      BY LearntExists
    <3>2. \A g : Learns(c, page, Len(page), g) <=> Is(g)
      BY Zenon DEF Learns
    <3> HIDE DEF Is
    <3> QED BY <3>1, <3>2
  <2> HIDE DEF Is
  <2>2. Is(f)
    BY <2>1, Zenon
  <2> QED BY <2>2 DEF Is
<1>2. \A n : After(c, page, n) = f[n]
  BY Zenon DEF After
<1> HIDE DEF f
<1>3. f[k] = IF k = 0 THEN c ELSE Learn(f[k - 1], page[k])
  BY <1>1
<1>4. After(c, page, k) = f[k] /\ After(c, page, k - 1) = f[k - 1]
  BY <1>2, Zenon
<1> QED BY <1>3, <1>4, Zenon

(* A cache has one timestamp, and has it present, for a block. *)
CacheOk(c) ==
  /\ IsSeq(c)
  /\ \A x \in ToSet(c) : x = [block |-> x.block, stamp |-> x.stamp] /\ x.stamp # 0
  /\ \A x, y \in ToSet(c) : x.block = y.block => x = y

(* The cache c has the timestamp of event v, or had that of its block.     *)
Entry(v) == [block |-> v.block, stamp |-> v.stamp]
Vouched(v, c, e) == v.block \in e \/ Entry(v) \in ToSet(c)

(* Elements of sequences that are put together or taken apart. *)
LEMMA Elements ==
  /\ \A s : IsSeq(s) => ToSet(s) = {s[i] : i \in 1 .. Len(s)}
  /\ ToSet(<<>>) = {}
<1>1. \A s : IsSeq(s) => ToSet(s) = {s[i] : i \in 1 .. Len(s)}
  BY SeqFacts DEF ToSet
<1>2. ToSet(<<>>) = {}
  BY DEF ToSet
<1> QED BY <1>1, <1>2

LEMMA ConcatElements ==
  ASSUME NEW s, IsSeq(s), NEW t, IsSeq(t)
  PROVE  ToSet(s \o t) \subseteq ToSet(s) \cup ToSet(t)
<1>1. /\ Len(s) \in Nat /\ Len(t) \in Nat /\ IsSeq(s \o t) /\ Len(s \o t) = Len(s) + Len(t)
      /\ \A i \in 1 .. Len(s) + Len(t) : (s \o t)[i] = IF i <= Len(s) THEN s[i] ELSE t[i - Len(s)]
  BY SeqFacts, ConcatIsSeq
<1>2. ASSUME NEW i \in 1 .. Len(s) + Len(t) PROVE (s \o t)[i] \in ToSet(s) \cup ToSet(t)
  <2>1. CASE i <= Len(s)
    BY <1>1, <2>1, Elements
  <2>2. CASE ~(i <= Len(s))
    <3>1. i - Len(s) \in 1 .. Len(t)
      BY <1>1, <2>2
    <3> QED BY <1>1, <2>2, <3>1, Elements
  <2> QED BY <2>1, <2>2
<1>3. ToSet(s \o t) = {(s \o t)[i] : i \in 1 .. Len(s) + Len(t)}
  BY <1>1, Elements, Zenon
<1> QED BY <1>2, <1>3

LEMMA SubSeqElements ==
  ASSUME NEW s, IsSeq(s), NEW m \in Nat \ {0}, NEW n \in 0 .. Len(s), m <= n + 1
  PROVE  ToSet(SubSeq(s, m, n)) \subseteq ToSet(s)
<1>1. /\ Len(s) \in Nat /\ IsSeq(SubSeq(s, m, n)) /\ Len(SubSeq(s, m, n)) = n - m + 1
      /\ \A i \in 1 .. n - m + 1 : SubSeq(s, m, n)[i] = s[m + i - 1]
  BY SeqFacts, SubSeqIsSeq
<1>2. ASSUME NEW i \in 1 .. n - m + 1 PROVE SubSeq(s, m, n)[i] \in ToSet(s)
  <2>1. m + i - 1 \in 1 .. Len(s)
    BY <1>1
  <2> QED BY <1>1, <2>1, Elements
<1>3. ToSet(SubSeq(s, m, n)) = {SubSeq(s, m, n)[i] : i \in 1 .. n - m + 1}
  BY <1>1, Elements, Zenon
<1> QED BY <1>2, <1>3

(* What Learn does to a cache that does not contradict the event v: what   *)
(* it held it holds, or held the block of; a confirmation is in it.        *)
LEMMA LearnStep ==
  ASSUME NEW c, CacheOk(c), NEW v, ~Conflicts(c, v)
  PROVE  LET d == Learn(c, v)
         IN  /\ CacheOk(d)
             /\ \A x \in ToSet(c) : x \in ToSet(d) \/ x.block \in Cached(c) \ Cached(d)
             /\ v.confirms /\ v.stamp # 0 => Entry(v) \in ToSet(d)
<1>1. CASE ~v.confirms \/ v.stamp = 0
  <2>1. Learn(c, v) = c
    BY <1>1 DEF Learn
  <2> QED BY <1>1, <2>1
<1>2. CASE v.confirms /\ v.stamp # 0 /\ v.block \in Cached(c)
  <2>1. Learn(c, v) = c
    BY <1>2 DEF Learn
  <2>2. PICK y \in ToSet(c) : y.block = v.block
    BY <1>2 DEF Cached
  <2>3. y.stamp \in Known(c, v.block)
    BY <2>2 DEF Known
  <2>4. y.stamp = v.stamp
    BY <1>2, <2>3 DEF Conflicts
  <2>5. y = [block |-> y.block, stamp |-> y.stamp]
    BY DEF CacheOk
  <2>6. y = Entry(v)
    BY <2>2, <2>4, <2>5 DEF Entry
  <2> QED BY <2>1, <2>6
<1>3. CASE v.confirms /\ v.stamp # 0 /\ v.block \notin Cached(c)
  <2> DEFINE r == Entry(v)
             d == Append(c, r)
             e == IF Len(d) > CacheSize THEN Tail(d) ELSE d
  <2>1. Learn(c, v) = e
    BY <1>3, Zenon DEF Learn, Entry
  <2>2. r = [block |-> r.block, stamp |-> r.stamp] /\ r.block = v.block /\ r.stamp # 0
    BY <1>3 DEF Entry
  <2>3. IsSeq(c) /\ Len(c) \in Nat /\ CacheSize \in Nat \ {0} /\ c \in Seq(ToSet(c) \cup {r})
    <3>1. IsSeq(c)
      BY DEF CacheOk
    <3>2. c \in Seq(ToSet(c) \cup {r})
      BY <3>1, SeqMonotonic DEF IsSeq
    <3>3. CacheSize \in Nat \ {0}
      BY ConstantsAssumption
    <3> QED BY <3>1, <3>2, <3>3, SeqFacts
  <2> HIDE DEF r
  <2>4. /\ d \in Seq(ToSet(c) \cup {r}) /\ Len(d) = Len(c) + 1 /\ d[Len(c) + 1] = r
        /\ \A i \in 1 .. Len(c) : d[i] = c[i]
    BY <2>3, AppendProperties
  <2>5. IsSeq(d)
    BY <2>4, SeqIsSeq
  <2> HIDE DEF d
  <2>6. ToSet(d) = ToSet(c) \cup {r}
    <3>1. ToSet(d) = {d[i] : i \in 1 .. Len(c) + 1} /\ ToSet(c) = {c[i] : i \in 1 .. Len(c)}
      BY <2>3, <2>4, <2>5, Elements
    <3>2. \A i \in 1 .. Len(c) + 1 : d[i] \in ToSet(c) \cup {r}
      BY <2>3, <2>4, <3>1
    <3>3. \A i \in 1 .. Len(c) : i \in 1 .. Len(c) + 1
      BY <2>3
    <3>4. \A i \in 1 .. Len(c) : c[i] \in ToSet(d)
      BY <2>4, <3>1, <3>3
    <3>5. Len(c) + 1 \in 1 .. Len(c) + 1
      BY <2>3
    <3>6. r \in ToSet(d)
      BY <2>4, <3>1, <3>5
    <3> QED BY <3>1, <3>2, <3>4, <3>6
  <2>7. CacheOk(d)
    <3>1. \A x \in ToSet(d) : x = [block |-> x.block, stamp |-> x.stamp] /\ x.stamp # 0
      BY <2>2, <2>6 DEF CacheOk
    <3>2. \A x \in ToSet(c) : x.block # r.block
      BY <1>3, <2>2 DEF Cached
    <3>3. \A x, y \in ToSet(d) : x.block = y.block => x = y
      BY <2>6, <3>2 DEF CacheOk
    <3> QED BY <2>5, <3>1, <3>3 DEF CacheOk
  <2>8. /\ IsSeq(e) /\ ToSet(e) \subseteq ToSet(d) /\ r \in ToSet(e)
    <3>1. CASE ~(Len(d) > CacheSize)
      BY <2>5, <2>6, <3>1
    <3>2. CASE Len(d) > CacheSize
      <4>1. d # <<>> /\ d \in Seq(ToSet(d))
        BY <2>3, <2>4, EmptyIsSeq, <2>5 DEF IsSeq
      <4>2. /\ Tail(d) \in Seq(ToSet(d)) /\ Len(Tail(d)) = Len(d) - 1
            /\ \A i \in 1 .. Len(Tail(d)) : Tail(d)[i] = d[i + 1]
        BY <4>1, HeadTailProperties
      <4>3. IsSeq(Tail(d)) /\ Len(Tail(d)) = Len(c)
        <5>1. IsSeq(Tail(d))
          BY <4>2, SeqIsSeq
        <5>2. Len(c) + 1 - 1 = Len(c)
          BY <2>3
        <5> QED BY <2>4, <4>2, <5>1, <5>2
      <4>4. ToSet(Tail(d)) = {Tail(d)[i] : i \in 1 .. Len(c)}
        BY <4>3, Elements, Zenon
      <4>5. Len(c) \in 1 .. Len(c)
        BY <2>3, <2>4, <3>2
      <4>6. Tail(d)[Len(c)] = r
        BY <2>4, <4>2, <4>3, <4>5
      <4>7. \A i \in 1 .. Len(c) : Tail(d)[i] \in ToSet(d)
        BY <4>2, <4>3, ElementOfSeq
      <4> QED BY <3>2, <4>3, <4>4, <4>5, <4>6, <4>7
    <3> QED BY <3>1, <3>2
  <2> HIDE DEF e
  <2>9. CacheOk(e)
    BY <2>7, <2>8 DEF CacheOk
  <2>10. ASSUME NEW x \in ToSet(c), x \notin ToSet(e) PROVE x.block \in Cached(c) \ Cached(e)
    <3>1. x.block \in Cached(c)
      BY DEF Cached
    <3>2. ASSUME NEW y \in ToSet(e), y.block = x.block PROVE FALSE
      <4>1. x \in ToSet(d) /\ y \in ToSet(d)
        BY <2>6, <2>8
      <4>2. y = x
        BY <2>7, <3>2, <4>1 DEF CacheOk
      <4> QED BY <2>10, <4>2
    <3> QED BY <3>1, <3>2 DEF Cached
  <2> QED BY <2>1, <2>8, <2>9, <2>10 DEF r
<1> QED BY <1>1, <1>2, <1>3

(* The blocks that are pushed out of the cache by the first n of a page.   *)
Pushed(c, page, n) ==
  UNION { Cached(After(c, page, m - 1)) \ Cached(After(c, page, m)) : m \in 1 .. n }

(* What is learnt of a page, up to the first event that contradicts: every *)
(* timestamp that was held or is confirmed is held, or its block was.      *)
LEMMA AgreeingFacts ==
  ASSUME NEW c, CacheOk(c), NEW page, IsSeq(page)
  PROVE  LET n == Agreeing(c, page)
             d == After(c, page, n)
         IN  /\ n \in 0 .. Len(page) /\ CacheOk(d)
             /\ \A x \in ToSet(c) : x \in ToSet(d) \/ x.block \in Pushed(c, page, n)
             /\ \A i \in 1 .. n : page[i].confirms /\ page[i].stamp # 0 =>
                                    Vouched(page[i], d, Pushed(c, page, n))
<1> DEFINE n == Agreeing(c, page)
           bad == {i \in DOMAIN page : Conflicts(After(c, page, i - 1), page[i])}
           E == Pushed(c, page, n)
           Holds(m) == /\ CacheOk(After(c, page, m))
                       /\ \A x \in ToSet(c) : x \in ToSet(After(c, page, m)) \/ x.block \in E
                       /\ \A i \in 1 .. m : page[i].confirms /\ page[i].stamp # 0 =>
                                              Vouched(page[i], After(c, page, m), E)
           S == {m \in 0 .. n : Holds(m)}
<1>1. Len(page) \in Nat /\ DOMAIN page = 1 .. Len(page)
  BY SeqFacts
<1>2. n = IF bad = {} THEN Len(page) ELSE Min(bad) - 1
  BY Zenon DEF Agreeing
<1>3. n \in 0 .. Len(page) /\ \A i \in 1 .. n : ~Conflicts(After(c, page, i - 1), page[i])
  <2>1. bad \subseteq 1 .. Len(page)
    BY <1>1
  <2>2. \A i \in 1 .. Len(page) : i \notin bad => ~Conflicts(After(c, page, i - 1), page[i])
    BY <1>1
  <2> HIDE DEF bad, n
  <2>3. CASE bad = {}
    BY <1>1, <1>2, <2>2, <2>3
  <2>4. CASE bad # {}
    <3>1. bad \in SUBSET Nat
      BY <2>1
    <3>2. \E m \in bad : \A x \in bad : m <= x
      BY <2>4, <3>1, MinOf
    <3>3. Min(bad) \in bad /\ \A x \in bad : Min(bad) <= x
      BY <3>2 DEF Min
    <3>4. n = Min(bad) - 1
      BY <1>2, <2>4
    <3> DEFINE m == Min(bad)
    <3>5. m \in 1 .. Len(page) /\ m \in bad /\ (\A x \in bad : m <= x) /\ n = m - 1
      BY <2>1, <3>3, <3>4
    <3> HIDE DEF m
    <3>6. n \in 0 .. Len(page)
      BY <1>1, <3>5
    <3>7. ASSUME NEW i \in 1 .. n PROVE i \in 1 .. Len(page) /\ i \notin bad
      <4>1. i \in 1 .. Len(page) /\ ~(m <= i)
        BY <1>1, <3>5
      <4> QED BY <3>5, <4>1
    <3> QED BY <2>2, <3>6, <3>7
  <2> QED BY <2>3, <2>4
<1>4. /\ After(c, page, 0) = c
      /\ \A m \in 1 .. Len(page) : After(c, page, m) = Learn(After(c, page, m - 1), page[m])
  <2> HIDE DEF bad, n, E, Holds, S
  <2>1. ASSUME NEW m \in 0 .. Len(page)
        PROVE  After(c, page, m) = IF m = 0 THEN c ELSE Learn(After(c, page, m - 1), page[m])
    BY <1>1, AfterFacts, Zenon
  <2>2. 0 \in 0 .. Len(page) /\ \A m \in 1 .. Len(page) : m \in 0 .. Len(page) /\ m # 0
    BY <1>1
  <2> QED BY <2>1, <2>2, Zenon
<1> HIDE DEF n
<1>5. n \in Nat /\ 0 \in 0 .. n
  BY <1>1, <1>3
<1>6. \A m \in 1 .. n : Cached(After(c, page, m - 1)) \ Cached(After(c, page, m)) \subseteq E
  BY DEF Pushed
<1> HIDE DEF E
<1>7. Holds(0)
  BY <1>4
<1>8. ASSUME NEW m \in 1 .. n, Holds(m - 1) PROVE Holds(m)
  <2> DEFINE a == After(c, page, m - 1)
             b == After(c, page, m)
  <2>1. b = Learn(a, page[m]) /\ ~Conflicts(a, page[m])
    <3>1. m \in 1 .. Len(page)
      BY <1>1, <1>3
    <3> QED BY <1>3, <1>4, <3>1
  <2>2. /\ CacheOk(a)
        /\ \A x \in ToSet(c) : x \in ToSet(a) \/ x.block \in E
        /\ \A i \in 1 .. m - 1 : page[i].confirms /\ page[i].stamp # 0 => Vouched(page[i], a, E)
    BY <1>8
  <2>3. Cached(a) \ Cached(b) \subseteq E
    BY <1>6
  <2> HIDE DEF a, b
  <2>4. /\ CacheOk(b) /\ \A x \in ToSet(a) : x \in ToSet(b) \/ x.block \in Cached(a) \ Cached(b)
        /\ page[m].confirms /\ page[m].stamp # 0 => Entry(page[m]) \in ToSet(b)
    <3>1. LET d == Learn(a, page[m])
          IN  /\ CacheOk(d)
              /\ \A x \in ToSet(a) : x \in ToSet(d) \/ x.block \in Cached(a) \ Cached(d)
              /\ page[m].confirms /\ page[m].stamp # 0 => Entry(page[m]) \in ToSet(d)
      BY <2>1, <2>2, LearnStep
    <3> QED BY <2>1, <3>1
  <2>5. \A x \in ToSet(a) : x \in ToSet(b) \/ x.block \in E
    BY <2>3, <2>4
  <2>6. ASSUME NEW i \in 1 .. m, page[i].confirms, page[i].stamp # 0 PROVE Vouched(page[i], b, E)
    <3>1. CASE i = m
      BY <2>4, <2>6, <3>1 DEF Vouched
    <3>2. CASE i # m
      <4>1. i \in 1 .. m - 1
        BY <1>5, <3>2
      <4>2. Vouched(page[i], a, E)
        BY <2>2, <2>6, <4>1
      <4>3. Entry(page[i]).block = page[i].block
        BY DEF Entry
      <4> QED BY <2>5, <4>2, <4>3 DEF Vouched
    <3> QED BY <3>1, <3>2
  <2> QED BY <2>2, <2>4, <2>5, <2>6 DEF b
<1>9. 0 .. n \subseteq S
  <2>1. 0 \in S
    BY <1>5, <1>7
  <2>2. \A m \in 1 .. n : m - 1 \in S => m \in S
    <3>1. \A m \in 1 .. n : m \in 0 .. n
      BY <1>5
    <3>2. \A m \in S : Holds(m)
      OBVIOUS
    <3> HIDE DEF Holds
    <3> QED BY <1>8, <3>1, <3>2
  <2> HIDE DEF S
  <2> QED BY <1>5, <2>1, <2>2, CountUp
<1>10. Holds(n)
  <2>1. n \in S
    BY <1>5, <1>9
  <2> QED BY <2>1
<1> QED BY <1>3, <1>10 DEF n, E

(* All events of s but confirmations without one have a timestamp, the one *)
(* that the cache has, or had, for their block; or at least the            *)
(* confirmations of s that have one have that.                             *)
AllVouched(s, c, e) ==
  \A v \in ToSet(s) : /\ v.stamp = 0 => v.confirms
                      /\ v.stamp # 0 => Vouched(v, c, e)
ConfirmsVouched(s, c, e) ==
  \A v \in ToSet(s) : /\ DOMAIN v = {"id", "block", "confirms", "stamp"}
                      /\ v.confirms /\ v.stamp # 0 => Vouched(v, c, e)

(* The inductive invariant of the timestamps: what has been handed over or *)
(* is stamped agrees with the cache, and so do the confirmations among     *)
(* what waits for a stamp.                                                 *)
TimesInv ==
  /\ CacheOk(cache)
  /\ \A t \in Jobs : /\ AllVouched(seen[t], cache, evicted)
                     /\ AllVouched(job[t].got, cache, evicted)
                     /\ ConfirmsVouched(job[t].todo, cache, evicted)

(* What the cache has vouched for, it goes on to vouch for. *)
Remembers ==
  /\ CacheOk(cache')
  /\ \A v : Vouched(v, cache, evicted) => Vouched(v, cache', evicted')

(* A cache that does not change forgets nothing. *)
LEMMA SameRemembers ==
  ASSUME TimesInv, UNCHANGED <<cache, evicted>>
  PROVE  Remembers
  BY DEF TimesInv, Remembers

(* Nor does one that learns from a page. *)
LEMMA RememberFacts ==
  ASSUME CacheOk(cache), NEW page, IsSeq(page), Remember(page)
  PROVE  /\ Remembers
         /\ Agreeing(cache, page) \in 0 .. Len(page)
         /\ \A i \in 1 .. Agreeing(cache, page) : page[i].confirms /\ page[i].stamp # 0 =>
                                                    Vouched(page[i], cache', evicted')
<1> DEFINE n == Agreeing(cache, page)
           P == Pushed(cache, page, n)
<1>1. cache' = After(cache, page, n) /\ evicted' = evicted \cup P
  BY DEF Remember, Pushed
<1>2. /\ n \in 0 .. Len(page) /\ CacheOk(After(cache, page, n))
      /\ \A x \in ToSet(cache) : x \in ToSet(After(cache, page, n)) \/ x.block \in P
      /\ \A i \in 1 .. n : page[i].confirms /\ page[i].stamp # 0 =>
                             Vouched(page[i], After(cache, page, n), P)
  BY AgreeingFacts
<1> HIDE DEF n, P
<1>3. /\ CacheOk(cache') /\ \A x \in ToSet(cache) : x \in ToSet(cache') \/ x.block \in P
      /\ \A i \in 1 .. n : page[i].confirms /\ page[i].stamp # 0 => Vouched(page[i], cache', P)
  BY <1>1, <1>2
<1>4. ASSUME NEW v, Vouched(v, cache, evicted) PROVE Vouched(v, cache', evicted')
  <2>1. Entry(v).block = v.block
    BY DEF Entry
  <2> QED BY <1>1, <1>3, <1>4, <2>1 DEF Vouched
<1>5. ASSUME NEW v, Vouched(v, cache', P) PROVE Vouched(v, cache', evicted')
  BY <1>1, <1>5 DEF Vouched
<1> QED BY <1>2, <1>3, <1>4, <1>5 DEF Remembers, n

(* The invariant survives a step that loses nothing of the cache, if it    *)
(* holds of each job afterwards.                                           *)
LEMMA TimesKept ==
  ASSUME TimesInv, Remembers,
         \A u \in Jobs :
           /\ ToSet(seen'[u]) \subseteq ToSet(seen[u]) \cup ToSet(job[u].got)
           /\ \/ /\ job'[u].got = <<>> \/ job'[u].got = job[u].got
                 /\ job'[u].todo = <<>> \/ job'[u].todo = job[u].todo
              \/ /\ AllVouched(job'[u].got, cache', evicted')
                 /\ ConfirmsVouched(job'[u].todo, cache', evicted')
  PROVE  TimesInv'
<1>1. \A v : Vouched(v, cache, evicted) => Vouched(v, cache', evicted')
  BY DEF Remembers
<1>2. \A s : AllVouched(s, cache, evicted) => AllVouched(s, cache', evicted')
  BY <1>1 DEF AllVouched
<1>3. \A s : ConfirmsVouched(s, cache, evicted) => ConfirmsVouched(s, cache', evicted')
  BY <1>1 DEF ConfirmsVouched
<1>4. AllVouched(<<>>, cache', evicted') /\ ConfirmsVouched(<<>>, cache', evicted')
  BY Elements DEF AllVouched, ConfirmsVouched
<1>5. ASSUME NEW u \in Jobs
      PROVE  /\ AllVouched(seen'[u], cache', evicted')
             /\ AllVouched(job'[u].got, cache', evicted')
             /\ ConfirmsVouched(job'[u].todo, cache', evicted')
  <2>1. /\ AllVouched(seen[u], cache', evicted') /\ AllVouched(job[u].got, cache', evicted')
        /\ ConfirmsVouched(job[u].todo, cache', evicted')
    BY <1>2, <1>3 DEF TimesInv
  <2>2. AllVouched(seen'[u], cache', evicted')
    BY <2>1 DEF AllVouched
  <2>3. AllVouched(job'[u].got, cache', evicted') /\ ConfirmsVouched(job'[u].todo, cache', evicted')
    <3>1. CASE /\ job'[u].got = <<>> \/ job'[u].got = job[u].got
               /\ job'[u].todo = <<>> \/ job'[u].todo = job[u].todo
      BY <1>4, <2>1, <3>1
    <3>2. CASE /\ AllVouched(job'[u].got, cache', evicted')
               /\ ConfirmsVouched(job'[u].todo, cache', evicted')
      BY <3>2
    <3> QED BY <3>1, <3>2
  <2> QED BY <2>2, <2>3
<1> QED BY <1>5 DEF TimesInv, Remembers

(* A step of the cache and of one job. *)
LEMMA TimesTurn ==
  ASSUME HandsInv, TimesInv, Remembers, NEW t \in Jobs,
         NEW x, job' = [job EXCEPT ![t] = x], NEW z, seen' = [seen EXCEPT ![t] = z],
         ToSet(z) \subseteq ToSet(seen[t]) \cup ToSet(job[t].got),
         \/ /\ x.got = <<>> \/ x.got = job[t].got
            /\ x.todo = <<>> \/ x.todo = job[t].todo
         \/ AllVouched(x.got, cache', evicted') /\ ConfirmsVouched(x.todo, cache', evicted')
  PROVE  TimesInv'
<1>1. job = [u \in Jobs |-> job[u]] /\ seen = [u \in Jobs |-> seen[u]]
  BY DEF HandsInv
<1>2. \A u \in Jobs : IF u = t THEN job'[u] = x /\ seen'[u] = z ELSE job'[u] = job[u] /\ seen'[u] = seen[u]
  BY <1>1
<1>3. ASSUME NEW u \in Jobs
      PROVE  /\ ToSet(seen'[u]) \subseteq ToSet(seen[u]) \cup ToSet(job[u].got)
             /\ \/ /\ job'[u].got = <<>> \/ job'[u].got = job[u].got
                   /\ job'[u].todo = <<>> \/ job'[u].todo = job[u].todo
                \/ /\ AllVouched(job'[u].got, cache', evicted')
                   /\ ConfirmsVouched(job'[u].todo, cache', evicted')
  <2>1. CASE u = t
    <3>1. job'[u] = x /\ seen'[u] = z
      BY <1>2, <2>1
    <3> QED BY <2>1, <3>1
  <2>2. CASE u # t
    <3>1. job'[u] = job[u] /\ seen'[u] = seen[u]
      BY <1>2, <2>2
    <3> QED BY <3>1
  <2> QED BY <2>1, <2>2
<1> QED BY <1>3, TimesKept

(* A job that ends, asks for something new or goes on with what it has.    *)
LEMMA TimesPlain ==
  ASSUME HandsInv, TimesInv, Remembers, NEW t \in Jobs, UNCHANGED seen,
         NEW x, job' = [job EXCEPT ![t] = x],
         x.got = <<>> \/ x.got = job[t].got, x.todo = <<>> \/ x.todo = job[t].todo
  PROVE  TimesInv'
<1>1. seen' = [seen EXCEPT ![t] = seen[t]]
  BY JobFacts
<1> QED BY <1>1, TimesTurn

(* A page is stamped with what the cache has. *)
LEMMA StampedVouched ==
  ASSUME NEW c, CacheOk(c), NEW e, NEW todo, IsEvents(todo), ConfirmsVouched(todo, c, e),
         NEW n \in 0 .. Len(todo), \A i \in 1 .. n : Stampable(c, todo[i]),
         NEW got, IsEvents(got), AllVouched(got, c, e)
  PROVE  /\ AllVouched(StampedTo(c, got, todo, n), c, e)
         /\ ConfirmsVouched(SubSeq(todo, n + 1, Len(todo)), c, e)
<1> DEFINE a == FirstStamped(c, todo, n)
<1>1. IsSeq(todo) /\ IsSeq(got) /\ Len(todo) \in Nat /\ n \in Nat
  BY SeqFacts DEF IsEvents
<1>2. IsSeq(a) /\ Len(a) = n
  BY StampedIsEvents DEF IsEvents
<1>3. ASSUME NEW i \in 1 .. n
      PROVE  /\ a[i].stamp = 0 => a[i].confirms
             /\ a[i].stamp # 0 => Vouched(a[i], c, e)
  <2> DEFINE v == todo[i]
  <2>1. a[i] = Stamped(c, v)
    BY DEF FirstStamped
  <2>2. v \in ToSet(todo)
    <3>1. i \in 1 .. Len(todo)
      BY <1>1
    <3> QED BY <1>1, <3>1, Elements
  <2>3. DOMAIN v = {"id", "block", "confirms", "stamp"} /\ (v.confirms /\ v.stamp # 0 => Vouched(v, c, e))
    BY <2>2 DEF ConfirmsVouched
  <2>4. Stampable(c, v)
    OBVIOUS
  <2> HIDE DEF a, v
  <2>5. CASE v.confirms
    BY <2>1, <2>3, <2>5 DEF Stamped
  <2>6. CASE ~v.confirms
    <3> DEFINE s == CHOOSE k \in Known(c, v.block) : TRUE
    <3>1. Known(c, v.block) # {}
      BY <2>4, <2>6 DEF Stampable
    <3>2. s \in Known(c, v.block)
      BY <3>1
    <3>3. a[i] = [v EXCEPT !.stamp = s]
      BY <2>1, <2>6 DEF Stamped
    <3> HIDE DEF s
    <3>4. a[i].block = v.block /\ a[i].stamp = s
      BY <2>3, <3>3
    <3>5. PICK y \in ToSet(c) : y.block = v.block /\ y.stamp = s
      BY <3>2 DEF Known
    <3>6. y = [block |-> y.block, stamp |-> y.stamp] /\ y.stamp # 0
      BY <3>5 DEF CacheOk
    <3>7. Entry(a[i]) = y /\ a[i].stamp # 0
      BY <3>4, <3>5, <3>6 DEF Entry
    <3> QED BY <3>7 DEF Vouched
  <2> QED BY <2>5, <2>6
<1>4. ToSet(a) = {a[i] : i \in 1 .. n}
  BY <1>2, Elements, Zenon
<1> HIDE DEF a
<1>5. ToSet(got \o a) \subseteq ToSet(got) \cup ToSet(a)
  BY <1>1, <1>2, ConcatElements
<1>6. AllVouched(got \o a, c, e)
  BY <1>3, <1>4, <1>5 DEF AllVouched
<1>7. ToSet(SubSeq(todo, n + 1, Len(todo))) \subseteq ToSet(todo)
  <2>1. n + 1 \in Nat \ {0} /\ Len(todo) \in 0 .. Len(todo) /\ n + 1 <= Len(todo) + 1
    BY <1>1
  <2> QED BY <1>1, <2>1, SubSeqElements
<1>8. ConfirmsVouched(SubSeq(todo, n + 1, Len(todo)), c, e)
  BY <1>7 DEF ConfirmsVouched
<1> QED BY <1>6, <1>8 DEF StampedTo, a

(* A page whose confirmations agree with the cache is stamped from it. *)
LEMMA CanonicalizeTimes ==
  ASSUME HandsInv, TimesInv, Remembers, NEW t \in Jobs, UNCHANGED seen, NEW got, NEW todo,
         IsEvents(got), IsEvents(todo), AllVouched(got, cache', evicted'),
         ConfirmsVouched(todo, cache', evicted'), Canonicalize(t, cache', got, todo)
  PROVE  TimesInv'
<1> PICK c : c = cache'
  OBVIOUS
<1> PICK e : e = evicted'
  OBVIOUS
<1> DEFINE K == {k \in 0 .. Len(todo) : \A i \in 1 .. k : Stampable(c, todo[i])}
           n == Max(K)
           s == StampedTo(c, got, todo, n)
           r == SubSeq(todo, n + 1, Len(todo))
           x == job[t]
<1>0. CacheOk(c) /\ AllVouched(got, c, e) /\ ConfirmsVouched(todo, c, e)
  BY DEF Remembers
<1>1. Len(todo) \in Nat
  BY SeqFacts DEF IsEvents
<1>2. n \in 0 .. Len(todo) /\ \A i \in 1 .. n : Stampable(c, todo[i])
  <2>1. K \in SUBSET (0 .. Len(todo)) /\ 0 \in K
    BY <1>1
  <2>2. \A k \in K : k \in 0 .. Len(todo) /\ \A i \in 1 .. k : Stampable(c, todo[i])
    OBVIOUS
  <2> HIDE DEF K
  <2>3. n \in K
    BY <1>1, <2>1, MaxOf
  <2> QED BY <2>2, <2>3
<1>3. \/ Ending(t, TRUE)
      \/ Asking(t, x.q, todo[n + 1].block, s, r)
      \/ job' = [job EXCEPT ![t] = [x EXCEPT !.at = "hand", !.got = s, !.todo = <<>>, !.block = 0]]
  <2>1. \E m \in {n} : \E stamped \in {got \o FirstStamped(c, todo, m)} :
          IF \E i \in 1 .. m : Claims(c, todo[i])
          THEN Ending(t, TRUE) /\ UNCHANGED queue
          ELSE IF m < Len(todo)
          THEN /\ Asking(t, x.q, todo[m + 1].block, stamped, SubSeq(todo, m + 1, Len(todo)))
               /\ UNCHANGED sub
          ELSE /\ job' = [job EXCEPT ![t] = [@ EXCEPT !.at = "hand", !.got = stamped,
                                                      !.todo = <<>>, !.block = 0]]
               /\ UNCHANGED <<queue, sub>>
    <3>1. Canonicalize(t, c, got, todo)
      OBVIOUS
    <3> QED BY <3>1, Zenon DEF Canonicalize, FirstStamped
  <2> HIDE DEF n
  <2>2. IF \E i \in 1 .. n : Claims(c, todo[i])
        THEN Ending(t, TRUE) /\ UNCHANGED queue
        ELSE IF n < Len(todo)
        THEN Asking(t, x.q, todo[n + 1].block, s, r)
        ELSE job' = [job EXCEPT ![t] = [x EXCEPT !.at = "hand", !.got = s, !.todo = <<>>, !.block = 0]]
    BY <2>1 DEF StampedTo
  <2> HIDE DEF s, r, x
  <2> QED BY <2>2
<1> HIDE DEF n
<1>4. AllVouched(s, c, e) /\ ConfirmsVouched(r, c, e)
  BY <1>0, <1>2, StampedVouched
<1>5. ConfirmsVouched(<<>>, c, e)
  BY Elements DEF ConfirmsVouched
<1>6. DOMAIN x = Fields
  BY JobFacts
<1> HIDE DEF s, r
<1>7. ASSUME NEW y, job' = [job EXCEPT ![t] = y], y.got = s, y.todo = r \/ y.todo = <<>>
      PROVE  TimesInv'
  <2>1. seen' = [seen EXCEPT ![t] = seen[t]]
    BY JobFacts
  <2>2. AllVouched(y.got, cache', evicted') /\ ConfirmsVouched(y.todo, cache', evicted')
    BY <1>4, <1>5, <1>7
  <2> QED BY <1>7, <2>1, <2>2, TimesTurn
<1>8. CASE Ending(t, TRUE)
  BY <1>8, EndedFields, TimesPlain DEF Ending, Ended
<1>9. CASE Asking(t, x.q, todo[n + 1].block, s, r)
  <2> DEFINE y == Requesting(x, x.q, todo[n + 1].block, s, r)
  <2>1. job' = [job EXCEPT ![t] = y]
    BY <1>9 DEF Asking, Requesting
  <2>2. y.got = s /\ y.todo = r
    BY <1>6, RequestingFields
  <2> HIDE DEF y
  <2> QED BY <1>7, <2>1, <2>2
<1>10. CASE job' = [job EXCEPT ![t] = [x EXCEPT !.at = "hand", !.got = s, !.todo = <<>>, !.block = 0]]
  <2> DEFINE y == [x EXCEPT !.at = "hand", !.got = s, !.todo = <<>>, !.block = 0]
  <2>1. y.got = s /\ y.todo = <<>>
    BY <1>6 DEF Fields
  <2>2. job' = [job EXCEPT ![t] = y]
    BY <1>10
  <2> HIDE DEF y
  <2> QED BY <1>7, <2>1, <2>2
<1> QED BY <1>3, <1>8, <1>9, <1>10

(* Page events that fit what was asked for, and that are accepted, are     *)
(* stamped or asked for; what is refused leaves the cache as it is, or     *)
(* with more in it.                                                        *)
LEMMA TakeTimes ==
  ASSUME HandsInv, TimesInv, NEW t \in Jobs, NEW h \in Ids \cup {0}, NEW answer, Take(t, answer),
         answer = Answer(Wanted(t), h) \/ answer \in CorruptAnswers(Wanted(t), h)
  PROVE  TimesInv'
<1> DEFINE p == Read(answer)
           j == job[t]
<1>1. UNCHANGED seen /\ CacheOk(cache)
  BY DEF Take, TimesInv
<1>2. IF ~(Fits(t, p) /\ \A i \in DOMAIN answer : Normalizable(answer[i]))
      THEN Ending(t, TRUE) /\ UNCHANGED <<queue, cache, evicted>>
      ELSE /\ Remember(p)
           /\ IF Agreeing(cache, p) < Len(p) \/ ~InOrder(t, p)
              THEN Ending(t, TRUE) /\ UNCHANGED queue
              ELSE IF j.block = 0 THEN Canonicalize(t, cache', <<>>, p)
              ELSE Canonicalize(t, cache', j.got, j.todo)
  <2>1. \E page \in {Read(answer)} :
          IF ~(Fits(t, page) /\ \A i \in DOMAIN answer : Normalizable(answer[i]))
          THEN Ending(t, TRUE) /\ UNCHANGED <<queue, cache, evicted>>
          ELSE /\ Remember(page)
               /\ IF Agreeing(cache, page) < Len(page) \/ ~InOrder(t, page)
                  THEN Ending(t, TRUE) /\ UNCHANGED queue
                  ELSE IF job[t].block = 0 THEN Canonicalize(t, cache', <<>>, page)
                  ELSE Canonicalize(t, cache', job[t].got, job[t].todo)
    BY Zenon DEF Take, Read
  <2> HIDE DEF p
  <2> QED BY <2>1 DEF p
<1>3. \E ids : Spells(p, ids)
  <2>1. IsRequest(Wanted(t))
    BY JobFacts, RequestFacts DEF Wanted
  <2>2. IsSeq(Found(Wanted(t), h))
    BY <2>1, FoundPage, FoundOther DEF IsRequest
  <2> QED BY <2>2, AnswerSpells
<1>4. IsEvents(p) /\ IsSeq(p) /\ Len(p) \in Nat /\ DOMAIN p = 1 .. Len(p) /\ DOMAIN p = DOMAIN answer
  <2>1. DOMAIN p = DOMAIN answer
    BY DEF Read
  <2> HIDE DEF p
  <2> QED BY <1>3, <2>1, SeqFacts DEF Spells, IsEvents
<1>5. \A i \in 1 .. Len(p) : p[i] = Normalized(answer[i])
  BY <1>4 DEF Read
<1> HIDE DEF p
<1>6. CASE ~(Fits(t, p) /\ \A i \in DOMAIN answer : Normalizable(answer[i]))
  <2>1. Remembers /\ Ending(t, TRUE)
    BY <1>2, <1>6, SameRemembers
  <2> QED BY <1>1, <2>1, EndedFields, TimesPlain DEF Ending, Ended
<1>7. CASE Fits(t, p) /\ \A i \in DOMAIN answer : Normalizable(answer[i])
  <2>1. Remember(p)
    BY <1>2, <1>7
  <2>2. /\ Remembers /\ Agreeing(cache, p) \in 0 .. Len(p)
        /\ \A i \in 1 .. Agreeing(cache, p) : p[i].confirms /\ p[i].stamp # 0 =>
                                                Vouched(p[i], cache', evicted')
    BY <1>1, <1>4, <2>1, RememberFacts
  <2>3. CASE Ending(t, TRUE)
    BY <1>1, <2>2, <2>3, EndedFields, TimesPlain DEF Ending, Ended
  <2>4. CASE ~(Agreeing(cache, p) < Len(p)) /\ Canonicalize(t, cache', <<>>, p)
    <3>1. Agreeing(cache, p) = Len(p)
      BY <1>4, <2>2, <2>4
    <3>2. ASSUME NEW i \in 1 .. Len(p)
          PROVE  /\ DOMAIN p[i] = {"id", "block", "confirms", "stamp"}
                 /\ p[i].confirms /\ p[i].stamp # 0 => Vouched(p[i], cache', evicted')
      <4>1. p[i] = Normalized(answer[i])
        BY <1>5
      <4>2. DOMAIN p[i] = {"id", "block", "confirms", "stamp"}
        BY <4>1 DEF Normalized
      <4> QED BY <2>2, <3>1, <4>2
    <3>3. ToSet(p) = {p[i] : i \in 1 .. Len(p)}
      BY <1>4, Elements
    <3>4. ConfirmsVouched(p, cache', evicted')
      BY <3>2, <3>3 DEF ConfirmsVouched
    <3>5. AllVouched(<<>>, cache', evicted')
      BY Elements DEF AllVouched
    <3> QED BY <1>1, <1>4, <2>2, <2>4, <3>4, <3>5, EmptyIsEvents, CanonicalizeTimes
  <2>5. CASE Canonicalize(t, cache', j.got, j.todo)
    <3>1. AllVouched(j.got, cache', evicted') /\ ConfirmsVouched(j.todo, cache', evicted')
      BY <2>2 DEF TimesInv, AllVouched, ConfirmsVouched, Remembers
    <3>2. IsEvents(j.got) /\ IsEvents(j.todo)
      BY JobFacts
    <3> QED BY <1>1, <2>2, <2>5, <3>1, <3>2, CanonicalizeTimes
  <2> QED BY <1>2, <1>7, <2>3, <2>4, <2>5
<1> QED BY <1>6, <1>7

(* Answers of a source that is up to date, behind, or at fault. *)
LEMMA AnsweredTimes ==
  ASSUME HandsInv, TimesInv, NEW t \in Jobs, Respond(t) \/ RespondLate(t) \/ RespondBadly(t)
  PROVE  TimesInv'
<1>0. head \in Ids \cup {0}
  BY DEF HandsInv
<1>1. CASE Respond(t)
  BY <1>0, <1>1, TakeTimes DEF Respond
<1>2. CASE RespondLate(t)
  <2>1. PICK h \in {e \in Ids : e < head} \cup {0} : Take(t, Answer(Wanted(t), h))
    BY <1>2 DEF RespondLate
  <2>2. h \in Ids \cup {0}
    OBVIOUS
  <2> QED BY <2>1, <2>2, TakeTimes
<1>3. CASE RespondBadly(t)
  BY <1>0, <1>3, TakeTimes DEF RespondBadly
<1> QED BY <1>1, <1>2, <1>3

(* A job asks for something else, or ends. *)
LEMMA AskTimes ==
  ASSUME HandsInv, TimesInv, Remembers, NEW t \in Jobs, UNCHANGED seen, NEW q, Ask(t, q)
  PROVE  TimesInv'
<1> DEFINE y == Requesting(job[t], q, 0, <<>>, <<>>)
<1>1. job' = [job EXCEPT ![t] = y]
  BY DEF Ask, Asking, Requesting
<1>2. y.got = <<>> /\ y.todo = <<>>
  BY JobFacts, RequestingFields
<1> HIDE DEF y
<1> QED BY <1>1, <1>2, TimesPlain

(* A subscription hands over events that it has stamped. *)
LEMMA EmitTimes ==
  ASSUME HandsInv, TimesInv, NEW s \in Subs, Emit(s)
  PROVE  TimesInv'
<1> DEFINE x == job[s]
           z == seen[s]
           p == x.got
<1>1. s \in Jobs /\ IsEvents(z) /\ IsEvents(p) /\ DOMAIN x = Fields
  BY JobKinds, JobFacts
<1>2. IsSeq(z) /\ IsSeq(p) /\ Len(p) \in Nat /\ DOMAIN p = 1 .. Len(p)
  BY <1>1, SeqFacts DEF IsEvents
<1>3. Remembers
  BY SameRemembers DEF Emit
<1>4. Emitted(s) = p \/ Emitted(s) = <<>>
  BY DEF Emitted
<1>5. ToSet(z \o Emitted(s)) \subseteq ToSet(z) \cup ToSet(p)
  <2>1. IsSeq(Emitted(s)) /\ ToSet(Emitted(s)) \subseteq ToSet(p)
    BY <1>2, <1>4, EmptyIsSeq, Elements
  <2>2. ToSet(z \o Emitted(s)) \subseteq ToSet(z) \cup ToSet(Emitted(s))
    BY <1>2, <2>1, ConcatElements
  <2> QED BY <2>1, <2>2
<1>6. \/ seen' = [seen EXCEPT ![s] = z \o Emitted(s)] /\ Ending(s, FALSE)
      \/ seen' = [seen EXCEPT ![s] = z \o Emitted(s)] /\ Continue(s, NextAfter(s, p))
      \/ \E n \in DOMAIN Emitted(s) :
           seen' = [seen EXCEPT ![s] = z \o SubSeq(p, 1, n - 1)] /\ job' = [job EXCEPT ![s] = Ended]
  BY DEF Emit, Ended
<1>7. CASE seen' = [seen EXCEPT ![s] = z \o Emitted(s)] /\ Ending(s, FALSE)
  BY <1>1, <1>3, <1>5, <1>7, EndedFields, TimesTurn DEF Ending, Ended
<1>8. CASE seen' = [seen EXCEPT ![s] = z \o Emitted(s)] /\ Continue(s, NextAfter(s, p))
  <2> PICK m : m = NextAfter(s, p)
    OBVIOUS
  <2> DEFINE y == [x EXCEPT !.at = "gate", !.got = <<>>, !.next = m, !.q = PageRequest(m, x.q.stop)]
  <2>1. job' = [job EXCEPT ![s] = y] \/ job' = [job EXCEPT ![s] = Paused(m)]
    BY <1>8 DEF Continue, Paused
  <2>2. y.got = <<>> /\ y.todo = x.todo
    BY <1>1 DEF Fields
  <2>3. Paused(m).got = <<>> /\ Paused(m).todo = <<>>
    BY PausedFields
  <2> HIDE DEF y
  <2> QED BY <1>1, <1>3, <1>5, <1>8, <2>1, <2>2, <2>3, TimesTurn
<1>9. ASSUME NEW n \in DOMAIN Emitted(s), seen' = [seen EXCEPT ![s] = z \o SubSeq(p, 1, n - 1)],
             job' = [job EXCEPT ![s] = Ended]
      PROVE  TimesInv'
  <2> DEFINE g == SubSeq(p, 1, n - 1)
  <2>1. n \in 1 .. Len(p)
    <3>1. DOMAIN <<>> = {}
      OBVIOUS
    <3> QED BY <1>2, <1>4, <3>1
  <2>2. 1 \in Nat \ {0} /\ n - 1 \in 0 .. Len(p) /\ 1 <= n - 1 + 1
    BY <1>2, <2>1
  <2>3. IsSeq(g) /\ ToSet(g) \subseteq ToSet(p)
    BY <1>2, <2>2, SubSeqIsSeq, SubSeqElements
  <2> HIDE DEF g
  <2>4. ToSet(z \o g) \subseteq ToSet(z) \cup ToSet(g)
    BY <1>2, <2>3, ConcatElements
  <2>5. seen' = [seen EXCEPT ![s] = z \o g] /\ ToSet(z \o g) \subseteq ToSet(z) \cup ToSet(p)
    BY <1>9, <2>3, <2>4 DEF g
  <2> QED BY <1>1, <1>3, <1>9, <2>5, EndedFields, TimesTurn
<1> QED BY <1>6, <1>7, <1>8, <1>9

(* A walk hands over a page that it has stamped. *)
LEMMA WalkOnTimes ==
  ASSUME HandsInv, TimesInv, NEW w \in Walks, WalkOn(w)
  PROVE  TimesInv'
<1> DEFINE x == job[w]
           z == seen[w]
           p == x.got
<1>1. w \in Jobs /\ IsEvents(z) /\ IsEvents(p) /\ DOMAIN x = Fields
  BY JobKinds, JobFacts
<1>2. IsSeq(z) /\ IsSeq(p)
  BY <1>1 DEF IsEvents
<1>3. Remembers
  BY SameRemembers DEF WalkOn
<1>4. ToSet(z \o p) \subseteq ToSet(z) \cup ToSet(p)
  BY <1>2, ConcatElements
<1>5. \E y \in {z \o p, z} : seen' = [seen EXCEPT ![w] = y]
  <2>1. seen' = [seen EXCEPT ![w] = z \o p] \/ UNCHANGED seen
    BY DEF WalkOn
  <2> QED BY <1>1, <2>1, JobFacts
<1> PICK y \in {z \o p, z} : seen' = [seen EXCEPT ![w] = y]
  BY <1>5
<1>6. ToSet(y) \subseteq ToSet(z) \cup ToSet(p)
  BY <1>4
<1>7. (\E q : Ask(w, q)) \/ Ending(w, FALSE)
  BY DEF WalkOn
<1>8. CASE Ending(w, FALSE)
  BY <1>1, <1>3, <1>6, <1>8, EndedFields, TimesTurn DEF Ending, Ended
<1>9. ASSUME NEW q, Ask(w, q) PROVE TimesInv'
  <2> DEFINE u == Requesting(x, q, 0, <<>>, <<>>)
  <2>1. job' = [job EXCEPT ![w] = u]
    BY <1>9 DEF Ask, Asking, Requesting
  <2>2. u.got = <<>> /\ u.todo = <<>>
    BY <1>1, RequestingFields
  <2> HIDE DEF u
  <2> QED BY <1>1, <1>3, <1>6, <2>1, <2>2, TimesTurn
<1> QED BY <1>7, <1>8, <1>9

(* The steps that leave the timestamps and what is handed over alone.      *)
LEMMA OtherTimes ==
  ASSUME HandsInv, TimesInv, UNCHANGED <<seen, cache, evicted>>,
         \/ UNCHANGED job
         \/ Close
         \/ \E t \in Jobs : \/ \E failed \in BOOLEAN : Ending(t, failed)
                            \/ \E q : Ask(t, q)
                            \/ job' = [job EXCEPT ![t].at = "flight"]
                            \/ \E n : job' = [job EXCEPT ![t] = Paused(n)]
  PROVE  TimesInv'
<1>1. Remembers
  BY SameRemembers
<1>2. CASE UNCHANGED job
  BY <1>2 DEF TimesInv
<1>3. CASE Close
  <2>1. \A u \in Jobs : job'[u] = Ended \/ job'[u] = job[u]
    BY <1>3 DEF Close, Ended
  <2> QED BY <1>1, <2>1, EndedFields, TimesKept
<1>4. ASSUME NEW t \in Jobs, NEW failed, Ending(t, failed) PROVE TimesInv'
  BY <1>1, <1>4, EndedFields, TimesPlain DEF Ending, Ended
<1>5. ASSUME NEW t \in Jobs, NEW q, Ask(t, q) PROVE TimesInv'
  BY <1>1, <1>5, AskTimes
<1>6. ASSUME NEW t \in Jobs, job' = [job EXCEPT ![t].at = "flight"] PROVE TimesInv'
  <2> DEFINE y == [job[t] EXCEPT !.at = "flight"]
  <2>1. job' = [job EXCEPT ![t] = y]
    BY <1>6
  <2>2. y.got = job[t].got /\ y.todo = job[t].todo
    BY JobFacts DEF Fields
  <2> HIDE DEF y
  <2> QED BY <1>1, <2>1, <2>2, TimesPlain
<1>7. ASSUME NEW t \in Jobs, NEW n, job' = [job EXCEPT ![t] = Paused(n)] PROVE TimesInv'
  BY <1>1, <1>7, PausedFields, TimesPlain
<1> QED BY <1>2, <1>3, <1>4, <1>5, <1>6, <1>7

(* TimesInv is inductive. *)
LEMMA TimesInvariant == Spec => [](HandsInv /\ TimesInv)
<1>1. Init => TimesInv
  <2> SUFFICES ASSUME Init PROVE TimesInv
    OBVIOUS
  <2>1. cache = <<>> /\ job = [t \in Jobs |-> Idle] /\ seen = [t \in Jobs |-> <<>>]
    BY DEF Init
  <2> QED BY <2>1, IdleFields, Elements, EmptyIsSeq DEF TimesInv, CacheOk, AllVouched, ConfirmsVouched
<1>2. HandsInv /\ TimesInv /\ [Next]_vars => TimesInv'
  <2> SUFFICES ASSUME HandsInv, TimesInv, [Next]_vars PROVE TimesInv'
    OBVIOUS
  <2>1. CASE Produce \/ GateSkip \/ Tick \/ UNCHANGED vars
    <3>1. UNCHANGED <<job, seen, cache, evicted>>
      BY <2>1 DEF Produce, GateSkip, Tick, vars
    <3> QED BY <3>1, OtherTimes
  <2>2. CASE GateStart
    <3> DEFINE t == queue[1]
    <3>1. /\ t \in Jobs /\ UNCHANGED <<seen, cache, evicted>>
          /\ Ending(t, TRUE) \/ job' = [job EXCEPT ![t].at = "flight"]
      BY <2>2, QueueFacts DEF GateStart
    <3> HIDE DEF t
    <3> QED BY <3>1, OtherTimes
  <2>3. CASE Close
    BY <2>3, OtherTimes DEF Close
  <2>4. ASSUME NEW t \in Jobs, Respond(t) \/ RespondLate(t) \/ RespondBadly(t) PROVE TimesInv'
    BY <2>4, AnsweredTimes
  <2>5. ASSUME NEW t \in Jobs, RequestFails(t) \/ Unwind(t) \/ AbortWalk(t) PROVE TimesInv'
    <3>1. UNCHANGED <<seen, cache, evicted>> /\ \E failed \in BOOLEAN : Ending(t, failed)
      BY <2>5 DEF RequestFails, Unwind, AbortWalk
    <3> QED BY <3>1, OtherTimes
  <2>6. ASSUME NEW s \in Subs, Subscribe(s) \/ Poll(s) \/ Advance(s) PROVE TimesInv'
    <3>1. s \in Jobs /\ UNCHANGED <<seen, cache, evicted>>
      BY <2>6, JobKinds DEF Subscribe, Poll, Advance
    <3>2. (\E q : Ask(s, q)) \/ \E n : job' = [job EXCEPT ![s] = Paused(n)]
      BY <2>6 DEF Subscribe, Poll, Advance, Paused
    <3> QED BY <3>1, <3>2, OtherTimes
  <2>7. ASSUME NEW s \in Subs, Emit(s) PROVE TimesInv'
    BY <2>7, EmitTimes
  <2>8. ASSUME NEW s \in Subs, Cancel(s) PROVE TimesInv'
    BY <2>8, OtherTimes DEF Cancel
  <2>9. ASSUME NEW w \in Walks, Walk(w) PROVE TimesInv'
    <3>1. w \in Jobs /\ UNCHANGED <<seen, cache, evicted>> /\ Ask(w, EventRequest(From[w]))
      BY <2>9, JobKinds DEF Walk
    <3> QED BY <3>1, OtherTimes
  <2>10. ASSUME NEW w \in Walks, WalkOn(w) PROVE TimesInv'
    BY <2>10, WalkOnTimes
  <2>11. Subs \subseteq Jobs /\ Walks \subseteq Jobs
    BY JobKinds
  <2> QED BY <2>1, <2>2, <2>3, <2>4, <2>5, <2>6, <2>7, <2>8, <2>9, <2>10, <2>11 DEF Next
<1> QED BY <1>1, <1>2, HandsInvariant, PTL DEF Spec

(* Two events of one block never carry two timestamps, whichever jobs they *)
(* were handed over by and in whatever order the answers came, as long as  *)
(* the cache has not let go of the block: a second confirmation that       *)
(* differs makes its answer fail, and the other events take theirs from    *)
(* the first.  What goes without one is a confirmation that came without.  *)
THEOREM TimesAreOne == Spec => []TimesAgree
<1>1. HandsInv /\ TimesInv => TimesAgree
  <2> SUFFICES ASSUME HandsInv, TimesInv, NEW t \in Jobs, NEW u \in Jobs,
                      NEW i \in DOMAIN seen[t], NEW k \in DOMAIN seen[u]
               PROVE  LET v == seen[t][i]
                          w == seen[u][k]
                      IN  /\ v.stamp = 0 => v.confirms
                          /\ v.block = w.block /\ v.block \notin evicted =>
                               0 \in {v.stamp, w.stamp} \/ v.stamp = w.stamp
    BY DEF TimesAgree
  <2> DEFINE v == seen[t][i]
             w == seen[u][k]
  <2>1. v \in ToSet(seen[t]) /\ w \in ToSet(seen[u])
    BY DEF ToSet
  <2>2. v.stamp = 0 => v.confirms
    BY <2>1 DEF TimesInv, AllVouched
  <2>3. ASSUME v.block = w.block, v.block \notin evicted, v.stamp # 0, w.stamp # 0
        PROVE  v.stamp = w.stamp
    <3>1. Entry(v) \in ToSet(cache) /\ Entry(w) \in ToSet(cache)
      BY <2>1, <2>3 DEF TimesInv, AllVouched, Vouched
    <3>2. Entry(v).block = Entry(w).block
      BY <2>3 DEF Entry
    <3>3. Entry(v) = Entry(w)
      BY <3>1, <3>2 DEF TimesInv, CacheOk
    <3> HIDE DEF v, w
    <3>4. Entry(v).stamp = v.stamp /\ Entry(w).stamp = w.stamp
      BY DEF Entry
    <3> QED BY <3>3, <3>4
  <2> HIDE DEF v, w
  <2>4. v.block = w.block /\ v.block \notin evicted => 0 \in {v.stamp, w.stamp} \/ v.stamp = w.stamp
    BY <2>3
  <2> QED BY <2>2, <2>4 DEF v, w
<1> QED BY <1>1, TimesInvariant, PTL

-----------------------------------------------------------------------------
(* HubStream: the contract of the gRPC subscriptions. *)

(* The variables of one gRPC subscription. *)
HubTypes == [ready : {"pending", "ready", "failed"}, done : BOOLEAN,
             cancelIssued : BOOLEAN, handled : Nat, reported : {0, 1}]

(* One subscription: `ready` is settled by the first event or by the end,  *)
(* whichever comes first, and only the end is reported, once.              *)
Settled(h) ==
  /\ h \in HubTypes
  /\ h.done = TRUE => h.ready # "pending"
  /\ h.handled > 0 <=> h.ready = "ready"
  /\ h.reported = 1 => h.done = TRUE

(* The inductive invariant. *)
HubInv ==
  /\ hub \in [Streams -> HubTypes]
  /\ \A s \in Streams : Settled(hub[s])

(* A step of one subscription as its contract sees it: nothing, one more   *)
(* event, or the end with or without a report.                             *)
Same(h, k) == k.ready = h.ready /\ k.done = h.done /\ k.handled = h.handled /\ k.reported = h.reported

(* One more event. *)
Delivers(h, k) ==
  /\ h.done = FALSE /\ k.done = FALSE /\ k.handled = h.handled + 1
  /\ k.ready = "ready" /\ k.reported = h.reported

(* The end, with a report or without. *)
Ends(h, k) ==
  /\ h.done = FALSE /\ k.done = TRUE /\ k.handled = h.handled /\ k.reported \in {h.reported, h.reported + 1}
  /\ k.ready = IF h.handled = 0 THEN "failed" ELSE "ready"

(* One of the three, after which the invariant holds. *)
Moves(h, k) == Settled(k) /\ (Same(h, k) \/ Delivers(h, k) \/ Ends(h, k))

(* Ending a subscription is a move, with and without a report. *)
LEMMA FinishedMoves ==
  ASSUME NEW h, Settled(h)
  PROVE  Moves(h, Finished(h, TRUE)) /\ Moves(h, Finished(h, FALSE))
<1>1. CASE h.done
  BY <1>1 DEF Settled, Moves, Same, Finished
<1>2. CASE ~h.done
  <2> DEFINE k(r) == [h EXCEPT !.done = TRUE,
                               !.ready = IF h.ready = "pending" THEN "failed" ELSE h.ready,
                               !.reported = r]
  <2>1. h.reported = 0
    BY <1>2 DEF Settled, HubTypes
  <2>2. Finished(h, TRUE) = k(1) /\ Finished(h, FALSE) = k(0)
    BY <1>2, <2>1 DEF Finished, Settled, HubTypes
  <2>3. ASSUME NEW r \in {0, 1} PROVE Moves(h, k(r))
    <3>1. h \in HubTypes
      BY DEF Settled
    <3>2. k(r).done = TRUE /\ k(r).handled = h.handled /\ k(r).reported = r
      BY <3>1 DEF HubTypes
    <3>3. k(r).ready = IF h.ready = "pending" THEN "failed" ELSE h.ready
      BY <3>1 DEF HubTypes
    <3>4. k(r) \in HubTypes
      BY <3>1, <2>3 DEF HubTypes
    <3>5. h.handled \in Nat /\ (h.handled > 0 <=> h.ready = "ready") /\ h.ready \in {"pending", "ready", "failed"}
      BY DEF Settled, HubTypes
    <3>6. k(r).ready = IF h.handled = 0 THEN "failed" ELSE "ready"
      BY <3>3, <3>5
    <3>7. Settled(k(r))
      BY <3>2, <3>4, <3>5, <3>6, <2>3 DEF Settled
    <3>8. Ends(h, k(r))
      BY <1>2, <2>1, <2>3, <3>2, <3>6 DEF Ends
    <3> HIDE DEF k
    <3> QED BY <3>7, <3>8 DEF Moves
  <2> QED BY <2>2, <2>3
<1> QED BY <1>1, <1>2

(* cancelIssued is nothing the contract knows of. *)
LEMMA CancelMoves ==
  ASSUME NEW h, NEW k, Moves(h, k)
  PROVE  Moves(h, [k EXCEPT !.cancelIssued = TRUE])
  BY DEF Moves, Settled, HubTypes, Same, Delivers, Ends

(* Every step moves one subscription, or none. *)
LEMMA StepMoves ==
  ASSUME HubInv, HubNext
  PROVE  \E s \in Streams : \E k : Moves(hub[s], k) /\ hub' = [hub EXCEPT ![s] = k]
<1> PICK s \in Streams : Data(s) \/ Error(s) \/ EndOrClose(s) \/ CancelStream(s)
  BY DEF HubNext
<1> DEFINE h == hub[s]
<1>0. Settled(h) /\ hub \in [Streams -> HubTypes]
  BY DEF HubInv
<1>1. ASSUME hub' = hub PROVE Moves(h, h) /\ hub' = [hub EXCEPT ![s] = h]
  BY <1>0, <1>1 DEF Moves, Same
<1>2. CASE Data(s)
  <2>1. CASE UNCHANGED hub
    BY <1>1, <2>1
  <2>2. CASE ~h.done /\ hub' = [hub EXCEPT ![s].handled = @ + 1, ![s].ready = "ready"]
    <3> DEFINE k == [h EXCEPT !.handled = @ + 1, !.ready = "ready"]
    <3>1. h \in HubTypes /\ h.handled \in Nat /\ (h.reported = 1 => h.done = TRUE)
      BY <1>0 DEF Settled, HubTypes
    <3>2. k \in HubTypes
      <4>1. h.handled + 1 \in Nat
        BY <3>1
      <4> QED BY <3>1, <4>1 DEF HubTypes
    <3>3. k.handled = h.handled + 1 /\ k.ready = "ready" /\ k.done = h.done /\ k.reported = h.reported
      BY <3>1 DEF HubTypes
    <3>4. hub' = [hub EXCEPT ![s] = k]
      BY <1>0, <2>2
    <3> HIDE DEF k
    <3>5. Settled(k) /\ Delivers(h, k)
      BY <2>2, <3>1, <3>2, <3>3 DEF Settled, Delivers
    <3> QED BY <3>4, <3>5 DEF Moves
  <2>3. CASE hub' = [hub EXCEPT ![s] = [Finished(@, TRUE) EXCEPT !.cancelIssued = TRUE]]
    BY <1>0, <2>3, FinishedMoves, CancelMoves
  <2> QED BY <1>2, <2>1, <2>2, <2>3 DEF Data
<1>3. CASE Error(s)
  BY <1>0, <1>3, FinishedMoves DEF Error
<1>4. CASE EndOrClose(s)
  BY <1>0, <1>4, FinishedMoves DEF EndOrClose
<1>5. CASE CancelStream(s)
  BY <1>0, <1>5, FinishedMoves, CancelMoves DEF CancelStream
<1> QED BY <1>2, <1>3, <1>4, <1>5

(* HubInv is inductive. *)
LEMMA HubInvariant == HubSpec => []HubInv
<1>1. HubInit => HubInv
  BY DEF HubInit, HubInv, Settled, HubTypes
<1>2. HubInv /\ [HubNext]_hubVars => HubInv'
  <2> SUFFICES ASSUME HubInv, [HubNext]_hubVars PROVE HubInv'
    OBVIOUS
  <2>1. CASE HubNext
    <3> PICK s \in Streams : \E k : Moves(hub[s], k) /\ hub' = [hub EXCEPT ![s] = k]
      BY <2>1, StepMoves
    <3> PICK k : Moves(hub[s], k) /\ hub' = [hub EXCEPT ![s] = k]
      OBVIOUS
    <3>1. Settled(k) /\ k \in HubTypes
      BY DEF Moves, Settled
    <3> QED BY <3>1 DEF HubInv
  <2>2. CASE UNCHANGED hubVars
    BY <2>2 DEF hubVars, HubInv
  <2> QED BY <2>1, <2>2
<1> QED BY <1>1, <1>2, PTL DEF HubSpec

(* A step of one subscription is a step of the contract. *)
LEMMA MoveIsContractStep ==
  ASSUME HubInv, NEW s \in Streams, NEW k, Moves(hub[s], k), hub' = [hub EXCEPT ![s] = k]
  PROVE  HubContract!Next \/ UNCHANGED HubContract!vars
<1> DEFINE h == hub[s]
           readyBar == [x \in Streams |-> hub[x].ready]
           endedBar == [x \in Streams |-> hub[x].done]
           reportedBar == [x \in Streams |-> hub[x].reported]
           handledBar == [x \in Streams |-> hub[x].handled]
<1>1. h \in HubTypes /\ k \in HubTypes /\ hub \in [Streams -> HubTypes]
  BY DEF HubInv, Moves, Settled
<1>2. /\ readyBar' = [readyBar EXCEPT ![s] = k.ready]
      /\ endedBar' = [endedBar EXCEPT ![s] = k.done]
      /\ reportedBar' = [reportedBar EXCEPT ![s] = k.reported]
      /\ handledBar' = [handledBar EXCEPT ![s] = k.handled]
  BY <1>1
<1>3. /\ readyBar[s] = h.ready /\ endedBar[s] = h.done
      /\ reportedBar[s] = h.reported /\ handledBar[s] = h.handled /\ handledBar'[s] = k.handled
  BY <1>1, <1>2
<1>4. /\ readyBar = [readyBar EXCEPT ![s] = h.ready] /\ endedBar = [endedBar EXCEPT ![s] = h.done]
      /\ reportedBar = [reportedBar EXCEPT ![s] = h.reported]
      /\ handledBar = [handledBar EXCEPT ![s] = h.handled]
  BY <1>1
<1>5. h.handled \in Nat /\ k.handled \in Nat /\ h.reported \in Nat /\ k.reported \in Nat
  BY <1>1 DEF HubTypes
<1>6. /\ (UNCHANGED HubContract!vars) <=> UNCHANGED <<readyBar, endedBar, reportedBar, handledBar>>
      /\ HubContract!Deliver(s) <=>
           /\ ~endedBar[s] /\ handledBar'[s] > handledBar[s]
           /\ handledBar' = [handledBar EXCEPT ![s] = handledBar'[s]]
           /\ readyBar' = [readyBar EXCEPT ![s] = "ready"]
           /\ UNCHANGED <<endedBar, reportedBar>>
      /\ \A r : HubContract!End(s, r) <=>
           /\ ~endedBar[s] /\ handledBar'[s] >= handledBar[s]
           /\ handledBar' = [handledBar EXCEPT ![s] = handledBar'[s]]
           /\ endedBar' = [endedBar EXCEPT ![s] = TRUE]
           /\ reportedBar' = [reportedBar EXCEPT ![s] = reportedBar[s] + r]
           /\ readyBar' = [readyBar EXCEPT ![s] = IF handledBar'[s] = 0 THEN "failed" ELSE "ready"]
  BY DEF HubContract!vars, HubContract!Deliver, HubContract!End, HubContract!Takes
<1>7. HubContract!Deliver(s) \/ HubContract!End(s, 0) \/ HubContract!End(s, 1) => HubContract!Next
  BY DEF HubContract!Next
<1>8. Same(h, k) \/ Delivers(h, k) \/ Ends(h, k)
  BY DEF Moves
<1> HIDE DEF h, readyBar, endedBar, reportedBar, handledBar
<1>9. handledBar' = [handledBar EXCEPT ![s] = handledBar'[s]]
  BY <1>2, <1>3
<1>10. CASE Same(h, k)
  <2>1. k.ready = h.ready /\ k.done = h.done /\ k.handled = h.handled /\ k.reported = h.reported
    BY <1>10 DEF Same
  <2>2. readyBar' = readyBar /\ endedBar' = endedBar /\ reportedBar' = reportedBar /\ handledBar' = handledBar
    BY <1>2, <1>4, <2>1
  <2> QED BY <1>6, <2>2
<1>11. CASE Delivers(h, k)
  <2>1. h.done = FALSE /\ k.done = FALSE /\ k.handled = h.handled + 1 /\ k.ready = "ready" /\ k.reported = h.reported
    BY <1>11 DEF Delivers
  <2>2. ~endedBar[s] /\ UNCHANGED <<endedBar, reportedBar>>
    BY <1>2, <1>3, <1>4, <2>1
  <2>3. handledBar'[s] > handledBar[s] /\ readyBar' = [readyBar EXCEPT ![s] = "ready"]
    BY <1>2, <1>3, <1>5, <2>1
  <2>4. HubContract!Deliver(s)
    BY <1>6, <1>9, <2>2, <2>3
  <2> QED BY <1>7, <2>4
<1>12. CASE Ends(h, k)
  <2>1. h.done = FALSE /\ k.done = TRUE /\ k.handled = h.handled
    BY <1>12 DEF Ends
  <2>2. k.ready = IF h.handled = 0 THEN "failed" ELSE "ready"
    BY <1>12 DEF Ends
  <2>3. PICK r \in {0, 1} : k.reported = h.reported + r
    BY <1>5, <1>12 DEF Ends
  <2>4. ~endedBar[s] /\ handledBar'[s] >= handledBar[s]
    BY <1>3, <1>5, <2>1
  <2>5. endedBar' = [endedBar EXCEPT ![s] = TRUE] /\ reportedBar' = [reportedBar EXCEPT ![s] = reportedBar[s] + r]
    BY <1>2, <1>3, <2>1, <2>3
  <2>6. readyBar' = [readyBar EXCEPT ![s] = IF handledBar'[s] = 0 THEN "failed" ELSE "ready"]
    BY <1>2, <1>3, <2>1, <2>2
  <2>7. HubContract!End(s, r)
    BY <1>6, <1>9, <2>4, <2>5, <2>6
  <2> QED BY <1>7, <2>7
<1> QED BY <1>8, <1>10, <1>11, <1>12

(* The gRPC subscriptions implement the contract that the shard worker is  *)
(* written against.                                                        *)
THEOREM StreamKeepsContract == HubSpec => StreamImplementsSubscription
<1>1. HubInit => HubContract!Init
  BY DEF HubInit, HubContract!Init
<1>2. HubInv /\ [HubNext]_hubVars => [HubContract!Next]_(HubContract!vars)
  <2> SUFFICES ASSUME HubInv, [HubNext]_hubVars
               PROVE  HubContract!Next \/ UNCHANGED HubContract!vars
    OBVIOUS
  <2>1. CASE HubNext
    <3> PICK s \in Streams : \E k : Moves(hub[s], k) /\ hub' = [hub EXCEPT ![s] = k]
      BY <2>1, StepMoves
    <3> PICK k : Moves(hub[s], k) /\ hub' = [hub EXCEPT ![s] = k]
      OBVIOUS
    <3> QED BY MoveIsContractStep
  <2>2. CASE UNCHANGED hubVars
    BY <2>2 DEF hubVars, HubContract!vars
  <2> QED BY <2>1, <2>2
<1> QED
  BY <1>1, <1>2, HubInvariant, PTL DEF HubSpec, StreamImplementsSubscription, HubContract!Spec
=============================================================================
