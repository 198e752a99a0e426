---------------------------- MODULE UplinkProofs ----------------------------
(***************************************************************************)
(* Proofs about Uplink: under Premise, for every window, every number of   *)
(* paths and every session length, the session is delivered at most once   *)
(* and no first copy inside the window is lost.                            *)
(***************************************************************************)
EXTENDS Uplink, TLAPS

(* Two numbers of one window have different residues.                      *)
LEMMA Residues ==
  ASSUME NEW a \in Nat, NEW b \in Nat, NEW w \in Nat \ {0},
         a % w = b % w, a < b + w, b < a + w
  PROVE  a = b
<1> DEFINE qa == a \div w  qb == b \div w
<1>1. /\ qa \in Int /\ qb \in Int
      /\ a = w * qa + (a % w)
      /\ b = w * qb + (b % w)
  BY SMT
<1>2. a - b = w * (qa - qb)
  BY <1>1, SMT
<1> HIDE DEF qa, qb
<1> DEFINE q == qa - qb
<1>3. q \in Int /\ w * q < w /\ -w < w * q
  BY <1>1, <1>2, SMT
<1> HIDE DEF q
<1>4. CASE q >= 1
  <2>1. w * q >= w
    BY <1>4, <1>3, SMT
  <2> QED BY <2>1, <1>3, SMT
<1>5. CASE q <= -1
  <2>1. w * q <= -w
    BY <1>5, <1>3, SMT
  <2> QED BY <2>1, <1>3, SMT
<1>6. CASE q = 0
  BY <1>6, <1>2, <1>1, SMT DEF q
<1> QED BY <1>3, <1>4, <1>5, <1>6, SMT

(* Reduction to a uint32 does nothing to a number in range.                *)
LEMMA InRange ==
  ASSUME NEW n \in Nat, NEW m \in Nat, n < m
  PROVE  n % m = n
<1>1. m \in Nat \ {0} /\ n % m \in Nat /\ n % m < m
  BY SMT
<1> QED BY <1>1, SMT

-----------------------------------------------------------------------------
(***************************************************************************)
(* The deduplicator within one session: numbers below the wrap.            *)
(***************************************************************************)

(* The uint32 sums of IsNew do not wrap.                                   *)
LEMMA Sums ==
  ASSUME NEW d \in Deduplicator, WindowOK(d),
         NEW s \in Nat, s + Threshold < SeqMod, d.maxSeen + Threshold < SeqMod
  PROVE  /\ U32(d.minSeq + W) = d.minSeq + W
         /\ U32(s + Threshold) = s + Threshold
         /\ s >= d.minSeq + W => U32(s - W + 1) = s - W + 1
<1>1. /\ W \in Nat \ {0} /\ SeqMod \in Nat /\ W < SeqMod
      /\ d.minSeq \in Nat /\ d.maxSeen \in Nat /\ d.minSeq + W < SeqMod
  BY DedupAssumption DEF Threshold, WindowOK, Deduplicator, Seq32
<1>2. U32(d.minSeq + W) = d.minSeq + W
  BY <1>1, InRange DEF U32
<1>3. U32(s + Threshold) = s + Threshold
  <2>1. s + Threshold \in Nat
    BY <1>1 DEF Threshold
  <2> QED BY <2>1, <1>1, InRange DEF U32
<1>4. ASSUME s >= d.minSeq + W
      PROVE  U32(s - W + 1) = s - W + 1
  <2>1. s - W + 1 \in Nat /\ s - W + 1 < SeqMod
    BY <1>1, <1>4 DEF Threshold
  <2> QED BY <2>1, <1>1, InRange DEF U32
<1> QED BY <1>2, <1>3, <1>4

(* Sliding the window to s keeps what it says of D, forgets no packet of D *)
(* without leaving it behind, and knows s only if s is in D.               *)
LEMMA SlidLemma ==
  ASSUME NEW d \in Deduplicator, NEW D \in SUBSET Nat, NEW s \in Nat,
         WindowOK(d), SeenOK(d, D), d.minSeq <= s,
         s + Threshold < SeqMod, d.maxSeen + Threshold < SeqMod
  PROVE  /\ Slid(d, s) \in Deduplicator
         /\ Slid(d, s).maxSeen = d.maxSeen
         /\ Slid(d, s).lastPkt = d.lastPkt
         /\ d.minSeq <= Slid(d, s).minSeq
         /\ Slid(d, s).minSeq <= s /\ s < Slid(d, s).minSeq + W
         /\ ~PastWindow(d, s) => Slid(d, s) = d
         /\ PastWindow(d, s) =>
              /\ Slid(d, s).minSeq = s - W + 1
              /\ s >= d.minSeq + W /\ s > d.maxSeen
         /\ SeenOK(Slid(d, s), D)
         /\ \A t \in Nat : Remembers(d, t) => Remembers(Slid(d, s), t)
         /\ Slid(d, s).seen[s % W] => s \in D /\ s <= d.maxSeen
<1> DEFINE sl == Slid(d, s)
<1>0. /\ W \in Nat \ {0} /\ SeqMod \in Nat
      /\ d.minSeq \in Nat /\ d.maxSeen \in Nat /\ d.maxSeen < d.minSeq + W
      /\ d.seen \in [0 .. W - 1 -> BOOLEAN]
  BY DedupAssumption DEF Threshold, WindowOK, Deduplicator, Seq32
<1>1. /\ U32(d.minSeq + W) = d.minSeq + W
      /\ s >= d.minSeq + W => U32(s - W + 1) = s - W + 1
  BY Sums
<1>2. PastWindow(d, s) <=> s >= d.minSeq + W
  BY <1>1 DEF PastWindow
<1>3. s % W \in 0 .. W - 1
  BY <1>0
<1>4. ASSUME SeenOK(sl, D), sl.maxSeen = d.maxSeen,
             d.maxSeen < sl.minSeq + W, sl.minSeq <= s, s < sl.minSeq + W,
             sl.minSeq \in Nat
      PROVE  sl.seen[s % W] => s \in D /\ s <= d.maxSeen
  <2> SUFFICES ASSUME sl.seen[s % W]
               PROVE  s \in D /\ s <= d.maxSeen
    OBVIOUS
  <2>1. PICK t \in D : t % W = s % W /\ sl.minSeq <= t /\ t <= sl.maxSeen
    BY <1>3, <1>4 DEF SeenOK
  <2>2. t \in Nat /\ t < s + W /\ s < t + W
    BY <2>1, <1>4, <1>0
  <2>3. t = s
    BY <2>1, <2>2, <1>0, Residues
  <2> QED BY <2>1, <2>3, <1>4
<1>5. CASE ~PastWindow(d, s)
  <2>1. sl = d
    BY <1>5 DEF Slid
  <2> HIDE DEF sl
  <2>2. s < d.minSeq + W
    BY <1>0, <1>2, <1>5
  <2>3. sl.seen[s % W] => s \in D /\ s <= d.maxSeen
    BY <1>4, <2>1, <2>2, <1>0
  <2> QED BY <2>1, <2>2, <2>3, <1>0, <1>5 DEF sl
<1>6. CASE PastWindow(d, s)
  <2> DEFINE newMin == s - W + 1
             leaving == {i \in d.minSeq .. newMin - 1 : i < d.minSeq + W}
  <2>1. /\ newMin \in Nat /\ d.minSeq < newMin /\ s = newMin + W - 1
        /\ s >= d.minSeq + W /\ s > d.maxSeen
    <3>1. s >= d.minSeq + W
      BY <1>2, <1>6
    <3>2. s > d.maxSeen
      BY <3>1, <1>0
    <3>3. W \in Nat \ {0} /\ d.minSeq \in Nat /\ s \in Nat
      BY <1>0
    <3>4. newMin \in Nat /\ d.minSeq < newMin /\ s = newMin + W - 1
      BY <3>1, <3>3
    <3> QED BY <3>1, <3>2, <3>4
  <2>2. sl = [seen    |-> [k \in 0 .. W - 1 |->
                             d.seen[k] /\ \A i \in leaving : i % W # k],
              minSeq  |-> newMin,
              maxSeen |-> d.maxSeen,
              lastPkt |-> d.lastPkt]
    BY <1>1, <1>2, <1>6 DEF Slid
  <2>3. /\ sl.minSeq = newMin /\ sl.maxSeen = d.maxSeen
        /\ sl.lastPkt = d.lastPkt
        /\ sl.seen = [k \in 0 .. W - 1 |->
                        d.seen[k] /\ \A i \in leaving : i % W # k]
    BY <2>2 DEF Deduplicator
  <2>4. newMin \in Seq32
    BY <2>1, <1>0 DEF Seq32, Threshold
  <2>5. sl \in Deduplicator
    <3>1. [k \in 0 .. W - 1 |-> d.seen[k] /\ \A i \in leaving : i % W # k]
            \in [0 .. W - 1 -> BOOLEAN]
      BY <1>0
    <3> HIDE DEF newMin, leaving
    <3> QED BY <2>2, <2>4, <3>1 DEF Deduplicator
  <2> HIDE DEF sl
  <2>6. SeenOK(sl, D)
    <3>1. ASSUME NEW k \in 0 .. W - 1, sl.seen[k]
          PROVE  \E t \in D : t % W = k /\ sl.minSeq <= t /\ t <= sl.maxSeen
      <4>1. d.seen[k] /\ \A i \in leaving : i % W # k
        BY <3>1, <2>3
      <4>2. PICK t \in D : t % W = k /\ d.minSeq <= t /\ t <= d.maxSeen
        BY <4>1 DEF SeenOK
      <4>3. t \notin leaving
        BY <4>1, <4>2
      <4>4. t \in Nat /\ t < d.minSeq + W
        BY <4>2, <1>0
      <4>5. newMin <= t
        BY <4>2, <4>3, <4>4, <1>0, <2>1
      <4> QED BY <4>2, <4>5, <2>3
    <3> QED BY <3>1, <2>3 DEF SeenOK
  <2>7. ASSUME NEW t \in Nat, Remembers(d, t)
        PROVE  Remembers(sl, t)
    <3>1. CASE t < newMin
      BY <3>1, <2>3, <2>7 DEF Remembers
    <3>2. CASE newMin <= t
      <4>1. d.seen[t % W] /\ t <= d.maxSeen /\ t < d.minSeq + W
        BY <3>2, <2>7, <2>1, <1>0 DEF Remembers
      <4>2. t % W \in 0 .. W - 1
        BY <1>0
      <4>3. ASSUME NEW i \in leaving, i % W = t % W
            PROVE  FALSE
        <5>1. i \in Nat /\ i < t /\ t < i + W
          BY <4>1, <3>2, <2>1, <1>0
        <5>2. i = t
          BY <5>1, <4>3, <1>0, Residues
        <5> QED BY <5>1, <5>2
      <4>4. sl.seen[t % W]
        <5> DEFINE k == t % W
        <5>1. k \in 0 .. W - 1 /\ d.seen[k] /\ \A i \in leaving : i % W # k
          BY <4>1, <4>2, <4>3
        <5> HIDE DEF k, leaving
        <5>2. sl.seen[k]
          BY <5>1, <2>3
        <5> QED BY <5>2 DEF k
      <4> QED BY <4>1, <4>4, <2>3 DEF Remembers
    <3> QED BY <3>1, <3>2, <2>1
  <2>8. sl.seen[s % W] => s \in D /\ s <= d.maxSeen
    BY <1>4, <2>6, <2>3, <2>1, <1>0
  <2> QED BY <1>6, <2>1, <2>3, <2>5, <2>6, <2>7, <2>8, <1>0 DEF sl
<1> QED BY <1>5, <1>6

(* The idle check leaves a sound deduplicator behind, and without a gap    *)
(* changes nothing but the time of the call.                               *)
LEMMA RefreshedLemma ==
  ASSUME NEW d \in Deduplicator, NEW D \in SUBSET Nat, NEW t \in Nat,
         WindowOK(d), SeenOK(d, D)
  PROVE  /\ Refreshed(d, t) \in Deduplicator
         /\ Refreshed(d, t).lastPkt = t
         /\ WindowOK(Refreshed(d, t))
         /\ SeenOK(Refreshed(d, t), D)
         /\ Refreshed(d, t).maxSeen \in {0, d.maxSeen}
         /\ ~IdleGap(d, t) =>
              \A u \in Nat : Remembers(Refreshed(d, t), u) <=> Remembers(d, u)
<1>1. /\ W \in Nat \ {0} /\ 0 \in Seq32 /\ t \in Int
      /\ NothingSeen \in [0 .. W - 1 -> BOOLEAN]
      /\ \A k \in 0 .. W - 1 : ~NothingSeen[k]
  BY DedupAssumption DEF Seq32, Threshold, NothingSeen
<1>2. CASE IdleGap(d, t)
  <2> DEFINE r == Refreshed(d, t)
  <2>1. r = [seen |-> NothingSeen, minSeq |-> 0, maxSeen |-> 0, lastPkt |-> t]
    BY <1>2 DEF Refreshed, Cleared
  <2> HIDE DEF r
  <2>2. r \in Deduplicator
    BY <2>1, <1>1 DEF Deduplicator
  <2> QED BY <1>1, <1>2, <2>1, <2>2 DEF WindowOK, SeenOK, r
<1>3. CASE ~IdleGap(d, t)
  <2> DEFINE r == Refreshed(d, t)
  <2>1. r = [d EXCEPT !.lastPkt = t]
    BY <1>3 DEF Refreshed
  <2> HIDE DEF r
  <2>2. /\ r \in Deduplicator /\ r.lastPkt = t /\ r.seen = d.seen
        /\ r.minSeq = d.minSeq /\ r.maxSeen = d.maxSeen
    BY <2>1, <1>1 DEF Deduplicator
  <2> QED BY <2>2 DEF WindowOK, SeenOK, Remembers, r
<1> QED BY <1>2, <1>3

(* Marking s makes the deduplicator know D and s.                          *)
LEMMA MarkedLemma ==
  ASSUME NEW d \in Deduplicator, NEW D \in SUBSET Nat, NEW s \in Nat,
         s < SeqMod, SeenOK(d, D), d.minSeq <= s, s < d.minSeq + W
  PROVE  /\ Marked(d, s) \in Deduplicator
         /\ Marked(d, s).minSeq = d.minSeq
         /\ Marked(d, s).maxSeen = IF s > d.maxSeen THEN s ELSE d.maxSeen
         /\ Marked(d, s).lastPkt = d.lastPkt
         /\ SeenOK(Marked(d, s), D \cup {s})
         /\ Remembers(Marked(d, s), s)
         /\ \A u \in Nat : Remembers(d, u) => Remembers(Marked(d, s), u)
<1> DEFINE m == Marked(d, s)
<1>0. /\ W \in Nat \ {0} /\ SeqMod \in Nat /\ s \in Seq32
      /\ d.minSeq \in Nat /\ d.maxSeen \in Nat
      /\ d.seen \in [0 .. W - 1 -> BOOLEAN]
  BY DedupAssumption DEF Deduplicator, Seq32
<1>1. s % W \in 0 .. W - 1
  BY <1>0
<1>2. /\ m.seen = [d.seen EXCEPT ![s % W] = TRUE]
      /\ m.minSeq = d.minSeq /\ m.lastPkt = d.lastPkt
      /\ m.maxSeen = IF s > d.maxSeen THEN s ELSE d.maxSeen
  BY DEF Marked
<1>3. m \in Deduplicator
  BY <1>0, <1>1 DEF Marked, Deduplicator
<1> HIDE DEF m
<1>4. SeenOK(m, D \cup {s})
  <2>1. m.maxSeen = 0 \/ m.maxSeen \in D \cup {s}
    BY <1>2 DEF SeenOK
  <2>2. ASSUME NEW k \in 0 .. W - 1, m.seen[k]
        PROVE  \E t \in D \cup {s} :
                 t % W = k /\ m.minSeq <= t /\ t <= m.maxSeen
    <3>1. CASE k = s % W
      BY <3>1, <1>0, <1>2
    <3>2. CASE k # s % W
      <4>1. d.seen[k]
        BY <3>2, <2>2, <1>0, <1>2
      <4>2. PICK t \in D : t % W = k /\ d.minSeq <= t /\ t <= d.maxSeen
        BY <4>1 DEF SeenOK
      <4>3. t \in Nat /\ t <= m.maxSeen
        BY <4>2, <1>0, <1>2
      <4> QED BY <4>2, <4>3, <1>2
    <3> QED BY <3>1, <3>2
  <2> QED BY <2>1, <2>2 DEF SeenOK
<1>5. Remembers(m, s)
  BY <1>0, <1>1, <1>2 DEF Remembers
<1>6. ASSUME NEW u \in Nat, Remembers(d, u)
      PROVE  Remembers(m, u)
  <2>1. u % W \in 0 .. W - 1
    BY <1>0
  <2>2. u <= m.maxSeen
    BY <1>0, <1>2, <1>6 DEF Remembers
  <2>3. d.seen[u % W] => m.seen[u % W]
    BY <2>1, <1>0, <1>1, <1>2
  <2> QED BY <2>2, <2>3, <1>2, <1>6 DEF Remembers
<1> QED BY <1>2, <1>3, <1>4, <1>5, <1>6 DEF m

(* Every call records its time, rejected copies included.                  *)
LEMMA CallTime ==
  ASSUME NEW d \in Deduplicator, NEW s, NEW t
  PROVE  AfterIsNew(d, s, t).lastPkt = t
<1>1. \A e : Cleared(e).lastPkt = e.lastPkt
  BY DEF Cleared
<1>2. Refreshed(d, t).lastPkt = t
  BY DEF Refreshed, Cleared, Deduplicator
<1>3. Restarted(d, s, t).lastPkt = t
  BY <1>1, <1>2 DEF Restarted
<1>4. \A e : Slid(e, s).lastPkt = e.lastPkt
  BY DEF Slid
<1>5. \A e : Marked(e, s).lastPkt = e.lastPkt
  BY DEF Marked
<1> QED BY <1>3, <1>4, <1>5 DEF AfterIsNew

(* One call of IsNew on a number that the restart threshold does not       *)
(* separate from maxSeen.                                                  *)
LEMMA CallLemma ==
  ASSUME NEW d \in Deduplicator, NEW D \in SUBSET Nat, NEW s \in Nat,
         NEW t \in Nat, WindowOK(d), SeenOK(d, D),
         s + Threshold < SeqMod, d.maxSeen + Threshold < SeqMod,
         d.maxSeen <= s + Threshold
  PROVE  /\ AfterIsNew(d, s, t) \in Deduplicator
         /\ AfterIsNew(d, s, t).lastPkt = t
         /\ WindowOK(AfterIsNew(d, s, t))
         /\ \/ AfterIsNew(d, s, t).maxSeen = 0
            \/ AfterIsNew(d, s, t).maxSeen = s
            \/ AfterIsNew(d, s, t).maxSeen = d.maxSeen
         /\ IsNew(d, s, t) =>
              /\ SeenOK(AfterIsNew(d, s, t), D \cup {s})
              /\ Remembers(AfterIsNew(d, s, t), s)
         /\ ~IsNew(d, s, t) =>
              /\ SeenOK(AfterIsNew(d, s, t), D)
              /\ s \in D \/ \E q \in D : q >= s + W
         /\ ~IdleGap(d, t) =>
              /\ \A u \in Nat :
                   Remembers(d, u) => Remembers(AfterIsNew(d, s, t), u)
              /\ IsNew(d, s, t) => ~Remembers(d, s)
<1> DEFINE r == Refreshed(d, t)
           sl == Slid(r, s)
           a == AfterIsNew(d, s, t)
<1>0. W \in Nat \ {0} /\ SeqMod \in Nat /\ d.maxSeen \in Nat /\ Threshold \in Nat
  BY DedupAssumption DEF Deduplicator, Seq32, Threshold
<1>1. /\ r \in Deduplicator /\ r.lastPkt = t /\ WindowOK(r) /\ SeenOK(r, D)
      /\ r.maxSeen \in {0, d.maxSeen}
      /\ ~IdleGap(d, t) => \A u \in Nat : Remembers(r, u) <=> Remembers(d, u)
  BY RefreshedLemma
<1>2. r.maxSeen + Threshold < SeqMod /\ r.maxSeen <= s + Threshold
  BY <1>0, <1>1
<1>3. Restarted(d, s, t) = r
  <2>1. U32(s + Threshold) = s + Threshold
    BY <1>1, <1>2, Sums
  <2>2. ~SeqGap(r, s)
    BY <2>1, <1>0, <1>1, <1>2 DEF SeqGap
  <2> QED BY <2>2 DEF Restarted
<1>4. /\ IsNew(d, s, t) <=> ~TooOld(r, s) /\ ~sl.seen[s % W]
      /\ a = IF TooOld(r, s) THEN r
             ELSE IF sl.seen[s % W] THEN sl ELSE Marked(sl, s)
  BY <1>3 DEF IsNew, AfterIsNew
<1>5. r.minSeq \in Nat /\ r.maxSeen \in Nat
  BY <1>1 DEF Deduplicator, Seq32
<1> HIDE DEF r, a
<1>6. CASE TooOld(r, s)
  <2>1. r.maxSeen \in D /\ r.maxSeen >= s + W
    BY <1>6, <1>0, <1>1, <1>5 DEF TooOld, WindowOK, SeenOK
  <2>2. a = r /\ ~IsNew(d, s, t)
    BY <1>4, <1>6
  <2> QED BY <2>1, <2>2, <1>1 DEF a
<1>7. CASE ~TooOld(r, s)
  <2>1. r.minSeq <= s
    BY <1>7, <1>5 DEF TooOld
  <2>2. /\ sl \in Deduplicator /\ sl.maxSeen = r.maxSeen
        /\ sl.lastPkt = r.lastPkt /\ r.minSeq <= sl.minSeq
        /\ sl.minSeq <= s /\ s < sl.minSeq + W
        /\ ~PastWindow(r, s) => sl = r
        /\ PastWindow(r, s) =>
             /\ sl.minSeq = s - W + 1
             /\ s >= r.minSeq + W /\ s > r.maxSeen
        /\ SeenOK(sl, D)
        /\ \A u \in Nat : Remembers(r, u) => Remembers(sl, u)
        /\ sl.seen[s % W] => s \in D /\ s <= r.maxSeen
    BY <2>1, <1>1, <1>2, SlidLemma
  <2> HIDE DEF sl
  <2>3. CASE sl.seen[s % W]
    <3>1. a = sl /\ ~IsNew(d, s, t)
      BY <1>4, <1>7, <2>3
    <3>2. sl = r
      BY <2>2, <2>3, <1>5
    <3> QED BY <3>1, <3>2, <2>2, <2>3, <1>1 DEF a
  <2>4. CASE ~sl.seen[s % W]
    <3>1. a = Marked(sl, s) /\ IsNew(d, s, t)
      BY <1>4, <1>7, <2>4
    <3>2. s < SeqMod
      BY <1>0
    <3>3. /\ a \in Deduplicator /\ a.minSeq = sl.minSeq
          /\ a.maxSeen = (IF s > sl.maxSeen THEN s ELSE sl.maxSeen)
          /\ a.lastPkt = sl.lastPkt /\ SeenOK(a, D \cup {s})
          /\ Remembers(a, s)
          /\ \A u \in Nat : Remembers(sl, u) => Remembers(a, u)
      BY <3>1, <3>2, <2>2, MarkedLemma
    <3>4. WindowOK(a)
      <4>1. CASE PastWindow(r, s)
        <5>1. s >= W
          BY <4>1, <2>2, <1>0, <1>1, <1>5 DEF WindowOK
        <5> QED BY <4>1, <5>1, <3>3, <2>2, <1>0, <1>5 DEF WindowOK
      <4>2. CASE ~PastWindow(r, s)
        BY <4>2, <3>3, <2>2, <1>0, <1>1, <1>5 DEF WindowOK
      <4> QED BY <4>1, <4>2
    <3>5. ~Remembers(r, s)
      <4>1. ~(s < r.minSeq)
        BY <1>7 DEF TooOld
      <4>2. CASE PastWindow(r, s)
        BY <4>2, <2>2, <1>5 DEF Remembers
      <4>3. CASE ~PastWindow(r, s)
        BY <4>1, <4>3, <2>2, <2>4 DEF Remembers
      <4> QED BY <4>2, <4>3
    <3> QED BY <3>1, <3>3, <3>4, <3>5, <2>2, <1>0, <1>1, <1>5 DEF a
  <2> QED BY <2>3, <2>4
<1> QED BY <1>6, <1>7

-----------------------------------------------------------------------------
(***************************************************************************)
(* The invariant of the whole link.                                        *)
(***************************************************************************)

(* A copy in flight finds no gap of silence if its packet was delivered,   *)
(* and is within the restart threshold of maxSeen.                         *)
LEMMA ArrivalLemma ==
  ASSUME Premise, IInv, NEW c \in wire
  PROVE  /\ c.seq \in Nat \ {0} /\ c.seq \in Packet /\ now \in Nat
         /\ dedup \in Deduplicator /\ delivered \in SUBSET Nat
         /\ c.seq + Threshold < SeqMod
         /\ dedup.maxSeen + Threshold < SeqMod
         /\ dedup.maxSeen <= c.seq + Threshold
         /\ \A e \in wire : e.seq \in delivered => ~IdleGap(dedup, now)
<1>1. /\ W \in Nat \ {0} /\ SeqMod \in Nat /\ IdleTimeout \in Nat
      /\ MaxSeq \in Nat /\ MaxDelay \in Nat /\ MaxLag \in Nat
  BY DedupAssumption, UplinkAssumption DEF Seq32
<1>2. \A e \in wire :
        /\ e.seq \in 1 .. MaxSeq /\ e.sent \in Nat
        /\ e.seq <= seq /\ seq - e.seq <= MaxLag
        /\ e.sent <= now /\ now - e.sent <= MaxDelay
  BY DEF IInv, TypeOK, WireInv, Copy, Packet
<1>3. /\ now \in Nat /\ seq \in 0 .. MaxSeq /\ dedup \in Deduplicator
      /\ delivered \subseteq 1 .. MaxSeq /\ dedup.maxSeen <= seq
      /\ dedup.maxSeen \in Nat /\ dedup.lastPkt \in Int
  BY DEF IInv, TypeOK, DeliveredInv, Packet, Deduplicator, Seq32
<1>4. ASSUME NEW e \in wire, e.seq \in delivered
      PROVE  ~IdleGap(dedup, now)
  BY <1>1, <1>2, <1>3, <1>4 DEF IInv, RememberedInv, Premise, IdleGap
<1> QED BY <1>1, <1>2, <1>3, <1>4 DEF Premise, Threshold, Packet

(* What an arrival does to the deduplicator, in terms of the invariant.    *)
LEMMA ArriveLemma ==
  ASSUME Premise, IInv, NEW c \in wire
  PROVE  LET d == AfterIsNew(dedup, c.seq, now)
             D == IF IsNew(dedup, c.seq, now)
                  THEN delivered \cup {c.seq} ELSE delivered
         IN  /\ d \in Deduplicator /\ d.lastPkt = now
             /\ WindowOK(d) /\ SeenOK(d, D)
             /\ d.maxSeen \in {0, c.seq, dedup.maxSeen}
             /\ IsNew(dedup, c.seq, now) =>
                  c.seq \notin delivered /\ Remembers(d, c.seq)
             /\ ~IsNew(dedup, c.seq, now) =>
                  c.seq \in delivered \/ \E q \in delivered : q >= c.seq + W
             /\ \A e \in wire : e.seq \in delivered => Remembers(d, e.seq)
<1> DEFINE d == AfterIsNew(dedup, c.seq, now)
<1>1. /\ c.seq \in Nat /\ now \in Nat
      /\ dedup \in Deduplicator /\ delivered \in SUBSET Nat
      /\ c.seq + Threshold < SeqMod
      /\ dedup.maxSeen + Threshold < SeqMod
      /\ dedup.maxSeen <= c.seq + Threshold
      /\ \A e \in wire : e.seq \in delivered => ~IdleGap(dedup, now)
  BY ArrivalLemma
<1>2. WindowOK(dedup) /\ SeenOK(dedup, delivered)
  BY DEF IInv
<1>3. /\ d \in Deduplicator /\ d.lastPkt = now /\ WindowOK(d)
      /\ d.maxSeen \in {0, c.seq, dedup.maxSeen}
      /\ IsNew(dedup, c.seq, now) =>
           SeenOK(d, delivered \cup {c.seq}) /\ Remembers(d, c.seq)
      /\ ~IsNew(dedup, c.seq, now) =>
           /\ SeenOK(d, delivered)
           /\ c.seq \in delivered \/ \E q \in delivered : q >= c.seq + W
      /\ ~IdleGap(dedup, now) =>
           /\ \A u \in Nat : Remembers(dedup, u) => Remembers(d, u)
           /\ IsNew(dedup, c.seq, now) => ~Remembers(dedup, c.seq)
  <2> DEFINE s == c.seq
  <2>1. /\ s \in Nat /\ s + Threshold < SeqMod
        /\ dedup.maxSeen <= s + Threshold
    BY <1>1
  <2> HIDE DEF s
  <2>2. /\ AfterIsNew(dedup, s, now) \in Deduplicator
        /\ AfterIsNew(dedup, s, now).lastPkt = now
        /\ WindowOK(AfterIsNew(dedup, s, now))
        /\ \/ AfterIsNew(dedup, s, now).maxSeen = 0
           \/ AfterIsNew(dedup, s, now).maxSeen = s
           \/ AfterIsNew(dedup, s, now).maxSeen = dedup.maxSeen
    <3>1. AfterIsNew(dedup, s, now) \in Deduplicator
      BY <1>1, <1>2, <2>1, CallLemma
    <3>2. AfterIsNew(dedup, s, now).lastPkt = now
      BY <1>1, CallTime
    <3>3. WindowOK(AfterIsNew(dedup, s, now))
      BY <1>1, <1>2, <2>1, CallLemma
    <3>4. \/ AfterIsNew(dedup, s, now).maxSeen = 0
          \/ AfterIsNew(dedup, s, now).maxSeen = s
          \/ AfterIsNew(dedup, s, now).maxSeen = dedup.maxSeen
      BY <1>1, <1>2, <2>1, CallLemma
    <3> QED BY <3>1, <3>2, <3>3, <3>4
  <2>3. IsNew(dedup, s, now) =>
          /\ SeenOK(AfterIsNew(dedup, s, now), delivered \cup {s})
          /\ Remembers(AfterIsNew(dedup, s, now), s)
    BY <1>1, <1>2, <2>1, CallLemma
  <2>4. ~IsNew(dedup, s, now) =>
          /\ SeenOK(AfterIsNew(dedup, s, now), delivered)
          /\ s \in delivered \/ \E q \in delivered : q >= s + W
    BY <1>1, <1>2, <2>1, CallLemma
  <2>5. ~IdleGap(dedup, now) =>
          /\ \A u \in Nat :
               Remembers(dedup, u) => Remembers(AfterIsNew(dedup, s, now), u)
          /\ IsNew(dedup, s, now) => ~Remembers(dedup, s)
    BY <1>1, <1>2, <2>1, CallLemma
  <2> QED BY <2>2, <2>3, <2>4, <2>5 DEF s
<1> HIDE DEF d
<1>4. \A e \in wire : e.seq \in delivered => Remembers(dedup, e.seq)
  BY DEF IInv, RememberedInv
<1>5. \A e \in wire : e.seq \in Nat
  BY DEF IInv, TypeOK, Copy, Packet
<1>6. IsNew(dedup, c.seq, now) => c.seq \notin delivered
  BY <1>1, <1>3, <1>4
<1>7. \A e \in wire : e.seq \in delivered => Remembers(d, e.seq)
  BY <1>1, <1>3, <1>4, <1>5
<1> QED BY <1>3, <1>6, <1>7 DEF d

(* A session starts in the invariant.                                      *)
LEMMA InitInv == Init => IInv
<1> SUFFICES ASSUME Init PROVE IInv
  OBVIOUS
<1>1. /\ W \in Nat \ {0} /\ SeqMod \in Nat /\ W < SeqMod /\ MaxSeq \in Nat
      /\ 0 \in Seq32
  BY DedupAssumption, UplinkAssumption DEF Threshold, Seq32
<1>2. /\ dedup \in Deduplicator /\ WindowOK(dedup) /\ SeenOK(dedup, delivered)
      /\ dedup.maxSeen = 0 /\ dedup.lastPkt = -1
  BY <1>1 DEF Init, FreshDedup, NothingSeen, NoTime, Deduplicator, WindowOK, SeenOK
<1>3. TypeOK
  BY <1>1, <1>2 DEF Init, TypeOK
<1> QED BY <1>1, <1>2, <1>3 DEF Init, IInv, WireInv, DeliveredInv, RememberedInv

(* Every step of a session within the premise keeps the invariant.         *)
LEMMA NextInv == Premise /\ IInv /\ [Next]_vars => IInv'
<1> SUFFICES ASSUME Premise, IInv, [Next]_vars PROVE IInv'
  OBVIOUS
<1>0. /\ W \in Nat \ {0} /\ SeqMod \in Nat /\ MaxSeq \in Nat /\ MaxDelay \in Nat
      /\ MaxSeq + Threshold < SeqMod /\ Threshold \in Nat
      /\ MaxLag \in Nat
  BY DedupAssumption, UplinkAssumption DEF Seq32, Premise, Threshold
<1>1. ASSUME NEW targets \in SUBSET Paths, Send(targets)
      PROVE  IInv'
  <2> USE <1>1 DEF Send
  <2>1. seq \in 0 .. MaxSeq /\ seq < MaxSeq /\ now \in Nat
    BY DEF IInv, TypeOK
  <2>2. seq' = seq + 1 /\ seq' \in 1 .. MaxSeq
    <3>1. seq + 1 \in Nat /\ seq + 1 < SeqMod
      BY <2>1, <1>0
    <3>2. U32(seq + 1) = seq + 1
      BY <3>1, <1>0, InRange DEF U32
    <3> QED BY <3>2, <2>1, <1>0
  <2>3. ASSUME NEW c \in wire'
        PROVE  \/ c \in wire /\ seq' - c.seq <= MaxLag
               \/ c.seq = seq' /\ c.sent = now /\ c \in Copy
    BY <2>1, <2>2, <1>0 DEF Copy, Packet
  <2>4. TypeOK'
    <3>1. wire' \subseteq Copy
      BY <2>3 DEF IInv, TypeOK
    <3> QED BY <3>1, <2>1, <2>2, <1>0 DEF IInv, TypeOK
  <2>5. WireInv'
    <3> SUFFICES ASSUME NEW c \in wire'
                 PROVE  /\ c.seq <= seq' /\ seq' - c.seq <= MaxLag
                        /\ c.sent <= now' /\ now' - c.sent <= MaxDelay
      BY DEF WireInv
    <3>1. CASE c \in wire /\ seq' - c.seq <= MaxLag
      <4>1. /\ c.seq \in Nat /\ c.seq <= seq
            /\ c.sent <= now /\ now - c.sent <= MaxDelay
        BY <3>1 DEF IInv, TypeOK, WireInv, Copy, Packet
      <4> QED BY <4>1, <2>1, <2>2, <1>0
    <3>2. CASE c.seq = seq' /\ c.sent = now
      BY <3>2, <2>1, <2>2, <1>0
    <3> QED BY <2>3, <3>1, <3>2
  <2>6. DeliveredInv'
    <3>1. /\ \A s \in delivered : s \in Nat /\ s <= seq
          /\ dedup.maxSeen \in Nat /\ dedup.maxSeen <= seq /\ dedup.lastPkt <= now
      BY <1>0 DEF IInv, TypeOK, DeliveredInv, Packet, Deduplicator, Seq32
    <3> QED BY <3>1, <2>1, <2>2 DEF DeliveredInv
  <2>7. RememberedInv'
    <3> SUFFICES ASSUME NEW c \in wire', c.seq \in delivered
                 PROVE  /\ dedup.lastPkt # NoTime /\ c.sent <= dedup.lastPkt
                        /\ Remembers(dedup, c.seq)
      BY DEF RememberedInv, Remembers
    <3>1. c.seq # seq'
      BY <2>1, <2>2 DEF IInv, DeliveredInv
    <3> QED BY <3>1, <2>3 DEF IInv, RememberedInv
  <2>8. WindowOK(dedup)' /\ SeenOK(dedup, delivered)'
    BY DEF IInv, WindowOK, SeenOK
  <2> QED BY <2>4, <2>5, <2>6, <2>7, <2>8 DEF IInv
<1>2. ASSUME NEW c \in wire, NEW again \in BOOLEAN, Arrive(c, again)
      PROVE  IInv'
  <2> DEFINE new == IsNew(dedup, c.seq, now)
  <2>1. /\ wire' \subseteq wire /\ seq' = seq /\ now' = now
        /\ dedup' = AfterIsNew(dedup, c.seq, now)
        /\ verdict' = [seq |-> c.seq, new |-> new]
        /\ delivered' = IF new THEN delivered \cup {c.seq} ELSE delivered
    BY <1>2 DEF Arrive
  <2>2. /\ c.seq \in Packet /\ c.seq \in Nat /\ c.seq <= seq
        /\ seq \in 0 .. MaxSeq /\ now \in Nat
    BY DEF IInv, TypeOK, WireInv, Copy, Packet
  <2>3. /\ dedup' \in Deduplicator /\ dedup'.lastPkt = now
        /\ dedup'.maxSeen \in {0, c.seq, dedup.maxSeen}
        /\ new => Remembers(dedup', c.seq)
        /\ \A e \in wire : e.seq \in delivered => Remembers(dedup', e.seq)
    BY <2>1, ArriveLemma
  <2>4. WindowOK(dedup') /\ SeenOK(dedup', delivered')
    BY <2>1, ArriveLemma
  <2>5. new \in BOOLEAN
    BY DEF IsNew
  <2> HIDE DEF new
  <2>6. TypeOK'
    <3>1. verdict' \in [seq : 0 .. MaxSeq, new : BOOLEAN]
      BY <2>1, <2>2, <2>5, <1>0
    <3>2. delivered' \subseteq Packet
      BY <2>1, <2>2 DEF IInv, TypeOK
    <3> QED BY <3>1, <3>2, <2>1, <2>2, <2>3 DEF IInv, TypeOK
  <2>7. WireInv'
    BY <2>1 DEF IInv, WireInv
  <2>8. DeliveredInv'
    <3>1. \A s \in delivered' : s <= seq'
      BY <2>1, <2>2 DEF IInv, DeliveredInv
    <3>2. dedup'.maxSeen <= seq'
      BY <2>1, <2>2, <2>3 DEF IInv, DeliveredInv
    <3> QED BY <3>1, <3>2, <2>1, <2>2, <2>3 DEF DeliveredInv
  <2>9. RememberedInv'
    <3> SUFFICES ASSUME NEW e \in wire, e.seq \in delivered'
                 PROVE  /\ dedup'.lastPkt # NoTime /\ e.sent <= dedup'.lastPkt
                        /\ Remembers(dedup', e.seq)
      BY <2>1 DEF RememberedInv, Remembers
    <3>1. e.sent <= now
      BY DEF IInv, WireInv
    <3>2. Remembers(dedup', e.seq)
      BY <2>1, <2>3
    <3> QED BY <3>1, <3>2, <2>2, <2>3 DEF NoTime
  <2> QED BY <2>4, <2>6, <2>7, <2>8, <2>9 DEF IInv, WindowOK, SeenOK
<1>3. ASSUME NEW c \in wire, Lose(c)
      PROVE  IInv'
  BY <1>3 DEF Lose, IInv, TypeOK, WireInv, DeliveredInv, RememberedInv,
              WindowOK, SeenOK, Remembers
<1>4. CASE Tick
  <2>1. /\ now' = now + 1 /\ wire' \subseteq wire
        /\ \A c \in wire' : now' - c.sent <= MaxDelay
        /\ UNCHANGED <<seq, dedup, delivered, verdict>>
    BY <1>4 DEF Tick
  <2>2. now \in Nat /\ \A c \in wire : c.sent \in Nat
    BY DEF IInv, TypeOK, Copy
  <2>3. TypeOK'
    BY <2>1, <2>2 DEF IInv, TypeOK
  <2>4. WireInv'
    BY <2>1, <2>2 DEF IInv, WireInv
  <2>5. DeliveredInv'
    BY <2>1, <2>2, <1>0 DEF IInv, TypeOK, DeliveredInv, Deduplicator
  <2>6. RememberedInv' /\ WindowOK(dedup)' /\ SeenOK(dedup, delivered)'
    BY <2>1 DEF IInv, RememberedInv, Remembers, WindowOK, SeenOK
  <2> QED BY <2>3, <2>4, <2>5, <2>6 DEF IInv
<1>5. CASE UNCHANGED vars
  BY <1>5 DEF vars, IInv, TypeOK, WireInv, DeliveredInv, RememberedInv,
              WindowOK, SeenOK, Remembers
<1> QED BY <1>1, <1>2, <1>3, <1>4, <1>5 DEF Next

-----------------------------------------------------------------------------
(***************************************************************************)
(* The theorems.                                                           *)
(***************************************************************************)

(* The inductive invariant holds of every behaviour: what the window, its  *)
(* bits and the copies in flight have to do with what was delivered.       *)
THEOREM InductiveInvariant ==
  ASSUME Premise
  PROVE  Spec => []IInv
<1>1. Init => IInv
  BY InitInv
<1>2. IInv /\ [Next]_vars => IInv'
  BY NextInv
<1> QED BY <1>1, <1>2, PTL DEF Spec

(* Every variable of the link stays in its type.                           *)
THEOREM TypeCorrect ==
  ASSUME Premise
  PROVE  Spec => []TypeOK
<1>1. IInv => TypeOK
  BY DEF IInv
<1> QED BY <1>1, InductiveInvariant, PTL

(* No copy of a delivered packet is ever taken for new, for any window,    *)
(* any paths and any session that ends before the uint32 wraps.            *)
THEOREM AtMostOnceHolds ==
  ASSUME Premise
  PROVE  Spec => []AtMostOnce
<1>1. IInv => AtMostOnce
  BY ArriveLemma DEF AtMostOnce
<1> QED BY <1>1, InductiveInvariant, PTL

(* A copy is turned away only for a reason: its packet was delivered, or   *)
(* is a whole window behind a packet that was.                             *)
THEOREM NoFreshLossHolds ==
  ASSUME Premise
  PROVE  Spec => []NoFreshLoss
<1>1. IInv => NoFreshLoss
  BY ArriveLemma DEF NoFreshLoss
<1> QED BY <1>1, InductiveInvariant, PTL

(* The link implements the promise of module Delivery: its initial state   *)
(* is one of Delivery, and each of its steps is a step of Delivery or      *)
(* leaves what Delivery sees alone.                                        *)
THEOREM ImplementsDelivery ==
  ASSUME Premise
  PROVE  Spec => KeepsPromise
<1>1. Init => Promise!Init
  BY DEF Init, Promise!Init, Promise!NoVerdict
<1>2. IInv /\ [Next]_vars => [Promise!Next]_<<delivered, verdict>>
  <2> SUFFICES ASSUME IInv, [Next]_vars
               PROVE  Promise!Next \/ UNCHANGED <<delivered, verdict>>
    OBVIOUS
  <2>1. ASSUME NEW c \in wire, NEW again \in BOOLEAN, Arrive(c, again)
        PROVE  Promise!Next
    <3>1. c.seq \in Packet
      BY DEF IInv, TypeOK, Copy
    <3>2. CASE IsNew(dedup, c.seq, now)
      <4>1. c.seq \notin delivered
        BY <3>2, ArriveLemma
      <4>2. /\ verdict' = [seq |-> c.seq, new |-> TRUE]
            /\ delivered' = delivered \cup {c.seq}
        BY <2>1, <3>2 DEF Arrive
      <4>3. Promise!HandOver(c.seq)
        BY <4>1, <4>2 DEF Promise!HandOver
      <4> QED BY <3>1, <4>3 DEF Promise!Next
    <3>3. CASE ~IsNew(dedup, c.seq, now)
      <4>1. c.seq \in delivered \/ \E q \in delivered : q >= c.seq + W
        BY <3>3, ArriveLemma
      <4>2. /\ verdict' = [seq |-> c.seq, new |-> FALSE]
            /\ delivered' = delivered
        BY <2>1, <3>3 DEF Arrive, IsNew
      <4>3. Promise!TurnAway(c.seq)
        BY <4>1, <4>2 DEF Promise!TurnAway
      <4> QED BY <3>1, <4>3 DEF Promise!Next
    <3> QED BY <3>2, <3>3
  <2>2. ASSUME NEW targets \in SUBSET Paths, Send(targets)
        PROVE  UNCHANGED <<delivered, verdict>>
    BY <2>2 DEF Send
  <2>3. ASSUME NEW c \in wire, Lose(c)
        PROVE  UNCHANGED <<delivered, verdict>>
    BY <2>3 DEF Lose
  <2>4. CASE Tick
    BY <2>4 DEF Tick
  <2>5. CASE UNCHANGED vars
    BY <2>5 DEF vars
  <2> QED BY <2>1, <2>2, <2>3, <2>4, <2>5 DEF Next
<1> QED BY <1>1, <1>2, InductiveInvariant, PTL DEF Spec, KeepsPromise, Promise!Spec
=============================================================================
