------------------------------- MODULE Dedup -------------------------------
(***************************************************************************)
(* The sliding-window Deduplicator of the bonding protocol                 *)
(* (server/bonding/protocol.go), as operators on a record.                 *)
(*                                                                         *)
(* A deduplicator holds a bit per residue of the sequence numbers in its   *)
(* window, the window's lower end, the largest sequence number accepted    *)
(* and the time of the last call.  All sequence arithmetic is the uint32   *)
(* arithmetic of the code: it is reduced modulo SeqMod.                    *)
(***************************************************************************)
EXTENDS Integers

CONSTANTS
  W,            (* DedupeWindowSize: packets the window covers             *)
  SeqMod,       (* 2^32 in the code: sequence numbers are 0 .. SeqMod - 1  *)
  IdleTimeout   (* sessionIdleTimeout, in ticks of the clock               *)

(* sessionRestartThreshold is four windows; the idle timeout is positive   *)
(* and the window and the threshold are far below the range of a uint32.   *)
Threshold == 4 * W

ASSUME DedupAssumption ==
  /\ W \in Nat \ {0}
  /\ SeqMod \in Nat
  /\ Threshold < SeqMod
  /\ IdleTimeout \in Nat \ {0}

Seq32 == 0 .. SeqMod - 1
U32(n) == n % SeqMod

(* The zero value of time.Time: no call has been made yet.                 *)
NoTime == -1

NothingSeen == [i \in 0 .. W - 1 |-> FALSE]

Deduplicator ==
  [seen : [0 .. W - 1 -> BOOLEAN], minSeq : Seq32, maxSeen : Seq32,
   lastPkt : Int]

FreshDedup ==
  [seen |-> NothingSeen, minSeq |-> 0, maxSeen |-> 0, lastPkt |-> NoTime]

Cleared(d) ==
  [seen |-> NothingSeen, minSeq |-> 0, maxSeen |-> 0, lastPkt |-> d.lastPkt]

(***************************************************************************)
(* The two restart heuristics: silence for longer than the idle timeout,   *)
(* and a sequence number far below the largest one seen.                   *)
(***************************************************************************)

IdleGap(d, now) == d.lastPkt # NoTime /\ now - d.lastPkt > IdleTimeout

(* Wrong: a number a whole threshold behind is one further behind.         *)
SeqGapInclusive(d, seq) ==
  d.maxSeen > Threshold /\ U32(seq + Threshold) <= d.maxSeen

SeqGap(d, seq) == d.maxSeen > Threshold /\ U32(seq + Threshold) < d.maxSeen

Refreshed(d, now) ==
  [(IF IdleGap(d, now) THEN Cleared(d) ELSE d) EXCEPT !.lastPkt = now]

Restarted(d, seq, now) ==
  LET r == Refreshed(d, now) IN IF SeqGap(r, seq) THEN Cleared(r) ELSE r

(***************************************************************************)
(* The window slides up so that seq is its last member; the residues of    *)
(* the sequence numbers that leave it are forgotten.                       *)
(***************************************************************************)

PastWindow(d, seq) == seq >= U32(d.minSeq + W)

(* Wrong: the slide forgets the whole window.                              *)
SlidForgetsAll(d, seq) ==
  IF ~PastWindow(d, seq)
  THEN d
  ELSE [seen |-> NothingSeen, minSeq |-> U32(seq - W + 1),
        maxSeen |-> d.maxSeen, lastPkt |-> d.lastPkt]

(* Wrong: the slide leaves the bits of what it passes.                     *)
SlidKeepsBits(d, seq) ==
  IF ~PastWindow(d, seq)
  THEN d
  ELSE [seen |-> d.seen, minSeq |-> U32(seq - W + 1),
        maxSeen |-> d.maxSeen, lastPkt |-> d.lastPkt]

Slid(d, seq) ==
  IF ~PastWindow(d, seq)
  THEN d
  ELSE LET newMin  == U32(seq - W + 1)
           leaving == {i \in d.minSeq .. newMin - 1 : i < U32(d.minSeq + W)}
       IN [seen    |-> [k \in 0 .. W - 1 |->
                          d.seen[k] /\ \A i \in leaving : i % W # k],
           minSeq  |-> newMin,
           maxSeen |-> d.maxSeen,
           lastPkt |-> d.lastPkt]

Marked(d, seq) ==
  [seen    |-> [d.seen EXCEPT ![seq % W] = TRUE],
   minSeq  |-> d.minSeq,
   maxSeen |-> IF seq > d.maxSeen THEN seq ELSE d.maxSeen,
   lastPkt |-> d.lastPkt]

TooOld(d, seq) == seq < d.minSeq

(* What IsNew(seq) returns when called at time now.                        *)
IsNew(d, seq, now) ==
  LET r == Restarted(d, seq, now)
  IN ~TooOld(r, seq) /\ ~Slid(r, seq).seen[seq % W]

(* The deduplicator after that call.                                       *)
AfterIsNew(d, seq, now) ==
  LET r == Restarted(d, seq, now)
      s == Slid(r, seq)
  IN IF TooOld(r, seq) THEN r
     ELSE IF s.seen[seq % W] THEN s ELSE Marked(s, seq)
=============================================================================
