--------------------------- MODULE EventRingSlots ---------------------------
(***************************************************************************)
(* Where a ring keeps its messages: the arithmetic of ring.go, for every     *)
(* capacity.                                                                *)
(***************************************************************************)
EXTENDS EventRing, TLAPS

\* The slot of the i-th newest message of a ring whose next slot is h.
SlotOf(h, i) == IF i <= h THEN h - i ELSE h - i + RingCap

-----------------------------------------------------------------------------
\* Remainders of numbers below twice the divisor, all that the ring needs.
LEMMA ModBelow ==
  ASSUME NEW x \in Nat, NEW n \in Nat \ {0}, x < n
  PROVE  x % n = x
BY SMT

LEMMA ModWrap ==
  ASSUME NEW x \in Nat, NEW n \in Nat \ {0}, n <= x, x < n + n
  PROVE  x % n = x - n
BY SMT

\* The next write position of a ring.
LEMMA NextHead ==
  ASSUME NEW h \in 0 .. RingCap - 1
  PROVE  (h + 1) % RingCap = IF h + 1 = RingCap THEN 0 ELSE h + 1
<1>1. CASE h + 1 = RingCap
  BY <1>1, ModWrap, RingCapAssumption
<1>2. CASE h + 1 # RingCap
  BY <1>2, ModBelow, RingCapAssumption
<1> QED BY <1>1, <1>2

\* How the slots move when the head does: the newest message is in the slot
\* just written, every other one keeps its slot and becomes one step older.
LEMMA SlotShift ==
  ASSUME NEW h \in 0 .. RingCap - 1, NEW g \in 0 .. RingCap - 1,
         g = (h + 1) % RingCap, NEW i \in 1 .. RingCap
  PROVE  /\ i = 1 => SlotOf(g, i) = h
         /\ i # 1 => /\ SlotOf(g, i) = SlotOf(h, i - 1)
                     /\ SlotOf(h, i - 1) # h
                     /\ SlotOf(h, i - 1) \in 0 .. RingCap - 1
<1>1. g = IF h + 1 = RingCap THEN 0 ELSE h + 1
  BY NextHead
<1> QED BY <1>1, RingCapAssumption DEF SlotOf

\* The oldest message of a full ring is the one about to be overwritten.
LEMMA SlotOldest ==
  ASSUME NEW h \in 0 .. RingCap - 1
  PROVE  SlotOf(h, RingCap) = h
BY RingCapAssumption DEF SlotOf

\* The i-th slot that Since visits holds the (c + 1 - i)-th newest message.
LEMMA WalkSlot ==
  ASSUME NEW h \in 0 .. RingCap - 1, NEW c \in 0 .. RingCap, NEW i \in 1 .. c
  PROVE  (((h - c + RingCap) % RingCap) + i - 1) % RingCap = SlotOf(h, c + 1 - i)
<1> USE RingCapAssumption
<1>1. CASE c <= h
  <2>0. h - c + RingCap \in Nat /\ RingCap <= h - c + RingCap
        /\ h - c + RingCap < RingCap + RingCap
    BY <1>1
  <2>1. (h - c + RingCap) % RingCap = h - c
    <3>1. (h - c + RingCap) % RingCap = (h - c + RingCap) - RingCap
      BY <2>0, ModWrap
    <3> QED BY <3>1
  <2>2. (h - c + i - 1) % RingCap = h - c + i - 1
    BY <1>1, ModBelow
  <2> QED BY <2>1, <2>2, <1>1 DEF SlotOf
<1>2. CASE c > h
  <2>1. (h - c + RingCap) % RingCap = h - c + RingCap
    BY <1>2, ModBelow
  <2>2. CASE c + 1 - i <= h
    <3>0. h - c + RingCap + i - 1 \in Nat /\ RingCap <= h - c + RingCap + i - 1
          /\ h - c + RingCap + i - 1 < RingCap + RingCap
      BY <2>2, <1>2
    <3>1. (h - c + RingCap + i - 1) % RingCap = (h - c + RingCap + i - 1) - RingCap
      BY <3>0, ModWrap
    <3> QED BY <3>1, <2>1, <2>2 DEF SlotOf
  <2>3. CASE ~ (c + 1 - i <= h)
    <3>1. (h - c + RingCap + i - 1) % RingCap = h - c + RingCap + i - 1
      BY <2>3, <1>2, ModBelow
    <3> QED BY <3>1, <2>1, <2>3 DEF SlotOf
  <2> QED BY <2>2, <2>3
<1> QED BY <1>1, <1>2
=============================================================================
