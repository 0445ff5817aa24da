--------------------------- MODULE CtcSyncProofs ---------------------------
(***************************************************************************)
(* Theorems about CtcSync, for frames and schedules of any size and any     *)
(* number of digits: the node and the transmitter agree on what a slot is  *)
(* for although neither hears of the other's counter, a node that loses    *)
(* the pulses halts before it leaves, and the digits of a superframe that  *)
(* was heard in full are the transmitter's slot number.                    *)
(*                                                                         *)
(* The first parts compute the link of a slot and the digits of a number,  *)
(* then come the inductive invariant of the numbering and its theorems,    *)
(* and the same for the digits.                                            *)
(***************************************************************************)
EXTENDS CtcSync, Facts

\* What the assumptions say of the frames.
LEMMA FrameFacts ==
  /\ Low \in Nat \ {0} /\ Low > 1 /\ High = 1
  /\ EbLen \in Nat \ {0} /\ AppLen \in Nat \ {0} /\ RplLen \in Nat \ {0}
  /\ Low % EbLen = 0 /\ Low % AppLen = 0 /\ Low % RplLen = 0
  /\ DlSlot0 \in 1 .. AppLen - 1
<1>1. /\ SlotframeSize \in Seq(Nat \ {0}) /\ Len(SlotframeSize) = 3
      /\ \A i \in 1 .. 3 : Low % SlotframeSize[i] = 0
      /\ Low \in Nat /\ Low > 1 /\ High = 1 /\ DlSlot0 \in 1 .. (AppLen - 1)
  BY CtcAssumption, RangeAssumption, SlotframeAssumption
<1>2. \A i \in 1 .. 3 : SlotframeSize[i] \in Nat \ {0}
  <2>1. \A i \in 1 .. Len(SlotframeSize) : SlotframeSize[i] \in Nat \ {0}
    BY SlotframeAssumption
  <2> QED  BY <1>1, <2>1
<1> QED  BY <1>1, <1>2 DEF EbLen, AppLen, RplLen

\* A link of the node lies in its slotframe, and a period of all frames is a
\* multiple of that one.
LEMMA LinkFacts ==
  ASSUME NEW l \in NodeLink
  PROVE  /\ l = [sf |-> l.sf, timeslot |-> l.timeslot]
         /\ l.sf \in 1 .. 3 /\ SizeOf(l) \in Nat \ {0} /\ Low % SizeOf(l) = 0
         /\ l.timeslot \in 0 .. SizeOf(l) - 1
<1>1. l \in [sf : 1 .. 3, timeslot : Nat] /\ l.timeslot < SizeOf(l)
  BY NodeLinkAssumption
<1>2. l.sf = 1 \/ l.sf = 2 \/ l.sf = 3
  BY <1>1
<1>3. SizeOf(l) \in Nat \ {0} /\ Low % SizeOf(l) = 0
  BY <1>2, FrameFacts DEF SizeOf, EbLen, AppLen, RplLen
<1> QED  BY <1>1, <1>3

----------------------------------------------------------------------------
(***************************************************************************)
(* The link of a slot                                                      *)
(***************************************************************************)

\* With the upper word zero, the rule for remainders of two words is the
\* ordinary one.
LEMMA RemainderOfPrevious ==
  ASSUME NEW n \in Slots, NEW s \in Nat \ {0}, Low % s = 0
  PROVE  ASN_MOD(AsnOf((n - 1) % Low), s) = (n - 1) % s
<1>1. PICK x \in 0 .. Low - 1 : x = (n - 1) % Low
  BY FrameFacts, ModRange DEF Slots
<1>2. x \div Low \in Int /\ x % Low = x
  <2>1. x \in Int /\ Low \in Nat \ {0} /\ x \in 0 .. Low - 1
    BY <1>1, FrameFacts
  <2> QED  BY <2>1, ModSmall, ModRange
<1>3. (x \div Low) % High = 0
  BY <1>2, FrameFacts
<1>4. AsnOf(x).ms1b = 0 /\ AsnOf(x).ls4b = x
  BY <1>2, <1>3 DEF AsnOf
<1>5. PICK y \in 0 .. s - 1 : y = x % s
  BY <1>1, ModRange
<1>6. PICK r \in Int : r = asn_ms1b_remainder(s)
  BY FrameFacts DEF asn_ms1b_remainder
<1>7. 0 * r = 0 /\ 0 % s = 0
  BY ModSmall
<1>8. ASN_MOD(AsnOf(x), s) = (y + 0) % s
  BY <1>4, <1>5, <1>6, <1>7 DEF ASN_MOD
<1>9. (y + 0) % s = y
  BY ModSmall
<1>10. x % s = (n - 1) % s
  <2>1. n - 1 \in Int /\ Low \in Nat \ {0}
    BY FrameFacts DEF Slots
  <2>2. ((n - 1) % Low) % s = (n - 1) % s
    BY <2>1, ModOfMod
  <2> QED  BY <1>1, <2>2
<1> QED  BY <1>1, <1>5, <1>8, <1>9, <1>10

\* The distance to a link, from the slot before: one if the link is active.
LEMMA DistanceToLink ==
  ASSUME NEW n \in Slots, NEW l \in NodeLink
  PROVE  /\ time_to_timeslot(l, AsnOf((n - 1) % Low)) \in Nat \ {0}
         /\ time_to_timeslot(l, AsnOf((n - 1) % Low)) = 1 <=> n % SizeOf(l) = l.timeslot
<1>1. PICK s \in Nat \ {0} : s = SizeOf(l) /\ Low % s = 0 /\ l.timeslot \in 0 .. s - 1
  BY LinkFacts
<1>2. PICK t \in 0 .. s - 1 : t = (n - 1) % s
  BY <1>1, ModRange DEF Slots
<1>3. ASN_MOD(AsnOf((n - 1) % Low), SizeOf(l)) = t
  BY <1>1, <1>2, RemainderOfPrevious
<1>4. time_to_timeslot(l, AsnOf((n - 1) % Low))
        = IF l.timeslot > t THEN l.timeslot - t ELSE s + l.timeslot - t
  BY <1>1, <1>3 DEF time_to_timeslot
<1>5. n % s = IF t = s - 1 THEN 0 ELSE t + 1
  <2>1. n - 1 \in Int /\ (n - 1) + 1 = n
    BY FrameFacts DEF Slots
  <2> QED  BY <1>2, <2>1, ModNext
<1> QED  BY <1>1, <1>2, <1>4, <1>5

\* The choice of the next link is well defined: a link, none of which is nearer
\* or as near in a slotframe added before.
LEMMA NextLinkChosen ==
  ASSUME NEW n \in Slots, NEW before, before = AsnOf((n - 1) % Low),
         NEW l, l = NextActiveLink(NodeLink, before)
  PROVE  /\ l \in NodeLink
         /\ \A m \in NodeLink :
              \/ time_to_timeslot(l, before) < time_to_timeslot(m, before)
              \/ /\ time_to_timeslot(l, before) = time_to_timeslot(m, before)
                 /\ l.sf <= m.sf
<1> DEFINE f == [m \in NodeLink |-> time_to_timeslot(m, before)]
           g == [m \in NodeLink |-> m.sf]
<1>1. f \in [NodeLink -> Nat]
  BY DistanceToLink
<1>2. g \in [NodeLink -> Nat]
  BY LinkFacts
<1>3. NodeLink # {}
  BY NodeLinkAssumption
<1>4. \A m \in NodeLink : f[m] = time_to_timeslot(m, before) /\ g[m] = m.sf
  OBVIOUS
<1> HIDE DEF f, g
<1>5. PICK k \in NodeLink : \A m \in NodeLink : f[k] < f[m] \/ (f[k] = f[m] /\ g[k] <= g[m])
  BY <1>1, <1>2, <1>3, LeastOf
<1>6. \A m \in NodeLink :
        \/ time_to_timeslot(k, before) < time_to_timeslot(m, before)
        \/ /\ time_to_timeslot(k, before) = time_to_timeslot(m, before)
           /\ k.sf <= m.sf
  BY <1>4, <1>5
<1> QED  BY <1>6 DEF NextActiveLink

\* A slot has a link if and only if some link is active in it, and then it is
\* the one of the slotframe that was added first.
LEMMA LinkOfSlot ==
  ASSUME NEW n \in Slots
  PROVE  /\ LinkAt(n) # None =>
              /\ LinkAt(n) \in NodeLink
              /\ n % SizeOf(LinkAt(n)) = LinkAt(n).timeslot
         /\ \A m \in NodeLink : n % SizeOf(m) = m.timeslot =>
              LinkAt(n) # None /\ LinkAt(n).sf <= m.sf
<1>1. PICK before : before = AsnOf((n - 1) % Low)
  OBVIOUS
<1>2. PICK l : l = NextActiveLink(NodeLink, before)
  OBVIOUS
<1>3. /\ l \in NodeLink
      /\ \A m \in NodeLink :
           \/ time_to_timeslot(l, before) < time_to_timeslot(m, before)
           \/ /\ time_to_timeslot(l, before) = time_to_timeslot(m, before)
              /\ l.sf <= m.sf
  BY <1>1, <1>2, NextLinkChosen
<1>4. \A m \in NodeLink :
        /\ time_to_timeslot(m, before) \in Nat \ {0}
        /\ time_to_timeslot(m, before) = 1 <=> n % SizeOf(m) = m.timeslot
  BY <1>1, DistanceToLink
<1>5. LinkAt(n) = IF time_to_timeslot(l, before) = 1 THEN l ELSE None
  BY <1>1, <1>2 DEF LinkAt
<1>6. None \notin NodeLink
  BY NoneAssumption
<1>7. ASSUME NEW m \in NodeLink, n % SizeOf(m) = m.timeslot
      PROVE  time_to_timeslot(l, before) = 1 /\ l.sf <= m.sf
  BY <1>3, <1>4, <1>7
<1> QED  BY <1>3, <1>4, <1>5, <1>6, <1>7

\* There is a link wherever the synchronisation has its slot.
LEMMA SyncSlotHasLink ==
  ASSUME NEW n \in Slots, n % EbLen = 0
  PROVE  LinkAt(n) # None
<1>1. PICK m \in NodeLink : m = [sf |-> 1, timeslot |-> 0]
  BY NodeLinkAssumption
<1>2. n % SizeOf(m) = m.timeslot
  BY <1>1 DEF SizeOf, EbLen
<1> QED  BY <1>1, <1>2, LinkOfSlot

\* The slot for commands has its own link, unless it coincides with a slot of
\* the synchronisation.
LEMMA CommandSlotHasLink ==
  ASSUME NEW n \in Slots, n % EbLen # 0, n % AppLen = DlSlot0
  PROVE  LinkAt(n) = [sf |-> 2, timeslot |-> DlSlot0]
<1>1. PICK m \in NodeLink : m = [sf |-> 2, timeslot |-> DlSlot0]
  BY NodeLinkAssumption
<1>2. n % SizeOf(m) = m.timeslot
  BY <1>1 DEF SizeOf, AppLen
<1>3. PICK l \in NodeLink : l = LinkAt(n) /\ l.sf <= 2 /\ n % SizeOf(l) = l.timeslot
  BY <1>1, <1>2, LinkOfSlot
<1>4. l.sf # 1
  <2>1. SUFFICES ASSUME l.sf = 1 PROVE FALSE
    OBVIOUS
  <2>2. l.timeslot = 0
    BY <2>1, NodeLinkAssumption
  <2> QED  BY <1>3, <2>1, <2>2 DEF SizeOf, EbLen
<1>5. l.sf = 2
  BY <1>3, <1>4, LinkFacts
<1>6. l.timeslot = DlSlot0
  BY <1>3, <1>5 DEF SizeOf, AppLen
<1> QED  BY <1>3, <1>5, <1>6, LinkFacts

----------------------------------------------------------------------------
(***************************************************************************)
(* Digits                                                                  *)
(***************************************************************************)

\* The numbers of digits and bases.
LEMMA DigitConstants ==
  /\ CTC_SYNC_PERIOD \in Nat /\ CTC_SYNC_PERIOD > 1
  /\ Base \in Nat /\ Base > 1
BY CtcAssumption DEF Base

\* The powers of the base.
LEMMA PowerFacts ==
  /\ Power \in [0 .. CTC_SYNC_PERIOD - 1 -> Nat \ {0}]
  /\ Power[0] = 1
  /\ \A k \in 1 .. CTC_SYNC_PERIOD - 1 : Power[k] = Power[k - 1] * Base
<1> DEFINE X == Nat \ {0}
           n == CTC_SYNC_PERIOD - 1
           s == [y \in X |-> y * Base]
           Def(f) == f = [k \in 0 .. (CTC_SYNC_PERIOD - 1) |-> IF k = 0 THEN 1 ELSE f[k - 1] * Base]
<1>1. n \in Nat /\ 1 \in X /\ s \in [X -> X]
  BY DigitConstants
<1>2. PICK f : Iterates(f, X, 1, s, n)
  <2> HIDE DEF s, n, X
  <2> QED  BY <1>1, IterationExists
<1>a. f \in [0 .. n -> X] /\ f[0] = 1 /\ \A i \in 1 .. n : f[i] = s[f[i - 1]]
  BY <1>2 DEF Iterates
<1>3. Def(f)
  <2>1. \A k \in 0 .. n : f[k] = IF k = 0 THEN 1 ELSE f[k - 1] * Base
    <3> SUFFICES ASSUME NEW k \in 0 .. n, k # 0
                 PROVE  f[k] = f[k - 1] * Base
      BY <1>a
    <3>1. k \in 1 .. n /\ k - 1 \in 0 .. n
      BY <1>1
    <3>2. f[k] = s[f[k - 1]] /\ f[k - 1] \in X
      BY <1>a, <3>1
    <3> QED  BY <3>2
  <2>2. DOMAIN f = 0 .. n /\ f = [k \in 0 .. n |-> f[k]]
    BY <1>a
  <2> QED  BY <2>1, <2>2
<1>4. Power = CHOOSE g : Def(g)
  BY DEF Power
<1>5. Def(Power)
  <2> HIDE DEF Def
  <2> QED  BY <1>3, <1>4
<1>6. PICK h : h = Power
  OBVIOUS
<1>7. /\ DOMAIN h = 0 .. n
      /\ h[0] = 1 /\ \A k \in 1 .. n : h[k] = h[k - 1] * Base
  <2>1. Def(h)
    BY <1>5, <1>6
  <2> DEFINE e == [k \in 0 .. n |-> IF k = 0 THEN 1 ELSE h[k - 1] * Base]
  <2>2. h = e
    BY <2>1
  <2>3. DOMAIN e = 0 .. n /\ \A k \in 0 .. n : e[k] = IF k = 0 THEN 1 ELSE h[k - 1] * Base
    OBVIOUS
  <2> HIDE DEF e
  <2>4. DOMAIN h = 0 .. n /\ \A k \in 0 .. n : h[k] = IF k = 0 THEN 1 ELSE h[k - 1] * Base
    BY <2>2, <2>3
  <2>5. 0 \in 0 .. n /\ \A k \in 1 .. n : k \in 0 .. n /\ k # 0
    BY <1>1
  <2> QED  BY <2>4, <2>5
<1>8. \A k \in 0 .. n : h[k] \in X
  <2> DEFINE T == {k \in Nat : k <= n => h[k] \in X}
  <2>1. 0 \in T
    BY <1>7
  <2>2. ASSUME NEW k \in T
        PROVE  k + 1 \in T
    <3> SUFFICES ASSUME k + 1 <= n
                 PROVE  h[k + 1] \in X
      OBVIOUS
    <3>1. k \in Nat /\ k + 1 \in 1 .. n /\ h[k] \in X /\ (k + 1) - 1 = k
      BY <1>1
    <3>2. h[k + 1] = h[(k + 1) - 1] * Base
      BY <1>7, <3>1
    <3>3. h[k] * Base \in X
      BY <3>1, DigitConstants
    <3> QED  BY <3>1, <3>2, <3>3
  <2> HIDE DEF T
  <2>3. T = Nat
    <3>1. T \in SUBSET Nat
      BY DEF T
    <3> QED  BY <2>1, <2>2, <3>1, NatSetInduction
  <2> QED  BY <1>1, <2>3 DEF T
<1>9. h = [k \in 0 .. n |-> h[k]]
  BY <1>5, <1>6, <1>7
<1> QED  BY <1>6, <1>7, <1>8, <1>9

\* The powers grow.
LEMMA PowerGrows ==
  ASSUME NEW k \in 0 .. CTC_SYNC_PERIOD - 1
  PROVE  Power[k] <= Power[CTC_SYNC_PERIOD - 1]
<1> DEFINE n == CTC_SYNC_PERIOD - 1
           T == {m \in Nat : k + m <= n => Power[k] <= Power[k + m]}
<1>1. n \in Nat /\ k \in Nat /\ k <= n /\ Base \in Nat /\ Base > 1
  BY DigitConstants
<1>2. /\ \A i \in 0 .. n : Power[i] \in Nat \ {0}
      /\ \A i \in 1 .. n : Power[i] = Power[i - 1] * Base
  BY PowerFacts
<1>3. 0 \in T
  BY <1>1, <1>2
<1>4. ASSUME NEW m \in T
      PROVE  m + 1 \in T
  <2> SUFFICES ASSUME k + (m + 1) <= n
               PROVE  Power[k] <= Power[k + (m + 1)]
    OBVIOUS
  <2>1. m \in Nat /\ k + m \in 0 .. n /\ k + (m + 1) \in 1 .. n /\ (k + (m + 1)) - 1 = k + m
    BY <1>1
  <2>2. PICK p \in Nat : p = Power[k + m] /\ Power[k] <= p
    BY <1>2, <2>1
  <2>3. Power[k + (m + 1)] = p * Base
    BY <1>2, <2>1, <2>2
  <2>4. p <= p * Base
    BY <1>1
  <2>5. Power[k] \in Nat /\ p * Base \in Nat
    BY <1>1, <1>2
  <2> QED  BY <2>2, <2>3, <2>4, <2>5
<1> HIDE DEF T
<1>5. T = Nat
  <2>1. T \in SUBSET Nat
    BY DEF T
  <2> QED  BY <1>3, <1>4, <2>1, NatSetInduction
<1>6. n - k \in T /\ k + (n - k) = n
  BY <1>1, <1>5
<1> QED  BY <1>6 DEF T

\* What num2pay leaves of a number.
LEMMA AfterFacts ==
  ASSUME NEW num \in Nat
  PROVE  /\ \A k \in 0 .. CTC_SYNC_PERIOD - 1 : num_after(num)[k] \in Nat
         /\ num_after(num)[0] = num
         /\ \A k \in 1 .. CTC_SYNC_PERIOD - 1 :
              num_after(num)[k] = num_after(num)[k - 1] \div Base
<1> DEFINE n == CTC_SYNC_PERIOD - 1
           s == [y \in Nat |-> y \div Base]
           Def(f) == f = [ii \in 0 .. (CTC_SYNC_PERIOD - 1) |->
                            IF ii = 0 THEN num ELSE f[ii - 1] \div Base]
<1>1. n \in Nat /\ s \in [Nat -> Nat]
  <2>1. \A y \in Nat : y \div Base \in 0 .. y
    BY DigitConstants, QuotientRange
  <2> QED  BY <2>1, DigitConstants
<1>2. PICK f : Iterates(f, Nat, num, s, n)
  <2> HIDE DEF s, n
  <2> QED  BY <1>1, IterationExists
<1>3. f \in [0 .. n -> Nat] /\ f[0] = num /\ \A i \in 1 .. n : f[i] = s[f[i - 1]]
  BY <1>2 DEF Iterates
<1>4. \A k \in 1 .. n : f[k - 1] \in Nat /\ f[k] = f[k - 1] \div Base
  <2> SUFFICES ASSUME NEW k \in 1 .. n
               PROVE  f[k - 1] \in Nat /\ f[k] = f[k - 1] \div Base
    OBVIOUS
  <2>1. k - 1 \in 0 .. n
    BY <1>1
  <2>2. PICK y \in Nat : y = f[k - 1]
    BY <1>3, <2>1
  <2>3. f[k] = s[y]
    BY <1>3, <2>2
  <2>4. s[y] = y \div Base
    OBVIOUS
  <2> QED  BY <2>2, <2>3, <2>4
<1>5. Def(f)
  <2>1. \A k \in 0 .. n : f[k] = IF k = 0 THEN num ELSE f[k - 1] \div Base
    BY <1>1, <1>3, <1>4
  <2>2. DOMAIN f = 0 .. n /\ f = [k \in 0 .. n |-> f[k]]
    BY <1>3
  <2> QED  BY <2>1, <2>2
<1>6. num_after(num) = CHOOSE g : Def(g)
  BY DEF num_after
<1>7. Def(num_after(num))
  <2> HIDE DEF Def
  <2> QED  BY <1>5, <1>6
<1>8. PICK h : h = num_after(num)
  OBVIOUS
<1>9. /\ DOMAIN h = 0 .. n /\ h[0] = num
      /\ \A k \in 1 .. n : h[k] = h[k - 1] \div Base
  <2>1. Def(h)
    BY <1>7, <1>8
  <2> DEFINE e == [k \in 0 .. n |-> IF k = 0 THEN num ELSE h[k - 1] \div Base]
  <2>2. h = e
    BY <2>1
  <2>3. DOMAIN e = 0 .. n /\ \A k \in 0 .. n : e[k] = IF k = 0 THEN num ELSE h[k - 1] \div Base
    OBVIOUS
  <2> HIDE DEF e
  <2>4. DOMAIN h = 0 .. n /\ \A k \in 0 .. n : h[k] = IF k = 0 THEN num ELSE h[k - 1] \div Base
    BY <2>2, <2>3
  <2>5. 0 \in 0 .. n /\ \A k \in 1 .. n : k \in 0 .. n /\ k # 0
    BY <1>1
  <2> QED  BY <2>4, <2>5
<1>10. \A k \in 0 .. n : h[k] \in Nat
  <2> DEFINE T == {k \in Nat : k <= n => h[k] \in Nat}
  <2>1. 0 \in T
    BY <1>9
  <2>2. ASSUME NEW k \in T
        PROVE  k + 1 \in T
    <3> SUFFICES ASSUME k + 1 <= n
                 PROVE  h[k + 1] \in Nat
      OBVIOUS
    <3>1. k \in Nat /\ k + 1 \in 1 .. n /\ h[k] \in Nat /\ (k + 1) - 1 = k
      BY <1>1
    <3>2. h[k + 1] = h[k] \div Base
      BY <1>9, <3>1
    <3>3. h[k] \div Base \in Nat
      BY <3>1, DigitConstants, QuotientRange
    <3> QED  BY <3>2, <3>3
  <2> HIDE DEF T
  <2>3. T = Nat
    <3>1. T \in SUBSET Nat
      BY DEF T
    <3> QED  BY <2>1, <2>2, <3>1, NatSetInduction
  <2> QED  BY <1>1, <2>3 DEF T
<1> QED  BY <1>8, <1>9, <1>10

----------------------------------------------------------------------------
(***************************************************************************)
(* Counting                                                                *)
(***************************************************************************)

\* A count of slots advances remainders and distances by one.
LEMMA CountedSlot ==
  ASSUME NEW c \in Slots, NEW l \in Slots, NEW d, d = (c + 1) % Low
  PROVE  /\ d \in Slots
         /\ (d - 1) % EbLen = c % EbLen
         /\ (d - l) % Low \in 0 .. ((c - l) % Low) + 1
         /\ (d - c) % Low = 1
<1>1. Low \in Nat \ {0} /\ Low > 1 /\ EbLen \in Nat \ {0} /\ Low % EbLen = 0
      /\ c \in Int /\ l \in Int
  BY FrameFacts DEF Slots
<1>2. d \in Slots
  BY <1>1, ModRange DEF Slots
<1>3. (d - 1) % EbLen = c % EbLen
  <2>1. (((c + 1) % Low) + (0 - 1)) % Low = ((c + 1) + (0 - 1)) % Low
    <3>1. c + 1 \in Int /\ 0 - 1 \in Int /\ Low \in Nat \ {0}
      BY <1>1
    <3>2. ASSUME NEW a \in Int, NEW b \in Int
          PROVE  ((a % Low) + b) % Low = (a + b) % Low
      BY <3>1, ModAdd
    <3> QED  BY <3>1, <3>2
  <2>2. d - 1 = ((c + 1) % Low) + (0 - 1) /\ (c + 1) + (0 - 1) = c
    BY <1>1, <1>2 DEF Slots
  <2>3. (d - 1) % Low = c % Low
    BY <2>1, <2>2
  <2>4. d - 1 \in Int
    BY <1>1, <1>2 DEF Slots
  <2>5. ((d - 1) % Low) % EbLen = (d - 1) % EbLen
    BY <1>1, <2>4, ModOfMod
  <2>6. (c % Low) % EbLen = c % EbLen
    BY <1>1, ModOfMod
  <2> QED  BY <2>3, <2>5, <2>6
<1>4. ASSUME NEW m \in Int
      PROVE  (d - m) % Low = ((c - m) + 1) % Low
  <2>1. (((c + 1) % Low) + (0 - m)) % Low = ((c + 1) + (0 - m)) % Low
    <3>1. c + 1 \in Int /\ 0 - m \in Int /\ Low \in Nat \ {0}
      BY <1>1
    <3>2. ASSUME NEW a \in Int, NEW b \in Int
          PROVE  ((a % Low) + b) % Low = (a + b) % Low
      BY <3>1, ModAdd
    <3> QED  BY <3>1, <3>2
  <2>2. d - m = ((c + 1) % Low) + (0 - m) /\ (c + 1) + (0 - m) = (c - m) + 1
    BY <1>1, <1>2 DEF Slots
  <2> QED  BY <2>1, <2>2
<1>5. (d - l) % Low \in 0 .. ((c - l) % Low) + 1
  <2>1. c - l \in Int
    BY <1>1
  <2>2. PICK r \in 0 .. Low - 1 : r = (c - l) % Low
    BY <1>1, <2>1, ModRange
  <2>3. ((c - l) + 1) % Low = IF r = Low - 1 THEN 0 ELSE r + 1
    BY <1>1, <2>1, <2>2, ModNext
  <2>4. (d - l) % Low = ((c - l) + 1) % Low
    BY <1>1, <1>4
  <2> QED  BY <2>2, <2>3, <2>4
<1>6. (d - c) % Low = 1
  <2>1. (d - c) % Low = ((c - c) + 1) % Low
    BY <1>1, <1>4
  <2>2. (c - c) + 1 = 1 /\ 1 \in 0 .. Low - 1
    BY <1>1
  <2> QED  BY <1>1, <2>1, <2>2, ModSmall
<1> QED  BY <1>2, <1>3, <1>5, <1>6

\* How far the last synchronisation may lie back before and after a slot, when
\* k pulses have gone by since.
LEMMA CountedDistance ==
  ASSUME NEW c \in Slots, NEW l \in Slots, NEW d, d = (c + 1) % Low, NEW k \in Nat,
         (c - l) % Low <= k * EbLen + ((c - 1) % EbLen) + 1
  PROVE  /\ (c - l) % Low <= (k + 1) * EbLen
         /\ (d - l) % Low <= (k + 1) * EbLen + ((d - 1) % EbLen) + 1
         /\ c % EbLen # 0 => (d - l) % Low <= k * EbLen + ((d - 1) % EbLen) + 1
<1>1. PICK e \in Nat \ {0} : e = EbLen
  BY FrameFacts
<1>2. PICK r \in 0 .. e - 1 : r = (c - 1) % EbLen
  BY <1>1, ModRange DEF Slots
<1>3. PICK x \in Int : x = (c - l) % Low /\ x <= k * e + r + 1
  BY <1>1, <1>2, FrameFacts, ModRange DEF Slots
<1>4. PICK z \in 0 .. x + 1 : z = (d - l) % Low
  BY <1>3, CountedSlot
<1>5. (d - 1) % EbLen = c % EbLen
  BY CountedSlot
<1>6. c % EbLen = IF r = e - 1 THEN 0 ELSE r + 1
  <2>1. c - 1 \in Int /\ (c - 1) + 1 = c
    BY FrameFacts DEF Slots
  <2> QED  BY <1>1, <1>2, <2>1, ModNext
<1>7. PICK m \in Int : m = k * e
  BY <1>1
<1>8. (k + 1) * e = m + e
  BY <1>1, <1>7
<1>9. x <= m + r + 1
  BY <1>3, <1>7
<1>10. x <= (k + 1) * e
  BY <1>1, <1>2, <1>8, <1>9
<1>11. (d - 1) % EbLen \in 0 .. e
  BY <1>1, <1>2, <1>5, <1>6
<1>12. z <= (k + 1) * e + ((d - 1) % EbLen) + 1
  BY <1>1, <1>2, <1>4, <1>8, <1>9, <1>11
<1>13. c % EbLen # 0 => z <= m + ((d - 1) % EbLen) + 1
  BY <1>1, <1>2, <1>4, <1>5, <1>6, <1>9
<1> QED  BY <1>1, <1>3, <1>4, <1>7, <1>10, <1>12, <1>13

----------------------------------------------------------------------------
(***************************************************************************)
(* The invariant                                                           *)
(***************************************************************************)

\* The transmitter's two countdowns.
TxInv ==
    /\ phase = "measure" => elapsed <= MeasureSlots
    /\ phase = "pause" => elapsed <= PauseSlots

\* The node's.
NodeInv ==
    /\ pc = "quiet" => silent < QuietSlots
    /\ pc # "halted" => cnt_miss < MissLimit
    /\ pc = "slots" =>
         /\ silent <= FirstSlip
         /\ start \in [phase : {"measure", "pause", "frames"}, asn : Slots]

\* The numbering that began at a pulse of the frames is the transmitter's, moved
\* by a multiple of the first slotframe, once the uncounted slots have passed.
OriginInv ==
    pc = "slots" /\ start.phase = "frames" =>
        /\ phase = "frames" /\ start.asn % EbLen = 0
        /\ asn = (start.asn + current_asn - silent) % Low

\* The last synchronisation is as many slotframes old as pulses were missed or
\* skipped, and a part of one.
DistanceInv ==
    pc = "slots" =>
        (current_asn - last_sync_asn) % Low
            <= (skipped + cnt_miss) * EbLen + ((current_asn - 1) % EbLen) + 1

IInv == TypeOK /\ TxInv /\ NodeInv /\ OriginInv /\ DistanceInv

\* The transmitter keeps its types and, once it sends frames, counts slots.
LEMMA TransmitStep ==
  ASSUME TypeOK, TxInv, Transmit
  PROVE  /\ encoding' \in Encodings
         /\ phase' \in {"measure", "pause", "frames"}
         /\ elapsed' \in 0 .. MeasureSlots \cup 0 .. PauseSlots
         /\ asn' \in Slots
         /\ payload' \in 0 .. Low
         /\ TxInv'
         /\ phase = "frames" => phase' = "frames" /\ asn' = (asn + 1) % Low
<1>1. MeasureSlots \in Nat /\ PauseSlots \in Nat
  BY CtcAssumption
<1>2. CASE phase = "measure"
  BY <1>1, <1>2 DEF Transmit, TypeOK, TxInv
<1>3. CASE phase = "pause"
  BY <1>1, <1>3 DEF Transmit, TypeOK, TxInv
<1>4. CASE phase = "frames"
  <2>1. /\ phase' = "frames" /\ elapsed' = elapsed /\ encoding' = encoding
        /\ asn' = (asn + 1) % Low
        /\ payload' = payload \/ payload' = NextPayload
    BY <1>4 DEF Transmit
  <2>2. asn' \in Slots
    BY <2>1, FrameFacts, ModRange DEF Slots, TypeOK
  <2>3. NextPayload \in 0 .. Low
    <3>1. PICK a \in 0 .. Low - 1 : a = asn
      BY DEF Slots, TypeOK
    <3>2. PICK q \in 0 .. a : q = fr_num
      <4>1. a \in Nat /\ EbLen \in Nat \ {0}
        BY <3>1, FrameFacts
      <4>2. a \div EbLen \in 0 .. a
        BY <4>1, QuotientRange
      <4> QED  BY <3>1, <4>2 DEF fr_num
    <3>3. q \div CTC_SYNC_PERIOD \in 0 .. q
      BY <3>2, CtcAssumption, QuotientRange
    <3> QED  BY <3>1, <3>2, <3>3, FrameFacts DEF NextPayload
  <2> QED  BY <1>4, <2>1, <2>2, <2>3 DEF TypeOK, TxInv
<1> QED  BY <1>2, <1>3, <1>4 DEF TypeOK

\* What the node receives is a code, and one of the synchronisation only when
\* the transmitter sends one.
LEMMA ReceivedFacts ==
  ASSUME TypeOK, NEW code \in Received
  PROVE  /\ code \in Int
         /\ IsSync(code) /\ phase = "frames" => asn % EbLen = 0
<1>1. Base \in Nat \ {0} /\ MinCode \in Int /\ Bell \in Int /\ MinCode > 5
  BY CtcAssumption DEF Base, MinCode, Bell, AppCode
<1>2. \A k \in 0 .. CTC_SYNC_PERIOD - 1 : Digit(payload, k) \in Int
  <2>1. SUFFICES ASSUME NEW k \in 0 .. CTC_SYNC_PERIOD - 1 PROVE Digit(payload, k) \in Int
    OBVIOUS
  <2>2. CTC_SYNC_PERIOD - 1 - k \in 0 .. CTC_SYNC_PERIOD - 1
    BY <2>1, CtcAssumption
  <2>3. payload \in Nat
    BY FrameFacts DEF TypeOK
  <2>4. PICK y \in Nat : y = num_after(payload)[CTC_SYNC_PERIOD - 1 - k]
    BY <2>2, <2>3, AfterFacts
  <2>5. y % Base \in Int
    BY <1>1, <2>4
  <2> QED  BY <2>4, <2>5 DEF Digit
<1>3. Pulse \in Int /\ (phase = "frames" /\ asn % EbLen # 0 => Pulse <= 5)
  <2>1. CASE phase = "measure"
    BY <1>1, <2>1 DEF Pulse
  <2>2. CASE phase = "frames" /\ FrameOf(asn) = "sync"
    <3>1. fr_num % CTC_SYNC_PERIOD \in 0 .. CTC_SYNC_PERIOD - 1
      <4>1. asn \in Int /\ EbLen \in Nat \ {0}
        BY FrameFacts DEF TypeOK, Slots
      <4>2. asn \div EbLen \in Int
        BY <4>1, ModRange
      <4>3. CTC_SYNC_PERIOD \in Nat \ {0}
        BY CtcAssumption
      <4> QED  BY <4>2, <4>3, ModRange DEF fr_num
    <3>2. asn % EbLen = 0
      BY <2>2 DEF FrameOf
    <3> QED  BY <1>1, <1>2, <2>2, <3>1, <3>2 DEF Pulse
  <2>3. CASE phase = "frames" /\ FrameOf(asn) = "app"
    BY <2>3 DEF Pulse, AppCode
  <2>4. CASE phase # "measure" /\ ~(phase = "frames" /\ FrameOf(asn) \in {"sync", "app"})
    BY <2>4 DEF Pulse, Silence
  <2> QED  BY <2>1, <2>2, <2>3, <2>4
<1>4. code = Pulse \/ code = -1 \/ code = 0
  BY DEF Received, Silence, Blurry
<1>5. code \in Int
  BY <1>3, <1>4
<1> QED  BY <1>1, <1>3, <1>4, <1>5 DEF IsSync

\* ctc_sync keeps its accumulator in range, and the ghost with it.
LEMMA SyncTypes ==
  ASSUME TypeOK, NEW code \in Received
  PROVE  /\ IndexAfter(code) \in 0 .. IndexRange - 1
         /\ DigitsAfter(code) \in 0 .. CTC_SYNC_PERIOD - 1 \cup {None}
<1>1. /\ Base \in Int /\ MinCode \in Int /\ IndexRange \in Nat \ {0}
      /\ CTC_SYNC_PERIOD \in Nat /\ CTC_SYNC_PERIOD > 1
  BY CtcAssumption DEF Base, MinCode
<1>2. sync_index \in 0 .. IndexRange - 1 /\ digits \in 0 .. CTC_SYNC_PERIOD - 1 \cup {None}
  BY DEF TypeOK
<1>3. code \in Int
  BY ReceivedFacts
<1>4. IndexAfter(code) \in 0 .. IndexRange - 1
  <2>1. sync_index * Base + code - MinCode \in Int
    BY <1>1, <1>2, <1>3
  <2>2. (sync_index * Base + code - MinCode) % IndexRange \in 0 .. IndexRange - 1
    BY <1>1, <2>1, ModRange
  <2> QED  BY <1>1, <1>2, <2>2 DEF IndexAfter
<1>5. DigitsAfter(code) \in 0 .. CTC_SYNC_PERIOD - 1 \cup {None}
  BY <1>1, <1>2 DEF DigitsAfter
<1> QED  BY <1>4, <1>5

\* The invariant holds at the start.
LEMMA InitInv == Init => IInv
<1>1. SUFFICES ASSUME Init PROVE IInv
  OBVIOUS
<1>2. /\ MeasureSlots \in Nat /\ PauseSlots \in Nat /\ QuietSlots \in Nat
      /\ FirstSlip \in Nat /\ IndexRange \in Nat \ {0} /\ MissLimit \in Nat \ {0}
      /\ CTC_SYNC_PERIOD \in Nat
  BY CtcAssumption, SlipAssumption
<1>3. TypeOK
  BY <1>1, <1>2, FrameFacts DEF Init, TypeOK, Slots
<1>4. TxInv /\ NodeInv /\ OriginInv /\ DistanceInv
  BY <1>1, <1>2 DEF Init, TxInv, NodeInv, OriginInv, DistanceInv
<1> QED  BY <1>3, <1>4 DEF IInv

\* Before its first slot the node depends on the transmitter for nothing.
LEMMA StartingStep ==
  ASSUME IInv, Starting
  PROVE  IInv'
<1>1. TypeOK /\ TxInv /\ NodeInv /\ OriginInv /\ DistanceInv
  BY DEF IInv
<1>2. /\ MissLimit \in Nat \ {0} /\ QuietSlots \in Nat \ {0}
      /\ FirstAsn \in Nat /\ FirstSlip = FirstAsn /\ FirstAsn + 1 < Low /\ Low \in Nat
  BY CtcAssumption, SlipAssumption, FrameFacts
<1>3. Transmit
  BY DEF Starting, FindThreshold, DefaultThreshold, KeepWaiting, AwaitQuiet, Listen
<1>4. /\ encoding' \in Encodings
      /\ phase' \in {"measure", "pause", "frames"}
      /\ elapsed' \in 0 .. MeasureSlots \cup 0 .. PauseSlots
      /\ asn' \in Slots
      /\ payload' \in 0 .. Low
      /\ TxInv'
      /\ phase = "frames" => phase' = "frames" /\ asn' = (asn + 1) % Low
  BY <1>1, <1>3, TransmitStep
<1>5. CASE FindThreshold
  <2>1. TypeOK'
    BY <1>1, <1>2, <1>4, <1>5 DEF FindThreshold, TypeOK, ghostVars
  <2>2. NodeInv' /\ OriginInv' /\ DistanceInv'
    BY <1>1, <1>2, <1>5 DEF FindThreshold, NodeInv, OriginInv, DistanceInv
  <2> QED  BY <1>4, <2>1, <2>2 DEF IInv
<1>6. CASE DefaultThreshold
  <2>1. TypeOK'
    BY <1>1, <1>4, <1>6 DEF DefaultThreshold, TypeOK, ghostVars
  <2>2. NodeInv' /\ OriginInv' /\ DistanceInv'
    BY <1>1, <1>6 DEF DefaultThreshold, NodeInv, OriginInv, DistanceInv
  <2> QED  BY <1>4, <2>1, <2>2 DEF IInv
<1>7. CASE KeepWaiting
  <2>1. TypeOK'
    BY <1>1, <1>4, <1>7 DEF KeepWaiting, TypeOK, ghostVars, nodeVars
  <2>2. NodeInv' /\ OriginInv' /\ DistanceInv'
    BY <1>1, <1>7 DEF KeepWaiting, NodeInv, OriginInv, DistanceInv, nodeVars
  <2> QED  BY <1>4, <2>1, <2>2 DEF IInv
<1>8. ASSUME NEW code \in Received, AwaitQuiet(code)
      PROVE  IInv'
  <2>1. pc = "quiet" /\ silent < QuietSlots /\ silent \in Nat
    BY <1>1, <1>2, <1>8 DEF AwaitQuiet, NodeInv, TypeOK
  <2>2. /\ silent' \in 0 .. QuietSlots
        /\ pc' = "listen" \/ (pc' = "quiet" /\ silent' # QuietSlots)
    BY <1>2, <1>8, <2>1 DEF AwaitQuiet
  <2>3. TypeOK'
    BY <1>1, <1>4, <1>8, <2>2 DEF AwaitQuiet, TypeOK, ghostVars
  <2>4. NodeInv' /\ OriginInv' /\ DistanceInv'
    BY <1>1, <1>2, <1>8, <2>1, <2>2 DEF AwaitQuiet, NodeInv, OriginInv, DistanceInv
  <2> QED  BY <1>4, <2>3, <2>4 DEF IInv
<1>9. ASSUME NEW code \in Received, Listen(code), ~IsSync(code)
      PROVE  IInv'
  <2>1. TypeOK'
    BY <1>1, <1>4, <1>9, SyncTypes DEF Listen, TypeOK
  <2>2. NodeInv' /\ OriginInv' /\ DistanceInv'
    BY <1>1, <1>9 DEF Listen, NodeInv, OriginInv, DistanceInv
  <2> QED  BY <1>4, <2>1, <2>2 DEF IInv
<1>10. ASSUME NEW code \in Received, Listen(code), IsSync(code)
       PROVE  IInv'
  <2>1. /\ pc = "listen" /\ pc' = "slots" /\ silent' = FirstSlip
        /\ current_asn' = FirstAsn + 1 /\ last_sync_asn' = FirstAsn
        /\ start' = [phase |-> phase, asn |-> asn] /\ skipped' = 0 /\ cnt_miss' = cnt_miss
        /\ sync_index' = IndexAfter(code) /\ digits' = DigitsAfter(code)
    BY <1>10 DEF Listen
  <2>2. start' \in [phase : {"measure", "pause", "frames"}, asn : Slots]
    BY <1>1, <2>1 DEF TypeOK
  <2>3. TypeOK'
    BY <1>1, <1>2, <1>4, <2>1, <2>2, SyncTypes DEF TypeOK, Slots
  <2>4. NodeInv'
    BY <1>1, <1>2, <2>1, <2>2 DEF NodeInv
  <2>5. OriginInv'
    <3>1. SUFFICES ASSUME phase = "frames" PROVE OriginInv'
      BY <2>1 DEF OriginInv
    <3>2. asn % EbLen = 0
      BY <1>1, <1>10, <3>1, ReceivedFacts
    <3>3. asn + (FirstAsn + 1) - FirstSlip = asn + 1
      BY <1>1, <1>2 DEF TypeOK, Slots
    <3> QED  BY <1>4, <2>1, <3>1, <3>2, <3>3 DEF OriginInv
  <2>6. DistanceInv'
    <3>1. FirstAsn \in Slots /\ FirstAsn + 1 \in 0 .. Low - 1
      BY <1>2 DEF Slots
    <3>2. (FirstAsn + 1) - FirstAsn = 1 /\ 1 % Low = 1
      BY <1>2, ModSmall
    <3>3. PICK r \in Nat : r = ((FirstAsn + 1) - 1) % EbLen
      BY <1>2, FrameFacts, ModRange
    <3>4. (0 + cnt_miss) * EbLen \in Nat
      BY <1>1, FrameFacts DEF TypeOK
    <3> QED  BY <2>1, <3>2, <3>3, <3>4 DEF DistanceInv
  <2> QED  BY <1>4, <2>3, <2>4, <2>5, <2>6 DEF IInv
<1> QED  BY <1>5, <1>6, <1>7, <1>8, <1>9, <1>10 DEF Starting

\* Counting a slot, or letting one pass while the slip lasts, keeps the offset
\* between the two numberings.
LEMMA OriginKept ==
  ASSUME IInv, pc = "slots", Transmit, start' = start,
         \/ silent > 0 /\ silent' = silent - 1 /\ current_asn' = current_asn
         \/ silent' = silent /\ CountSlot
  PROVE  OriginInv'
<1>1. SUFFICES ASSUME start.phase = "frames" PROVE OriginInv'
  BY DEF OriginInv
<1>2. TypeOK /\ TxInv /\ NodeInv /\ OriginInv
  BY DEF IInv
<1>3. /\ phase = "frames" /\ start.asn % EbLen = 0
      /\ asn = (start.asn + current_asn - silent) % Low
  BY <1>1, <1>2 DEF OriginInv
<1>4. phase' = "frames" /\ asn' = (asn + 1) % Low
  BY <1>2, <1>3, TransmitStep
<1>5. Low \in Nat \ {0} /\ start.asn \in Int /\ current_asn \in Int /\ silent \in Int
  BY <1>2, FrameFacts, CtcAssumption, SlipAssumption DEF TypeOK, NodeInv, Slots
<1>6. asn' = ((start.asn + current_asn - silent) + 1) % Low
  <2>1. start.asn + current_asn - silent \in Int
    BY <1>5
  <2>2. (((start.asn + current_asn - silent) % Low) + 1) % Low
          = ((start.asn + current_asn - silent) + 1) % Low
    BY <1>5, <2>1, ModAdd
  <2> QED  BY <1>3, <1>4, <2>2
<1>7. CASE silent > 0 /\ silent' = silent - 1 /\ current_asn' = current_asn
  <2>1. start.asn + current_asn - (silent - 1) = (start.asn + current_asn - silent) + 1
    BY <1>5
  <2> QED  BY <1>3, <1>4, <1>6, <1>7, <2>1 DEF OriginInv
<1>8. CASE silent' = silent /\ CountSlot
  <2>1. PICK a \in Int : a = current_asn + 1
    BY <1>5
  <2>2. PICK b \in Int : b = start.asn - silent
    BY <1>5
  <2>3. PICK c \in Int : c = a % Low
    <3>1. a % Low \in Int
      BY <1>5, <2>1
    <3> QED  BY <3>1
  <2>4. (c + b) % Low = (a + b) % Low
    <3>1. Low \in Nat \ {0}
      BY <1>5
    <3>2. ((a % Low) + b) % Low = (a + b) % Low
      BY <3>1, ModAdd
    <3> QED  BY <2>3, <3>2
  <2>5. start.asn + c - silent = c + b
    BY <1>5, <2>2, <2>3
  <2>6. (start.asn + current_asn - silent) + 1 = a + b
    BY <1>5, <2>1, <2>2
  <2>7. current_asn' = c
    BY <1>8, <2>1, <2>3 DEF CountSlot
  <2> QED  BY <1>3, <1>4, <1>6, <1>8, <2>4, <2>5, <2>6, <2>7 DEF OriginInv
<1> QED  BY <1>7, <1>8

\* The distance that is compared with the threshold.
LEMMA DistanceOf ==
  ASSUME NEW c \in Slots, NEW l \in Slots
  PROVE  ASN_DIFF(AsnOf(c), AsnOf(l)) = (c - l) % Low
<1>1. c % Low = c /\ l % Low = l
  BY FrameFacts, ModSmall DEF Slots
<1> QED  BY <1>1 DEF ASN_DIFF, AsnOf

\* A slot with no link, or a link for something else, is no slot of the
\* synchronisation.
LEMMA SyncSlots ==
  ASSUME NEW n \in Slots
  PROVE  (LinkAt(n) # None /\ slot_type(n) = 0) <=> n % EbLen = 0
<1>1. slot_type(n) = 0 <=> n % EbLen = 0
  BY DEF slot_type
<1> QED  BY <1>1, SyncSlotHasLink

\* The node in its slots.
LEMMA RunningStep ==
  ASSUME IInv, Running
  PROVE  IInv'
<1>1. TypeOK /\ TxInv /\ NodeInv /\ OriginInv /\ DistanceInv
  BY DEF IInv
<1>2. /\ MissLimit \in Nat \ {0} /\ QuietSlots \in Nat \ {0} /\ FirstSlip \in Nat
      /\ Low \in Nat /\ Low > 1 /\ EbLen \in Nat \ {0} /\ skipped \in Nat
      /\ cnt_miss \in Nat /\ current_asn \in Slots /\ last_sync_asn \in Slots
  BY <1>1, CtcAssumption, SlipAssumption, FrameFacts DEF TypeOK
<1>3. Transmit
  BY DEF Running, Slip, SkipSync, OtherSlot, Halted, KeepSync
<1>4. /\ encoding' \in Encodings
      /\ phase' \in {"measure", "pause", "frames"}
      /\ elapsed' \in 0 .. MeasureSlots \cup 0 .. PauseSlots
      /\ asn' \in Slots
      /\ payload' \in 0 .. Low
      /\ TxInv'
  BY <1>1, <1>3, TransmitStep
<1>5. PICK d \in Slots : d = (current_asn + 1) % Low
  BY <1>2, CountedSlot
<1>6. PICK k \in Nat : k = skipped + cnt_miss
  BY <1>2
<1>7. CASE Halted
  <2>1. TypeOK'
    BY <1>1, <1>4, <1>7 DEF Halted, TypeOK, nodeVars, ghostVars
  <2>2. NodeInv' /\ OriginInv' /\ DistanceInv'
    BY <1>1, <1>7 DEF Halted, NodeInv, OriginInv, DistanceInv, nodeVars, ghostVars
  <2> QED  BY <1>4, <2>1, <2>2 DEF IInv
<1>8. CASE Slip
  <2>1. silent' \in 0 .. FirstSlip
    BY <1>1, <1>2, <1>8 DEF Slip, NodeInv, TypeOK
  <2>2. TypeOK'
    BY <1>1, <1>4, <1>8, <2>1 DEF Slip, TypeOK, ghostVars
  <2>3. NodeInv' /\ DistanceInv'
    BY <1>1, <1>2, <1>8, <2>1 DEF Slip, NodeInv, DistanceInv, ghostVars
  <2>4. OriginInv'
    BY <1>3, <1>8, OriginKept DEF Slip, ghostVars
  <2> QED  BY <1>4, <2>2, <2>3, <2>4 DEF IInv
<1>9. ASSUME Awake, silent' = silent, start' = start
      PROVE  /\ pc' = "slots" /\ CountSlot => OriginInv'
             /\ pc' # "slots" => OriginInv' /\ DistanceInv'
  <2>1. pc' = "slots" /\ CountSlot => OriginInv'
    BY <1>3, <1>9, OriginKept DEF Awake
  <2>2. pc' # "slots" => OriginInv' /\ DistanceInv'
    BY DEF OriginInv, DistanceInv
  <2> QED  BY <2>1, <2>2
<1>10. ASSUME pc = "slots"
       PROVE  /\ current_asn % EbLen # 0 =>
                   (d - last_sync_asn) % Low <= k * EbLen + ((d - 1) % EbLen) + 1
              /\ (d - last_sync_asn) % Low <= (k + 1) * EbLen + ((d - 1) % EbLen) + 1
  <2>1. (current_asn - last_sync_asn) % Low <= k * EbLen + ((current_asn - 1) % EbLen) + 1
    BY <1>1, <1>6, <1>10 DEF DistanceInv
  <2>2. current_asn \in Slots /\ last_sync_asn \in Slots
    BY <1>2
  <2> QED  BY <1>5, <2>1, <2>2, CountedDistance
<1>11. 0 \in Slots
  BY <1>2 DEF Slots
<1>12. CASE OtherSlot
  <2>1. /\ Awake /\ silent' = silent /\ last_sync_asn' = last_sync_asn
        /\ sync_index' = sync_index /\ cnt_miss' = cnt_miss
        /\ start' = start /\ digits' = digits /\ skipped' = skipped
        /\ \/ pc' = "init" /\ current_asn' = 0
           \/ pc' = "slots" /\ CountSlot
    BY <1>12 DEF OtherSlot, LeaveOrCount, Awake, ghostVars
  <2>2. current_asn' \in Slots
    BY <1>5, <1>11, <2>1 DEF CountSlot
  <2>3. TypeOK'
    BY <1>1, <1>4, <2>1, <2>2 DEF TypeOK
  <2>4. NodeInv'
    BY <1>1, <2>1 DEF NodeInv, Awake
  <2>5. current_asn % EbLen # 0
    BY <1>2, <1>12, SyncSlots DEF OtherSlot
  <2>6. DistanceInv'
    BY <1>5, <1>6, <1>10, <2>1, <2>5 DEF DistanceInv, CountSlot, Awake
  <2>7. OriginInv'
    BY <1>9, <2>1
  <2> QED  BY <1>4, <2>3, <2>4, <2>6, <2>7 DEF IInv
<1>13. CASE SkipSync
  <2>1. /\ Awake /\ silent' = silent /\ last_sync_asn' = last_sync_asn
        /\ sync_index' = sync_index /\ cnt_miss' = cnt_miss
        /\ start' = start /\ digits' = None /\ skipped' = skipped + 1
        /\ \/ pc' = "init" /\ current_asn' = 0
           \/ pc' = "slots" /\ CountSlot
    BY <1>13 DEF SkipSync, LeaveOrCount, Awake
  <2>2. current_asn' \in Slots
    BY <1>5, <1>11, <2>1 DEF CountSlot
  <2>3. TypeOK'
    BY <1>1, <1>2, <1>4, <2>1, <2>2 DEF TypeOK
  <2>4. NodeInv'
    BY <1>1, <2>1 DEF NodeInv, Awake
  <2>5. skipped' + cnt_miss' = k + 1
    BY <1>2, <1>6, <2>1
  <2>6. DistanceInv'
    BY <1>5, <1>10, <2>1, <2>5 DEF DistanceInv, CountSlot, Awake
  <2>7. OriginInv'
    BY <1>9, <2>1
  <2> QED  BY <1>4, <2>3, <2>4, <2>6, <2>7 DEF IInv
<1>14. ASSUME NEW code \in Received, KeepSync(code), code = Silence
       PROVE  IInv'
  <2>1. /\ Awake /\ silent' = silent /\ start' = start
        /\ sync_index' = IndexAfter(code) /\ digits' = DigitsAfter(code)
        /\ cnt_miss' = cnt_miss + 1 /\ last_sync_asn' = last_sync_asn /\ skipped' = skipped
        /\ \/ pc' = "halted" /\ cnt_miss' = MissLimit /\ CountSlot
           \/ pc' = "init" /\ cnt_miss' # MissLimit /\ current_asn' = 0
           \/ pc' = "slots" /\ cnt_miss' # MissLimit /\ CountSlot
    BY <1>14 DEF KeepSync, LeaveOrCount, Awake
  <2>2. cnt_miss < MissLimit
    BY <1>1, <2>1 DEF NodeInv, Awake
  <2>3. current_asn' \in Slots
    BY <1>5, <1>11, <2>1 DEF CountSlot
  <2>4. TypeOK'
    BY <1>1, <1>2, <1>4, <2>1, <2>2, <2>3, SyncTypes DEF TypeOK
  <2>5. NodeInv'
    BY <1>1, <1>2, <2>1, <2>2 DEF NodeInv, Awake
  <2>6. skipped' + cnt_miss' = k + 1
    BY <1>2, <1>6, <2>1
  <2>7. DistanceInv'
    BY <1>5, <1>10, <2>1, <2>6 DEF DistanceInv, CountSlot, Awake
  <2>8. OriginInv'
    BY <1>9, <2>1
  <2> QED  BY <1>4, <2>4, <2>5, <2>7, <2>8 DEF IInv
<1>15. ASSUME NEW code \in Received, KeepSync(code), code # Silence
       PROVE  IInv'
  <2>1. /\ Awake /\ silent' = silent /\ start' = start
        /\ sync_index' = IndexAfter(code) /\ digits' = DigitsAfter(code)
        /\ cnt_miss' = 0 /\ last_sync_asn' = current_asn /\ skipped' = 0
        /\ \/ pc' = "init" /\ current_asn' = 0
           \/ pc' = "slots" /\ CountSlot
    BY <1>15 DEF KeepSync, LeaveOrCount, Awake
  <2>2. current_asn' \in Slots
    BY <1>5, <1>11, <2>1 DEF CountSlot
  <2>3. TypeOK'
    BY <1>1, <1>2, <1>4, <2>1, <2>2, SyncTypes DEF TypeOK
  <2>4. NodeInv'
    BY <1>1, <1>2, <2>1 DEF NodeInv, Awake
  <2>5. DistanceInv'
    <3>1. (d - current_asn) % Low = 1
      BY <1>2, <1>5, CountedSlot
    <3>2. PICK r \in Nat : r = (d - 1) % EbLen
      BY <1>2, <1>5, ModRange DEF Slots
    <3>3. (0 + 0) * EbLen = 0
      BY <1>2
    <3> QED  BY <1>5, <2>1, <3>1, <3>2, <3>3 DEF DistanceInv, CountSlot
  <2>6. OriginInv'
    BY <1>9, <2>1
  <2> QED  BY <1>4, <2>3, <2>4, <2>5, <2>6 DEF IInv
<1> QED  BY <1>7, <1>8, <1>12, <1>13, <1>14, <1>15 DEF Running

----------------------------------------------------------------------------
(***************************************************************************)
(* The theorems                                                            *)
(***************************************************************************)

\* The inductive invariant holds throughout.
THEOREM Invariance == Spec => []IInv
<1>1. IInv /\ [Next]_vars => IInv'
  <2>1. SUFFICES ASSUME IInv, [Next]_vars PROVE IInv'
    OBVIOUS
  <2>2. CASE Starting
    BY <2>1, <2>2, StartingStep
  <2>3. CASE Running
    BY <2>1, <2>3, RunningStep
  <2>4. CASE UNCHANGED vars
    BY <2>1, <2>4 DEF IInv, TypeOK, TxInv, NodeInv, OriginInv, DistanceInv,
                      vars, txVars, nodeVars, ghostVars
  <2> QED  BY <2>1, <2>2, <2>3, <2>4 DEF Next
<1> QED  BY InitInv, <1>1, PTL DEF Spec

\* Every variable keeps its range: the counters of both programs and the
\* accumulator of the digits.
THEOREM TypeCorrect == Spec => []TypeOK
<1>1. IInv => TypeOK
  BY DEF IInv
<1> QED  BY Invariance, <1>1, PTL

\* What follows for one state: what the node takes a slot for is what the
\* transmitter makes of it.
LEMMA InvAgrees ==
  ASSUME IInv
  PROVE  SlotsAgree
<1>1. SUFFICES ASSUME Awake, start.phase = "frames"
               PROVE  /\ ListensForSync <=> FrameOf(asn) = "sync"
                      /\ start.asn = 0 => (ListensForCommand <=> FrameOf(asn) = "app")
  BY DEF SlotsAgree
<1>2. TypeOK /\ NodeInv /\ OriginInv
  BY DEF IInv
<1>3. /\ pc = "slots" /\ silent = 0 /\ current_asn \in Slots
      /\ start.asn \in Slots /\ start.asn % EbLen = 0
      /\ asn = (start.asn + current_asn - silent) % Low
  BY <1>1, <1>2 DEF Awake, TypeOK, NodeInv, OriginInv
<1>4. Low \in Nat \ {0} /\ EbLen \in Nat \ {0} /\ Low % EbLen = 0
  BY FrameFacts
<1>5. PICK n \in Slots : n = current_asn
  BY <1>3
<1>6. PICK b \in Slots : b = start.asn /\ b % EbLen = 0
  BY <1>3
<1>7. n \in Int /\ b \in Int
  BY <1>4 DEF Slots
<1>8. asn = (b + n) % Low
  <2>1. start.asn + current_asn - silent = b + n
    BY <1>3, <1>5, <1>6, <1>7
  <2> QED  BY <1>3, <2>1
<1>9. asn % EbLen = n % EbLen
  <2>1. b + n \in Int
    BY <1>7
  <2>2. ((b + n) % Low) % EbLen = (b + n) % EbLen
    BY <1>4, <2>1, ModOfMod
  <2>3. ((b % EbLen) + n) % EbLen = (b + n) % EbLen
    BY <1>4, <1>7, ModAdd
  <2>4. 0 + n = n
    BY <1>7
  <2> QED  BY <1>6, <1>8, <2>2, <2>3, <2>4
<1>10. ListensForSync <=> FrameOf(asn) = "sync"
  BY <1>5, <1>9, SyncSlots DEF ListensForSync, FrameOf
<1>11. ASSUME start.asn = 0
       PROVE  ListensForCommand <=> FrameOf(asn) = "app"
  <2>1. asn = n
    <3>1. b + n = n
      BY <1>6, <1>7, <1>11
    <3>2. n % Low = n
      BY <1>4, ModSmall DEF Slots
    <3> QED  BY <1>8, <3>1, <3>2
  <2>2. FrameOf(n) = "app" <=> n % EbLen # 0 /\ n % RplLen # 0 /\ n % AppLen = DlSlot0
    BY DEF FrameOf
  <2>3. slot_type(n) = 2 <=> n % EbLen # 0 /\ n % RplLen # 0
    BY DEF slot_type
  <2>4. n % EbLen # 0 /\ n % AppLen = DlSlot0 => LinkAt(n) = [sf |-> 2, timeslot |-> DlSlot0]
    BY CommandSlotHasLink
  <2> QED  BY <1>5, <2>1, <2>2, <2>3, <2>4 DEF ListensForCommand
<1> QED  BY <1>10, <1>11

\* A node that took a pulse of the frames for its origin listens for
\* synchronisation in the very slots in which the transmitter sends it, for
\* slotframes of any length that share the period, and whatever else is in its
\* schedule; with the transmitter's own origin it also shares the slots for
\* commands.
THEOREM SlotsAlwaysAgree == Spec => []SlotsAgree
<1>1. IInv => SlotsAgree
  BY InvAgrees
<1> QED  BY Invariance, <1>1, PTL

\* The step by which a node leaves.
LEMMA LeavingStep ==
  ASSUME IInv, Next, pc = "slots", pc' = "init"
  PROVE  (skipped' + MissLimit) * EbLen > Threshold
<1>1. TypeOK /\ NodeInv /\ DistanceInv
  BY DEF IInv
<1>2. /\ current_asn \in Slots /\ last_sync_asn \in Slots
      /\ skipped \in Nat /\ cnt_miss \in Nat /\ cnt_miss < MissLimit
      /\ MissLimit \in Nat /\ EbLen \in Nat \ {0} /\ Threshold \in Nat /\ Low \in Nat \ {0}
  BY <1>1, CtcAssumption, FrameFacts DEF TypeOK, NodeInv
<1>3. PICK k \in Nat : k = skipped + cnt_miss
  BY <1>2
<1>4. PICK x \in Int : x = (current_asn - last_sync_asn) % Low
  <2>1. current_asn - last_sync_asn \in Int
    BY <1>2 DEF Slots
  <2> QED  BY <1>2, <2>1
<1>5. x <= (k + 1) * EbLen
  <2>1. (current_asn - last_sync_asn) % Low <= k * EbLen + ((current_asn - 1) % EbLen) + 1
    BY <1>1, <1>3 DEF DistanceInv
  <2>2. PICK d : d = (current_asn + 1) % Low
    OBVIOUS
  <2>3. (current_asn - last_sync_asn) % Low <= (k + 1) * EbLen
    BY <1>2, <2>1, <2>2, CountedDistance
  <2> QED  BY <1>4, <2>3
<1>6. \A synced \in Slots : LeaveOrCount(synced) => (current_asn - synced) % Low > Threshold
  BY <1>2, DistanceOf DEF LeaveOrCount
<1>7. ASSUME NEW u \in Nat, x > Threshold, k + 1 <= u + MissLimit
      PROVE  (u + MissLimit) * EbLen > Threshold
  <2>1. PICK b \in Nat : b = u + MissLimit
    BY <1>2
  <2>2. PICK e \in Nat : e = EbLen
    BY <1>2
  <2>3. PICK a \in Nat : a = k + 1 /\ a <= b
    BY <1>7, <2>1
  <2>4. a * e <= b * e
    BY <2>3
  <2>5. a * e \in Int /\ b * e \in Int
    OBVIOUS
  <2> QED  BY <1>2, <1>4, <1>5, <1>7, <2>1, <2>2, <2>3, <2>4, <2>5
<1>8. CASE Starting
  BY <1>8 DEF Starting, FindThreshold, DefaultThreshold, KeepWaiting, AwaitQuiet, Listen
<1>9. CASE Slip \/ Halted
  BY <1>9 DEF Slip, Halted, nodeVars
<1>10. CASE OtherSlot
  <2>1. LeaveOrCount(last_sync_asn) /\ skipped' = skipped
    BY <1>10 DEF OtherSlot, ghostVars
  <2>2. x > Threshold
    BY <1>2, <1>4, <1>6, <2>1
  <2>3. k + 1 <= skipped + MissLimit
    BY <1>2, <1>3
  <2> QED  BY <1>2, <1>7, <2>1, <2>2, <2>3
<1>11. CASE SkipSync
  <2>1. LeaveOrCount(last_sync_asn) /\ skipped' = skipped + 1
    BY <1>11 DEF SkipSync
  <2>2. x > Threshold
    BY <1>2, <1>4, <1>6, <2>1
  <2>3. k + 1 <= (skipped + 1) + MissLimit /\ skipped + 1 \in Nat
    BY <1>2, <1>3
  <2> QED  BY <1>7, <2>1, <2>2, <2>3
<1>12. ASSUME NEW code \in Received, KeepSync(code), code = Silence
       PROVE  (skipped' + MissLimit) * EbLen > Threshold
  <2>1. LeaveOrCount(last_sync_asn) /\ skipped' = skipped
    BY <1>12 DEF KeepSync
  <2>2. x > Threshold
    BY <1>2, <1>4, <1>6, <2>1
  <2>3. k + 1 <= skipped + MissLimit
    BY <1>2, <1>3
  <2> QED  BY <1>2, <1>7, <2>1, <2>2, <2>3
<1>13. ASSUME NEW code \in Received, KeepSync(code), code # Silence
       PROVE  FALSE
  <2>1. LeaveOrCount(current_asn)
    BY <1>13 DEF KeepSync
  <2>2. (current_asn - current_asn) % Low > Threshold
    BY <1>2, <1>6, <2>1
  <2>3. current_asn - current_asn = 0 /\ 0 % Low = 0
    BY <1>2, ModSmall DEF Slots
  <2> QED  BY <1>2, <2>2, <2>3
<1> QED  BY <1>8, <1>9, <1>10, <1>11, <1>12, <1>13 DEF Next, Running

\* A node is never driven out of the network by missed pulses alone: before the
\* threshold of tsch_link_operation is reached the node has halted, unless it
\* skipped so many pulses that these and the limit of misses exceed it.
THEOREM HaltsFirst == Spec => HaltsBeforeLeaving
<1> DEFINE Leaving == pc = "slots" /\ pc' = "init" => (skipped' + MissLimit) * EbLen > Threshold
<1>1. IInv /\ [Next]_vars => [Leaving]_vars
  BY LeavingStep
<1> HIDE DEF Leaving
<1>2. Spec => [][Leaving]_vars
  BY Invariance, <1>1, PTL DEF Spec
<1> QED  BY <1>2 DEF HaltsBeforeLeaving, Leaving

----------------------------------------------------------------------------
(***************************************************************************)
(* What the node has heard                                                 *)
(***************************************************************************)

\* What the node has of the digits of num when it has heard d of them.
Heard(num, d) == num_after(num)[CTC_SYNC_PERIOD - 1 - d] % Power[d]

\* No digit has been heard after the bell.
LEMMA NoneHeard ==
  ASSUME NEW num \in Nat
  PROVE  Heard(num, 0) = 0
<1>1. PICK n \in 0 .. CTC_SYNC_PERIOD - 1 : n = CTC_SYNC_PERIOD - 1 - 0
  BY DigitConstants
<1>2. PICK y \in Nat : y = num_after(num)[n]
  BY <1>1, AfterFacts
<1>3. y % 1 = 0
  OBVIOUS
<1> QED  BY <1>1, <1>2, <1>3, PowerFacts DEF Heard

\* The next digit is added, within the range of the accumulator.
LEMMA NextHeard ==
  ASSUME NEW num \in Nat, NEW d \in 0 .. CTC_SYNC_PERIOD - 2
  PROVE  /\ (Heard(num, d) * Base + Digit(num, d + 1)) % IndexRange = Heard(num, d + 1)
         /\ Digit(num, d + 1) \in 0 .. Base - 1
<1> DEFINE P == CTC_SYNC_PERIOD
<1>1. P \in Nat /\ P > 1 /\ Base \in Nat \ {0} /\ Base > 1 /\ IndexRange \in Nat \ {0}
  BY DigitConstants, CtcAssumption
<1>2. PICK k \in 1 .. P - 1 : k = P - 1 - d /\ k - 1 = P - 1 - (d + 1)
  BY <1>1
<1>3. k \in 0 .. P - 1 /\ k - 1 \in 0 .. P - 1 /\ d \in 0 .. P - 1 /\ d + 1 \in 1 .. P - 1
  BY <1>1
<1>4. PICK y \in Nat : y = num_after(num)[k - 1]
  BY <1>3, AfterFacts
<1>5. num_after(num)[k] = y \div Base
  BY <1>4, AfterFacts
<1>6. PICK c \in Nat \ {0} : c = Power[d]
  BY <1>3, PowerFacts
<1>7. Power[d + 1] = c * Base
  <2>1. (d + 1) - 1 = d
    OBVIOUS
  <2> QED  BY <1>3, <1>6, <2>1, PowerFacts
<1>8. Heard(num, d) = (y \div Base) % c /\ Heard(num, d + 1) = y % (c * Base)
  BY <1>2, <1>4, <1>5, <1>6, <1>7 DEF Heard
<1>9. Digit(num, d + 1) = y % Base
  BY <1>2, <1>4 DEF Digit
<1>10. PICK b \in Nat \ {0} : b = Base
  BY <1>1
<1>11. PICK m \in Nat \ {0} : m = c * b
  OBVIOUS
<1>a. y \in Int
  OBVIOUS
<1>12. PICK z \in 0 .. m - 1 : z = y % m
  BY <1>a, ModRange
<1>13. Heard(num, d) * Base + Digit(num, d + 1) = z
  <2>1. ((y \div b) % c) * b + (y % b) = y % (c * b)
    BY ModDigit
  <2> QED  BY <1>8, <1>9, <1>10, <1>11, <1>12, <2>1
<1>14. m <= IndexRange
  <2>1. d + 1 \in 0 .. P - 1
    BY <1>3
  <2>2. Power[d + 1] <= Power[P - 1]
    BY <2>1, PowerGrows
  <2>3. Power[P - 1] <= IndexRange
    BY CtcAssumption
  <2>4. Power[P - 1] \in Nat /\ m = Power[d + 1]
    BY <1>1, <1>7, <1>10, <1>11, PowerFacts
  <2> QED  BY <1>1, <2>2, <2>3, <2>4
<1>15. z % IndexRange = z
  <2>1. z \in 0 .. IndexRange - 1
    BY <1>1, <1>12, <1>14
  <2> QED  BY <1>1, <2>1, ModSmall
<1>16. y % b \in 0 .. b - 1
  BY <1>a, ModRange
<1> QED  BY <1>8, <1>9, <1>10, <1>11, <1>12, <1>13, <1>15, <1>16

\* What the assumptions say of the period: a number of superframes.
LEMMA PeriodFacts ==
  \E c, m \in Nat \ {0} :
     /\ c = Power[CTC_SYNC_PERIOD - 1]
     /\ Low = ((c * CTC_SYNC_PERIOD) * EbLen) * m
<1>1. PICK c \in Nat \ {0} : c = Power[CTC_SYNC_PERIOD - 1]
  BY DigitConstants, PowerFacts
<1>2. CTC_SYNC_PERIOD \in Nat \ {0} /\ EbLen \in Nat \ {0} /\ Low \in Nat \ {0}
  BY DigitConstants, FrameFacts
<1>3. PICK k \in Nat \ {0} : k = (c * CTC_SYNC_PERIOD) * EbLen
  BY <1>2
<1>4. Low % k = 0
  BY <1>1, <1>3, CtcAssumption
<1>5. PICK m \in Int : m = Low \div k
  BY <1>2, ModRange
<1>6. Low = k * m
  BY <1>2, <1>4, <1>5, ModRange
<1>7. m > 0
  <2> SUFFICES ASSUME m <= 0 PROVE FALSE
    OBVIOUS
  <2>1. k * m <= 0
    OBVIOUS
  <2> QED  BY <1>2, <1>6, <2>1
<1> QED  BY <1>1, <1>3, <1>6, <1>7

\* The frame after a frame, and its place in the superframe.
LEMMA NextFrame ==
  ASSUME NEW h \in Slots, h % EbLen = 0, NEW a, a = (h + EbLen) % Low,
         NEW g, g = h \div EbLen
  PROVE  /\ g \in Nat /\ a \in Slots /\ a % EbLen = 0 /\ a \div EbLen \in Nat
         /\ (a \div EbLen) % CTC_SYNC_PERIOD
              = IF g % CTC_SYNC_PERIOD = CTC_SYNC_PERIOD - 1 THEN 0 ELSE (g % CTC_SYNC_PERIOD) + 1
         /\ g % CTC_SYNC_PERIOD # CTC_SYNC_PERIOD - 1 =>
              (a \div EbLen) \div CTC_SYNC_PERIOD = g \div CTC_SYNC_PERIOD
<1>1. PICK e \in Nat \ {0} : e = EbLen
  BY FrameFacts
<1>2. PICK p \in Nat \ {0} : p = CTC_SYNC_PERIOD
  BY DigitConstants
<1>3. PICK c, m \in Nat \ {0} : Low = ((c * p) * e) * m
  BY <1>1, <1>2, PeriodFacts
<1>4. PICK w \in Nat \ {0} : w = c * m
  OBVIOUS
<1>5. PICK n \in Nat \ {0} : n = p * w
  OBVIOUS
<1>6. Low = e * n
  <2>1. ((c * p) * e) * m = e * (p * (c * m))
    OBVIOUS
  <2> QED  BY <1>3, <1>4, <1>5, <2>1
<1>7. h \in Nat /\ h < e * n
  BY <1>6, FrameFacts DEF Slots
<1>8. g \in 0 .. h
  BY <1>1, <1>7, QuotientRange
<1>9. PICK f \in Nat : f = g
  BY <1>7, <1>8
<1>10. h = e * f
  BY <1>1, <1>7, <1>9, ModRange
<1>11. f < n
  <2> SUFFICES ASSUME f >= n PROVE FALSE
    OBVIOUS
  <2>1. e * n <= e * f
    OBVIOUS
  <2> QED  BY <1>7, <1>10, <2>1
<1>12. h + EbLen = e * (f + 1)
  BY <1>1, <1>7, <1>10
<1>13. CASE f + 1 < n
  <2>1. e * (f + 1) \in 0 .. (e * n) - 1
    <3>1. e * (f + 1) <= e * (n - 1)
      BY <1>13
    <3>2. e * (n - 1) = e * n - e
      OBVIOUS
    <3>3. e * (f + 1) \in Nat /\ e * n \in Nat
      OBVIOUS
    <3> QED  BY <3>1, <3>2, <3>3
  <2>2. PICK x \in 0 .. Low - 1 : x = e * (f + 1)
    BY <1>6, <2>1
  <2>3. x % Low = x
    BY FrameFacts, ModSmall
  <2>4. a = x
    BY <1>12, <2>2, <2>3
  <2>5. x = e * (f + 1) + 0 /\ 0 \in 0 .. e - 1 /\ f + 1 \in Int /\ x \in Int
    BY <2>2
  <2>6. x % e = 0 /\ x \div e = f + 1
    BY <2>5, ModUnique
  <2>a. f \in Int
    OBVIOUS
  <2>7. (f + 1) % p = IF f % p = p - 1 THEN 0 ELSE (f % p) + 1
    BY <2>a, ModNext
  <2>8. ASSUME f % p # p - 1
        PROVE  (f + 1) \div p = f \div p
    <3>1. PICK r \in 0 .. p - 1 : r = f % p
      BY <2>a, ModRange
    <3>2. PICK q \in Int : q = f \div p
      BY <2>a, ModRange
    <3>3. f = p * q + r
      BY <2>a, <3>1, <3>2, ModRange
    <3>a. r # p - 1 /\ r + 1 \in 0 .. p - 1
      BY <2>8, <3>1
    <3>4. f + 1 = p * q + (r + 1) /\ r + 1 \in 0 .. p - 1 /\ f + 1 \in Int
      BY <3>a, <3>3
    <3>5. (f + 1) \div p = q
      BY <3>4, ModUnique
    <3> QED  BY <3>2, <3>5
  <2>9. a \in Slots
    BY <2>2, <2>4 DEF Slots
  <2> QED  BY <1>1, <1>2, <1>9, <2>4, <2>6, <2>7, <2>8, <2>9
<1>14. CASE f + 1 = n
  <2>1. h + EbLen = Low
    BY <1>6, <1>12, <1>14
  <2>2. Low = Low * 1 + 0 /\ Low \in Nat \ {0} /\ 0 \in 0 .. Low - 1
    BY FrameFacts
  <2>3. Low % Low = 0
    BY <2>2, ModUnique
  <2>4. a = 0 /\ 0 \in Slots
    BY <2>1, <2>2, <2>3 DEF Slots
  <2>5. 0 = e * 0 + 0 /\ 0 \in 0 .. e - 1
    OBVIOUS
  <2>6. 0 % e = 0 /\ 0 \div e = 0
    BY <2>5, ModUnique
  <2>7. 0 % p = 0
    BY ModSmall
  <2>8. f = p * (w - 1) + (p - 1) /\ p - 1 \in 0 .. p - 1 /\ w - 1 \in Int
    <3>1. p * (w - 1) = p * w - p
      OBVIOUS
    <3> QED  BY <1>5, <1>14, <3>1
  <2>9. f % p = p - 1
    BY <2>8, ModUnique
  <2> QED  BY <1>1, <1>2, <1>9, <2>4, <2>6, <2>7, <2>9
<1> QED  BY <1>11, <1>13, <1>14

\* At the next bell the number that was sent is the transmitter's.
LEMMA NextBell ==
  ASSUME NEW h \in Slots, h % EbLen = 0, NEW a, a = (h + EbLen) % Low,
         NEW g, g = h \div EbLen, g % CTC_SYNC_PERIOD = CTC_SYNC_PERIOD - 1,
         NEW num, num = g \div CTC_SYNC_PERIOD + 1
  PROVE  ((Heard(num, CTC_SYNC_PERIOD - 1) * CTC_SYNC_PERIOD) * EbLen)
            = a % ((Power[CTC_SYNC_PERIOD - 1] * CTC_SYNC_PERIOD) * EbLen)
<1>1. PICK e \in Nat \ {0} : e = EbLen
  BY FrameFacts
<1>2. PICK p \in Nat \ {0} : p = CTC_SYNC_PERIOD
  BY DigitConstants
<1>3. PICK c, m \in Nat \ {0} : c = Power[p - 1] /\ Low = ((c * p) * e) * m
  BY <1>1, <1>2, PeriodFacts
<1>4. PICK f \in Nat : f = g
  BY NextFrame
<1>5. h = e * f
  <2>1. h \in Int
    BY FrameFacts DEF Slots
  <2>2. h = e * (h \div e) + (h % e)
    BY <2>1, ModRange
  <2> QED  BY <1>1, <1>4, <2>2
<1>6. PICK q \in 0 .. f : q = f \div p
  BY QuotientRange
<1>7. f = p * q + (p - 1)
  <2>1. f = p * (f \div p) + (f % p)
    BY ModRange
  <2> QED  BY <1>2, <1>4, <1>6, <2>1
<1>8. PICK u \in Nat : u = num /\ u = q + 1
  BY <1>2, <1>4, <1>6
<1>9. PICK k \in Nat \ {0} : k = p * e
  OBVIOUS
<1>10. h + EbLen = u * k
  <2>1. e * (p * q + (p - 1)) + e = (q + 1) * (p * e)
    OBVIOUS
  <2> QED  BY <1>1, <1>5, <1>7, <1>8, <1>9, <2>1
<1>11. Heard(num, p - 1) = u % c
  <2>1. p - 1 \in Int /\ p - 1 - (p - 1) = 0
    OBVIOUS
  <2>2. num_after(u)[0] = u
    BY AfterFacts
  <2> QED  BY <1>2, <1>3, <1>8, <2>1, <2>2 DEF Heard
<1>a. u \in Int
  OBVIOUS
<1>12. PICK v \in Nat : v = u % c
  BY <1>a, ModRange
<1>13. v * k = (u * k) % (c * k)
  BY <1>a, <1>12, ModScale
<1>14. PICK d \in Nat \ {0} : d = c * k
  OBVIOUS
<1>15. Low % d = 0
  <2>1. Low = d * m + 0
    <3>1. ((c * p) * e) * m = (c * (p * e)) * m
      OBVIOUS
    <3> QED  BY <1>3, <1>9, <1>14, <3>1
  <2>2. 0 \in 0 .. d - 1 /\ Low \in Int /\ m \in Int
    BY FrameFacts
  <2>3. PICK l \in Int : l = Low
    BY <2>2
  <2>4. l % d = 0
    <3>1. l = d * m + 0 /\ m \in Int
      BY <2>1, <2>3
    <3> QED  BY <2>2, <3>1, ModUnique
  <2> QED  BY <2>3, <2>4
<1>16. PICK z \in Int : z = u * k
  OBVIOUS
<1>17. a % d = z % d
  <2>1. (z % Low) % d = z % d
    BY <1>15, FrameFacts, ModOfMod
  <2> QED  BY <1>10, <1>16, <2>1
<1>18. (v * p) * e = v * k
  BY <1>9
<1>19. (c * p) * e = d
  BY <1>9, <1>14
<1> QED  BY <1>1, <1>2, <1>3, <1>11, <1>12, <1>13, <1>14, <1>16, <1>17, <1>18, <1>19

----------------------------------------------------------------------------
(***************************************************************************)
(* The digits that the node has heard, and the transmitter's               *)
(***************************************************************************)

\* The slots since the one of the last pulse, if that one was heard.
Since == ((current_asn - 1) % EbLen) - silent

\* Without pulses nothing is heard: while the transmitter measures and pauses
\* its count stands still, and only in its slots the node has digits.
QuietInv ==
    /\ phase # "frames" => asn = 0
    /\ phase # "frames" \/ ~encoding => digits \in {0, None}
    /\ pc # "slots" => digits = None
    /\ pc = "slots" /\ silent > 0 => current_asn = FirstAsn + 1

\* While the node has the digits since a bell, its last synchronisation was
\* the last pulse.
FreshInv ==
    pc = "slots" /\ digits # None =>
        (current_asn - last_sync_asn) % Low <= ((current_asn - 1) % EbLen) + 1

\* h was the slot of the last pulse: the node has heard as many digits as the
\* transmitter has sent since the bell, and they are those of its number.
Carried(h) ==
    /\ h % EbLen = 0
    /\ asn = (h + 1 + Since) % Low
    /\ digits = (h \div EbLen) % CTC_SYNC_PERIOD
    /\ payload = (h \div EbLen) \div CTC_SYNC_PERIOD + 1
    /\ sync_index = Heard(payload, digits)

\* There was such a slot, or the node has heard but a pulse before the frames.
CarriedInv ==
    pc = "slots" /\ digits # None /\ phase = "frames" /\ encoding =>
        \/ digits = 0 /\ asn <= Since
        \/ \E h \in Slots : Carried(h)

DigitInv == QuietInv /\ FreshInv /\ CarriedInv

\* No slot has been heard of at the start.
LEMMA InitDigits == Init => DigitInv
BY DEF Init, DigitInv, QuietInv, FreshInv, CarriedInv

\* What the transmitter does in a slot that is not one of its pulses.
LEMMA TransmitKeeps ==
  ASSUME IInv, QuietInv, Transmit
  PROVE  /\ encoding' = encoding
         /\ phase # "frames" => asn' = 0
         /\ phase' # "frames" => phase # "frames"
         /\ phase = "frames" => phase' = "frames"
         /\ phase = "frames" => asn' = (asn + 1) % Low
         /\ phase = "frames" /\ (asn % EbLen # 0 \/ ~IsBell) => payload' = payload
         /\ phase = "frames" /\ asn % EbLen = 0 /\ encoding /\ IsBell => payload' = NextPayload
<1>1. encoding' = encoding
  BY DEF Transmit
<1>2. phase \in {"measure", "pause", "frames"}
  BY DEF IInv, TypeOK
<1>3. CASE phase = "measure"
  BY <1>1, <1>3 DEF Transmit, QuietInv
<1>4. CASE phase = "pause"
  BY <1>1, <1>4 DEF Transmit, QuietInv
<1>5. CASE phase = "frames"
  <2>1. /\ phase' = "frames" /\ asn' = (asn + 1) % Low
        /\ payload' = IF FrameOf(asn) = "sync" /\ IsBell /\ encoding THEN NextPayload ELSE payload
    BY <1>5 DEF Transmit
  <2>2. FrameOf(asn) = "sync" <=> asn % EbLen = 0
    BY DEF FrameOf
  <2> QED  BY <1>1, <1>5, <2>1, <2>2
<1> QED  BY <1>2, <1>3, <1>4, <1>5

\* The slots since the last pulse, and the next of them.
LEMMA SinceFacts ==
  ASSUME IInv, QuietInv, pc = "slots"
  PROVE  /\ Since \in 0 .. EbLen - 1
         /\ silent > 0 => Since < EbLen - 1
         /\ silent = 0 /\ current_asn % EbLen # 0 => Since < EbLen - 1
         /\ silent = 0 /\ current_asn % EbLen = 0 => Since = EbLen - 1
         /\ CountSlot /\ silent = 0 /\ silent' = 0 /\ current_asn % EbLen # 0 => Since' = Since + 1
         /\ CountSlot /\ silent' = 0 /\ current_asn % EbLen = 0 => Since' = 0
<1>1. PICK c \in Slots : c = current_asn
  BY DEF IInv, TypeOK
<1>2. PICK e \in Nat \ {0} : e = EbLen
  BY FrameFacts
<1>3. PICK r \in 0 .. e - 1 : r = (c - 1) % e
  <2>1. c - 1 \in Int
    BY FrameFacts DEF Slots
  <2> QED  BY <2>1, ModRange
<1>4. c % e = IF r = e - 1 THEN 0 ELSE r + 1
  <2>1. c - 1 \in Int /\ (c - 1) + 1 = c
    BY FrameFacts DEF Slots
  <2> QED  BY <1>3, <2>1, ModNext
<1>5. silent \in 0 .. FirstSlip /\ FirstSlip = FirstAsn /\ FirstAsn \in 0 .. e - 1
  BY <1>2, SlipAssumption DEF IInv, TypeOK, NodeInv
<1>6. Since = r - silent
  BY <1>1, <1>2, <1>3 DEF Since
<1>7. silent > 0 => r = FirstAsn
  <2>1. SUFFICES ASSUME silent > 0 PROVE r = FirstAsn
    OBVIOUS
  <2>2. c - 1 = FirstAsn
    BY <1>1, <1>5, <2>1 DEF QuietInv
  <2> QED  BY <1>3, <1>5, <2>2, ModSmall
<1>8. CountSlot => (current_asn' - 1) % EbLen = c % e
  <2>1. SUFFICES ASSUME CountSlot PROVE (current_asn' - 1) % EbLen = c % e
    OBVIOUS
  <2>2. PICK d : d = (c + 1) % Low
    OBVIOUS
  <2>3. (d - 1) % EbLen = c % EbLen
    BY <2>2, CountedSlot
  <2> QED  BY <1>1, <1>2, <2>1, <2>2, <2>3 DEF CountSlot
<1>9. CountSlot /\ silent' = 0 => Since' = c % e
  <2>1. SUFFICES ASSUME CountSlot, silent' = 0 PROVE Since' = c % e
    OBVIOUS
  <2>2. Since' = ((current_asn' - 1) % EbLen) - 0
    BY <2>1 DEF Since
  <2>3. c % e \in Int
    BY <1>2, <1>3, <1>4
  <2> QED  BY <1>8, <2>1, <2>2, <2>3
<1> QED  BY <1>1, <1>2, <1>4, <1>5, <1>6, <1>7, <1>9

\* What a pulse can be taken for.
LEMMA ReceivedCode ==
  ASSUME IInv, NEW code \in Received, IsSync(code)
  PROVE  /\ phase # "pause"
         /\ phase = "measure" \/ ~encoding => code = Bell
         /\ phase = "frames" => asn % EbLen = 0
         /\ phase = "frames" /\ encoding =>
              code = IF IsBell THEN Bell
                     ELSE MinCode + Digit(payload, fr_num % CTC_SYNC_PERIOD)
<1>1. TypeOK
  BY DEF IInv
<1>2. /\ code \in Int
      /\ phase = "frames" => asn % EbLen = 0
  BY <1>1, ReceivedFacts
<1>3. MinCode \in Int /\ MinCode > 5
  BY CtcAssumption DEF MinCode, AppCode
<1>4. code = Pulse /\ code # Silence
  BY <1>2, <1>3 DEF Received, Blurry, Silence, IsSync
<1>5. FrameOf(asn) = "sync" <=> asn % EbLen = 0
  BY DEF FrameOf
<1>6. CASE phase = "measure"
  <2>1. Pulse = Bell
    BY <1>6 DEF Pulse
  <2> QED  BY <1>4, <1>6, <2>1
<1>7. CASE phase = "frames"
  <2>1. Pulse = IF IsBell THEN Bell ELSE MinCode + Digit(payload, fr_num % CTC_SYNC_PERIOD)
    BY <1>2, <1>5, <1>7 DEF Pulse
  <2>2. ~encoding => IsBell
    BY DEF IsBell
  <2> QED  BY <1>2, <1>4, <1>7, <2>1, <2>2
<1>8. CASE phase = "pause"
  <2>1. Pulse = Silence
    BY <1>8 DEF Pulse
  <2> QED  BY <1>4, <2>1
<1> QED  BY <1>1, <1>6, <1>7, <1>8 DEF TypeOK

\* A pulse is heard, or not, in its slot or before the node has slots.
LEMMA AfterPulse ==
  ASSUME IInv, DigitInv, NEW code \in Received, Transmit,
         sync_index' = IndexAfter(code), digits' = DigitsAfter(code),
         Since' = 0, pc = "slots" => Since = EbLen - 1
  PROVE  /\ CarriedInv'
         /\ phase' # "frames" \/ ~encoding' => digits' \in {0, None}
<1>1. QuietInv /\ CarriedInv /\ TypeOK
  BY DEF DigitInv, IInv
<1>2. /\ encoding' = encoding
      /\ phase # "frames" => asn' = 0
      /\ phase = "frames" => phase' = "frames" /\ asn' = (asn + 1) % Low
      /\ phase = "frames" /\ ~IsBell => payload' = payload
      /\ phase = "frames" /\ asn % EbLen = 0 /\ encoding /\ IsBell => payload' = NextPayload
  BY <1>1, TransmitKeeps
<1>3. /\ CTC_SYNC_PERIOD \in Nat /\ CTC_SYNC_PERIOD > 1 /\ Base \in Nat /\ Base > 1
      /\ EbLen \in Nat \ {0} /\ Low \in Nat \ {0} /\ None \notin Nat
      /\ MinCode \in Int /\ Bell \in Int /\ Bell = MinCode + Base
  BY DigitConstants, FrameFacts, NoneAssumption, CtcAssumption DEF MinCode, Bell, Base
<1>4. SUFFICES ASSUME digits' # None
               PROVE  /\ phase' = "frames" /\ encoding' =>
                           \/ digits' = 0 /\ asn' <= Since'
                           \/ \E h \in Slots : Carried(h)'
                      /\ phase' # "frames" \/ ~encoding' => digits' = 0
  BY DEF CarriedInv
<1>5. IsSync(code)
  BY <1>3, <1>4 DEF DigitsAfter, IsSync
<1>6. code = Bell => digits' = 0 /\ sync_index' = 0
  BY <1>5 DEF DigitsAfter, IndexAfter
<1>7. CASE phase # "frames"
  <2>1. code = Bell
    BY <1>1, <1>5, <1>7, ReceivedCode DEF TypeOK
  <2> QED  BY <1>2, <1>6, <1>7, <2>1
<1>8. CASE phase = "frames" /\ ~encoding
  <2>1. code = Bell
    BY <1>5, <1>8, ReceivedCode
  <2> QED  BY <1>2, <1>6, <1>8, <2>1
<1>9. CASE phase = "frames" /\ encoding
  <2>1. /\ asn % EbLen = 0
        /\ code = IF IsBell THEN Bell ELSE MinCode + Digit(payload, fr_num % CTC_SYNC_PERIOD)
    BY <1>5, <1>9, ReceivedCode
  <2>2. asn \in Slots /\ asn \in Int /\ payload \in Nat
    BY <1>1, FrameFacts DEF TypeOK, Slots
  <2>a. PICK a \in Slots : a = asn
    BY <2>2
  <2>3. asn' = (asn + 1 + Since') % Low
    <3>1. asn + 1 + 0 = asn + 1
      BY <2>2
    <3> QED  BY <1>2, <1>9, <3>1
  <2>4. CASE IsBell
    <3>1. (asn \div EbLen) % CTC_SYNC_PERIOD = 0
      BY <1>9, <2>4 DEF IsBell, fr_num
    <3>2. payload' = (asn \div EbLen) \div CTC_SYNC_PERIOD + 1
      BY <1>2, <1>9, <2>1, <2>4 DEF NextPayload, fr_num
    <3>3. payload' \in Nat
      <4>1. PICK f \in Nat : f = asn \div EbLen
        <5>1. asn \in Nat
          BY <1>3, <2>2 DEF Slots
        <5> QED  BY <1>3, <5>1, QuotientRange
      <4>2. f \div CTC_SYNC_PERIOD \in 0 .. f
        BY <1>3, QuotientRange
      <4> QED  BY <3>2, <4>1, <4>2
    <3>4. sync_index' = Heard(payload', digits') /\ digits' = 0
      BY <1>6, <2>1, <2>4, <3>3, NoneHeard
    <3>5. Carried(a)'
      BY <2>1, <2>3, <2>a, <3>1, <3>2, <3>4 DEF Carried
    <3> QED  BY <1>2, <1>9, <2>a, <3>5
  <2>5. CASE ~IsBell
    <3>0. code # Bell
      <4>1. PICK q \in 0 .. CTC_SYNC_PERIOD - 1 : q = fr_num % CTC_SYNC_PERIOD
        <5>1. PICK f \in Int : f = fr_num
          BY <1>3, <2>2, ModRange DEF fr_num
        <5>2. PICK p \in Nat \ {0} : p = CTC_SYNC_PERIOD
          BY <1>3
        <5>3. f % p \in 0 .. p - 1
          BY ModRange
        <5> QED  BY <5>1, <5>2, <5>3
      <4>2. q \in 1 .. CTC_SYNC_PERIOD - 1
        BY <1>9, <2>5, <4>1 DEF IsBell
      <4>3. q - 1 \in 0 .. CTC_SYNC_PERIOD - 2 /\ (q - 1) + 1 = q
        BY <1>3, <4>2
      <4>4. Digit(payload, (q - 1) + 1) \in 0 .. Base - 1
        BY <2>2, <4>3, NextHeard
      <4> QED  BY <1>3, <2>1, <2>5, <4>1, <4>3, <4>4
    <3>a. digits # None
      BY <1>4, <3>0 DEF DigitsAfter
    <3>1. digits # None /\ pc = "slots" /\ Since = EbLen - 1
      BY <1>1, <3>a DEF QuietInv
    <3>2. ~ (digits = 0 /\ asn <= Since)
      <4> SUFFICES ASSUME asn <= EbLen - 1 PROVE FALSE
        BY <3>1
      <4>1. asn \in 0 .. EbLen - 1
        BY <1>3, <2>2 DEF Slots
      <4>2. asn = 0
        BY <1>3, <2>1, <4>1, ModSmall
      <4>3. fr_num = 0
        <5>1. 0 = EbLen * 0 + 0 /\ 0 \in 0 .. EbLen - 1
          BY <1>3
        <5>2. 0 \div EbLen = 0
          BY <1>3, <5>1, ModUnique
        <5> QED  BY <4>2, <5>2 DEF fr_num
      <4>4. fr_num % CTC_SYNC_PERIOD = 0
        BY <1>3, <4>3, ModSmall
      <4> QED  BY <2>5, <4>4 DEF IsBell
    <3>3. PICK h \in Slots : Carried(h)
      BY <1>1, <1>9, <3>1, <3>2 DEF CarriedInv
    <3>4. PICK g : g = h \div EbLen
      OBVIOUS
    <3>5. h % EbLen = 0 /\ asn = (h + EbLen) % Low
      <4>1. h + 1 + (EbLen - 1) = h + EbLen
        BY <1>3 DEF Slots
      <4> QED  BY <3>1, <3>3, <4>1 DEF Carried
    <3>6. /\ digits = g % CTC_SYNC_PERIOD
          /\ payload = g \div CTC_SYNC_PERIOD + 1
          /\ sync_index = Heard(payload, digits)
      BY <3>3, <3>4 DEF Carried
    <3>7. /\ (asn \div EbLen) % CTC_SYNC_PERIOD
               = IF g % CTC_SYNC_PERIOD = CTC_SYNC_PERIOD - 1 THEN 0 ELSE (g % CTC_SYNC_PERIOD) + 1
          /\ g % CTC_SYNC_PERIOD # CTC_SYNC_PERIOD - 1 =>
               (asn \div EbLen) \div CTC_SYNC_PERIOD = g \div CTC_SYNC_PERIOD
      BY <3>4, <3>5, NextFrame
    <3>8. PICK d \in 0 .. CTC_SYNC_PERIOD - 1 : d = digits
      BY <1>1, <3>1 DEF TypeOK
    <3>9. d # CTC_SYNC_PERIOD - 1
      BY <1>9, <2>5, <3>6, <3>7, <3>8 DEF IsBell, fr_num
    <3>10. d \in 0 .. CTC_SYNC_PERIOD - 2
      BY <1>3, <3>8, <3>9
    <3>11. fr_num % CTC_SYNC_PERIOD = d + 1
      BY <3>6, <3>7, <3>8, <3>9 DEF fr_num
    <3>12. PICK x \in 0 .. Base - 1 : x = Digit(payload, d + 1)
      BY <2>2, <3>10, NextHeard
    <3>13. code = MinCode + x
      BY <2>1, <2>5, <3>11, <3>12
    <3>14. digits' = d + 1
      BY <1>3, <1>4, <3>0, <3>8, <3>10 DEF DigitsAfter
    <3>15. payload' = payload
      BY <1>2, <1>9, <2>5
    <3>16. sync_index' = Heard(payload, d + 1)
      <4>1. sync_index' = (sync_index * Base + code - MinCode) % IndexRange
        BY <1>5, <3>0 DEF IndexAfter
      <4>2. PICK i \in Nat : i = sync_index
        BY <1>1, CtcAssumption DEF TypeOK
      <4>3. i * Base \in Nat
        BY <1>3
      <4>4. i * Base + code - MinCode = i * Base + x
        BY <1>3, <3>13, <4>3
      <4>5. i = Heard(payload, d)
        BY <3>6, <3>8, <4>2
      <4>6. (Heard(payload, d) * Base + Digit(payload, d + 1)) % IndexRange = Heard(payload, d + 1)
        BY <2>2, <3>10, NextHeard
      <4> QED  BY <3>12, <4>1, <4>2, <4>4, <4>5, <4>6
    <3>17. Carried(a)'
      BY <2>1, <2>3, <2>a, <3>6, <3>7, <3>8, <3>9, <3>14, <3>15, <3>16 DEF Carried
    <3> QED  BY <1>2, <1>9, <2>a, <3>17
  <2> QED  BY <2>4, <2>5
<1> QED  BY <1>7, <1>8, <1>9

\* A slot of the node that is not one of a pulse.
LEMMA BetweenPulses ==
  ASSUME IInv, DigitInv, Transmit, pc = "slots", UNCHANGED <<digits, sync_index>>,
         Since < EbLen - 1, Since' = Since + 1
  PROVE  CarriedInv'
<1>1. QuietInv /\ CarriedInv /\ TypeOK
  BY DEF DigitInv, IInv
<1>2. /\ encoding' = encoding
      /\ phase # "frames" => asn' = 0
      /\ phase = "frames" => asn' = (asn + 1) % Low
      /\ phase = "frames" /\ asn % EbLen # 0 => payload' = payload
  BY <1>1, TransmitKeeps
<1>3. PICK e \in Nat \ {0} : e = EbLen
  BY FrameFacts
<1>4. PICK n \in 0 .. e - 2 : n = Since
  <2>1. Since \in 0 .. e - 1
    BY <1>1, <1>3, SinceFacts
  <2> QED  BY <1>3, <2>1
<1>5. SUFFICES ASSUME digits # None, phase' = "frames", encoding
               PROVE  \/ digits = 0 /\ asn' <= n + 1
                      \/ \E h \in Slots : Carried(h)'
  BY <1>2, <1>4 DEF CarriedInv
<1>6. CASE phase # "frames"
  <2>1. digits = 0 /\ asn' = 0
    BY <1>1, <1>2, <1>5, <1>6 DEF QuietInv
  <2> QED  BY <2>1
<1>7. CASE phase = "frames" /\ digits = 0 /\ asn <= Since
  <2>l. PICK l \in Nat \ {0} : l = Low
    BY FrameFacts
  <2>1. PICK a \in 0 .. l - 1 : a = asn
    BY <1>1, <2>l DEF TypeOK, Slots
  <2>i. a \in Int
    OBVIOUS
  <2>2. (a + 1) % l = IF a % l = l - 1 THEN 0 ELSE (a % l) + 1
    BY <2>i, ModNext
  <2>3. a % l = a
    BY ModSmall
  <2>4. asn' = 0 \/ asn' = a + 1
    BY <1>2, <1>7, <2>l, <2>1, <2>2, <2>3
  <2>5. a <= n
    BY <1>4, <1>7, <2>1
  <2> QED  BY <1>7, <2>4, <2>5
<1>8. ASSUME phase = "frames", NEW h \in Slots, Carried(h)
      PROVE  Carried(h)'
  <2>l. PICK l \in Nat \ {0} : l = Low
    BY FrameFacts
  <2>1. h \in Int /\ h % e = 0 /\ l % e = 0
    BY <1>3, <1>8, <2>l, FrameFacts DEF Carried, Slots
  <2>2. PICK k \in Int : k = h + 1 + n
    BY <2>1
  <2>3. asn = k % l
    BY <1>4, <1>8, <2>l, <2>2 DEF Carried
  <2>4. asn' = (h + 1 + Since') % Low
    <3>1. ((k % l) + 1) % l = (k + 1) % l
      <4>1. 1 \in Int
        OBVIOUS
      <4> QED  BY <4>1, ModAdd
    <3>2. h + 1 + (n + 1) = k + 1
      BY <2>1, <2>2
    <3> QED  BY <1>2, <1>4, <1>8, <2>l, <2>3, <3>1, <3>2
  <2>5. asn % EbLen # 0
    <3>1. (k % l) % e = k % e
      BY <2>1, ModOfMod
    <3>2. PICK m \in 1 .. e - 1 : m = 1 + n
      BY <1>4
    <3>3. ((h % e) + m) % e = (h + m) % e
      <4>1. m \in Int
        OBVIOUS
      <4> QED  BY <2>1, <4>1, ModAdd
    <3>4. h + m = k /\ 0 + m = m
      BY <2>1, <2>2, <3>2
    <3>5. m % e = m
      BY ModSmall
    <3> QED  BY <1>3, <2>1, <2>3, <3>1, <3>3, <3>4, <3>5
  <2>6. payload' = payload
    BY <1>2, <1>8, <2>5
  <2> QED  BY <1>8, <2>4, <2>6 DEF Carried
<1>9. CASE phase = "frames"
  BY <1>1, <1>2, <1>5, <1>7, <1>8, <1>9 DEF CarriedInv
<1> QED  BY <1>6, <1>9

\* Before its first slot the node has no digits; with the first pulse it hears
\* the count begins.
LEMMA StartingDigits ==
  ASSUME IInv, DigitInv, Starting
  PROVE  DigitInv'
<1>1. QuietInv /\ FreshInv /\ CarriedInv /\ TypeOK
  BY DEF DigitInv, IInv
<1>2. Transmit
  BY DEF Starting, FindThreshold, DefaultThreshold, KeepWaiting, AwaitQuiet, Listen
<1>3. /\ encoding' = encoding
      /\ phase # "frames" => asn' = 0
      /\ phase' # "frames" => phase # "frames"
  BY <1>1, <1>2, TransmitKeeps
<1>4. pc # "slots" /\ digits = None
  BY <1>1 DEF Starting, FindThreshold, DefaultThreshold, KeepWaiting, AwaitQuiet, Listen, QuietInv
<1>5. ASSUME digits' = None, pc' # "slots"
      PROVE  DigitInv'
  BY <1>3, <1>5 DEF DigitInv, QuietInv, FreshInv, CarriedInv
<1>6. CASE FindThreshold \/ DefaultThreshold \/ KeepWaiting
  BY <1>4, <1>5, <1>6 DEF FindThreshold, DefaultThreshold, KeepWaiting, ghostVars, nodeVars
<1>7. ASSUME NEW code \in Received, AwaitQuiet(code)
      PROVE  DigitInv'
  BY <1>4, <1>5, <1>7 DEF AwaitQuiet, ghostVars
<1>8. ASSUME NEW code \in Received, Listen(code), ~IsSync(code)
      PROVE  DigitInv'
  <2>1. code # Bell
    BY <1>8, CtcAssumption DEF IsSync, Bell, MinCode
  <2> QED  BY <1>4, <1>5, <1>8, <2>1 DEF Listen, DigitsAfter
<1>9. ASSUME NEW code \in Received, Listen(code), IsSync(code)
      PROVE  DigitInv'
  <2>1. /\ pc' = "slots" /\ silent' = FirstSlip
        /\ current_asn' = FirstAsn + 1 /\ last_sync_asn' = FirstAsn
        /\ sync_index' = IndexAfter(code) /\ digits' = DigitsAfter(code)
    BY <1>9 DEF Listen
  <2>2. /\ FirstAsn \in 0 .. EbLen - 1 /\ FirstSlip = FirstAsn
        /\ EbLen \in Nat \ {0} /\ Low \in Nat \ {0} /\ Low > 1
    BY SlipAssumption, FrameFacts
  <2>3. FirstAsn + 1 - 1 = FirstAsn /\ FirstAsn % EbLen = FirstAsn
    BY <2>2, ModSmall
  <2>4. Since' = 0
    BY <2>1, <2>2, <2>3 DEF Since
  <2>5. CarriedInv' /\ (phase' # "frames" \/ ~encoding' => digits' \in {0, None})
    BY <1>2, <1>4, <2>1, <2>4, AfterPulse
  <2>6. FreshInv'
    <3>1. (FirstAsn + 1) - FirstAsn = 1 /\ 1 % Low = 1
      BY <2>2, ModSmall
    <3> QED  BY <2>1, <2>2, <2>3, <3>1 DEF FreshInv
  <2>7. QuietInv'
    BY <1>3, <2>1, <2>5 DEF QuietInv
  <2> QED  BY <2>5, <2>6, <2>7 DEF DigitInv
<1> QED  BY <1>6, <1>7, <1>8, <1>9 DEF Starting

\* In its slots the node takes the pulses one by one.
LEMMA RunningDigits ==
  ASSUME IInv, DigitInv, Running
  PROVE  DigitInv'
<1>1. QuietInv /\ FreshInv /\ CarriedInv /\ TypeOK
  BY DEF DigitInv, IInv
<1>2. Transmit
  BY DEF Running, Slip, SkipSync, OtherSlot, Halted, KeepSync
<1>3. /\ encoding' = encoding
      /\ phase # "frames" => asn' = 0
      /\ phase' # "frames" => phase # "frames"
  BY <1>1, <1>2, TransmitKeeps
<1>4. /\ current_asn \in Slots /\ last_sync_asn \in Slots
      /\ Low \in Nat \ {0} /\ EbLen \in Nat \ {0}
      /\ Threshold \in Nat /\ Threshold >= EbLen
  BY <1>1, FrameFacts, CtcAssumption DEF TypeOK
<1>5. ASSUME digits' = None, silent' = 0
      PROVE  DigitInv'
  BY <1>3, <1>5 DEF DigitInv, QuietInv, FreshInv, CarriedInv
<1>6. ASSUME digits' = digits
      PROVE  /\ phase' # "frames" => asn' = 0
             /\ phase' # "frames" \/ ~encoding' => digits' \in {0, None}
  BY <1>1, <1>3, <1>6 DEF QuietInv
<1>7. \A synced \in Slots : LeaveOrCount(synced) /\ pc = "slots" =>
        \/ pc' = "slots" /\ CountSlot
        \/ (current_asn - synced) % Low > Threshold
  BY <1>4, DistanceOf DEF LeaveOrCount
<1>8. CASE Halted
  <2>1. pc' = "halted" /\ digits' = digits
    BY <1>8 DEF Halted, nodeVars, ghostVars
  <2>2. digits' = None
    BY <1>1, <1>8, <2>1 DEF Halted, QuietInv
  <2> QED  BY <1>3, <2>1, <2>2 DEF DigitInv, QuietInv, FreshInv, CarriedInv
<1>9. CASE Slip
  <2>1. /\ pc = "slots" /\ silent > 0 /\ silent' = silent - 1
        /\ pc' = "slots" /\ current_asn' = current_asn /\ last_sync_asn' = last_sync_asn
        /\ sync_index' = sync_index /\ digits' = digits
    BY <1>9 DEF Slip, ghostVars
  <2>2. Since < EbLen - 1 /\ Since \in 0 .. EbLen - 1
    BY <1>1, <2>1, SinceFacts
  <2>3. Since' = Since + 1
    <3>1. (current_asn - 1) % EbLen \in Int
      BY <1>4, ModRange DEF Slots
    <3>2. silent \in Int
      BY <1>1, CtcAssumption, SlipAssumption, FrameFacts DEF TypeOK
    <3> QED  BY <2>1, <3>1, <3>2 DEF Since
  <2>4. CarriedInv'
    BY <1>2, <2>1, <2>2, <2>3, BetweenPulses
  <2>5. FreshInv'
    BY <1>1, <2>1 DEF FreshInv
  <2>6. QuietInv'
    BY <1>1, <1>6, <2>1 DEF QuietInv
  <2> QED  BY <2>4, <2>5, <2>6 DEF DigitInv
<1>10. CASE SkipSync
  BY <1>5, <1>10 DEF SkipSync, Awake
<1>11. CASE OtherSlot
  <2>1. /\ pc = "slots" /\ silent = 0 /\ silent' = 0
        /\ last_sync_asn' = last_sync_asn
        /\ sync_index' = sync_index /\ digits' = digits
        /\ \/ CountSlot /\ pc' = "slots"
           \/ LeaveOrCount(last_sync_asn)
    BY <1>11 DEF OtherSlot, Awake, ghostVars
  <2>2. current_asn % EbLen # 0
    BY <1>4, <1>11, SyncSlots DEF OtherSlot
  <2>3. CASE digits = None
    BY <1>5, <2>1, <2>3
  <2>4. CASE digits # None
    <3>1. (current_asn - last_sync_asn) % Low <= ((current_asn - 1) % EbLen) + 1
      BY <1>1, <2>1, <2>4 DEF FreshInv
    <3>2. (current_asn - 1) % EbLen \in 0 .. EbLen - 1 /\ (current_asn - last_sync_asn) % Low \in Int
      BY <1>4, ModRange DEF Slots
    <3>3. (current_asn - last_sync_asn) % Low <= EbLen
      BY <1>4, <3>1, <3>2
    <3>4. CountSlot /\ pc' = "slots"
      BY <1>4, <1>7, <2>1, <3>2, <3>3
    <3>5. Since < EbLen - 1 /\ Since' = Since + 1
      BY <1>1, <2>1, <2>2, <3>4, SinceFacts
    <3>6. CarriedInv'
      BY <1>2, <2>1, <3>5, BetweenPulses
    <3>7. FreshInv'
      <4>1. 0 * EbLen = 0 /\ 0 \in Nat
        BY <1>4
      <4>2. PICK d : d = (current_asn + 1) % Low
        OBVIOUS
      <4>3. (current_asn - last_sync_asn) % Low <= 0 * EbLen + ((current_asn - 1) % EbLen) + 1
        BY <3>1, <3>2, <4>1
      <4>4. (d - last_sync_asn) % Low <= 0 * EbLen + ((d - 1) % EbLen) + 1
        BY <1>4, <2>2, <4>1, <4>2, <4>3, CountedDistance
      <4>5. d \in Slots
        BY <1>4, <4>2, CountedSlot
      <4>6. (d - 1) % EbLen \in Int
        BY <1>4, <4>5, ModRange DEF Slots
      <4> QED  BY <2>1, <3>4, <4>1, <4>2, <4>4, <4>6 DEF FreshInv, CountSlot
    <3>8. QuietInv'
      BY <1>6, <2>1, <3>4 DEF QuietInv
    <3> QED  BY <3>6, <3>7, <3>8 DEF DigitInv
  <2> QED  BY <2>3, <2>4
<1>12. ASSUME NEW code \in Received, KeepSync(code)
       PROVE  DigitInv'
  <2>1. /\ pc = "slots" /\ silent = 0 /\ silent' = 0
        /\ sync_index' = IndexAfter(code) /\ digits' = DigitsAfter(code)
    BY <1>12 DEF KeepSync, Awake
  <2>2. current_asn % EbLen = 0
    BY <1>4, <1>12, SyncSlots DEF KeepSync
  <2>3. CASE digits' = None
    BY <1>5, <2>1, <2>3
  <2>4. CASE digits' # None
    <3>1. code # Silence
      <4>1. Bell # -1 /\ ~ (-1 >= MinCode)
        BY CtcAssumption DEF Bell, MinCode, AppCode
      <4>2. code = Bell \/ IsSync(code)
        BY <2>1, <2>4 DEF DigitsAfter
      <4> QED  BY <4>1, <4>2 DEF IsSync, Silence
    <3>2. last_sync_asn' = current_asn /\ LeaveOrCount(current_asn)
      BY <1>12, <3>1 DEF KeepSync
    <3>3. CountSlot /\ pc' = "slots"
      <4>1. current_asn - current_asn = 0 /\ 0 % Low = 0
        BY <1>4, ModSmall DEF Slots
      <4> QED  BY <1>4, <1>7, <2>1, <3>2, <4>1
    <3>4. Since = EbLen - 1 /\ Since' = 0
      BY <1>1, <2>1, <2>2, <3>3, SinceFacts
    <3>5. CarriedInv' /\ (phase' # "frames" \/ ~encoding' => digits' \in {0, None})
      BY <1>2, <2>1, <3>4, AfterPulse
    <3>6. FreshInv'
      <4>1. PICK d : d = (current_asn + 1) % Low
        OBVIOUS
      <4>2. (d - current_asn) % Low = 1 /\ d \in Slots
        BY <1>4, <4>1, CountedSlot
      <4>3. (d - 1) % EbLen \in 0 .. EbLen - 1
        BY <1>4, <4>2, ModRange DEF Slots
      <4> QED  BY <1>4, <3>2, <3>3, <4>1, <4>2, <4>3 DEF FreshInv, CountSlot
    <3>7. QuietInv'
      BY <1>3, <2>1, <3>3, <3>5 DEF QuietInv
    <3> QED  BY <3>5, <3>6, <3>7 DEF DigitInv
  <2> QED  BY <2>3, <2>4
<1> QED  BY <1>8, <1>9, <1>10, <1>11, <1>12 DEF Running

\* The invariant about the digits holds throughout.
THEOREM DigitsCarried == Spec => []DigitInv
<1>1. IInv /\ DigitInv /\ [Next]_vars => DigitInv'
  <2>1. SUFFICES ASSUME IInv, DigitInv, [Next]_vars PROVE DigitInv'
    OBVIOUS
  <2>2. CASE Next
    BY <2>1, <2>2, StartingDigits, RunningDigits DEF Next
  <2>3. CASE UNCHANGED vars
    <3>1. /\ UNCHANGED <<encoding, phase, asn, payload, pc, silent, current_asn, last_sync_asn>>
          /\ UNCHANGED <<sync_index, digits>>
      BY <2>3 DEF vars, txVars, nodeVars, ghostVars
    <3>2. QuietInv' /\ FreshInv'
      BY <2>1, <3>1 DEF DigitInv, QuietInv, FreshInv
    <3>3. \A h \in Slots : Carried(h) => Carried(h)'
      BY <3>1 DEF Carried, Since
    <3>4. Since' = Since
      BY <3>1 DEF Since
    <3>5. CarriedInv'
      BY <2>1, <3>1, <3>3, <3>4 DEF DigitInv, CarriedInv
    <3> QED  BY <3>2, <3>5 DEF DigitInv
  <2> QED  BY <2>1, <2>2, <2>3
<1> QED  BY InitDigits, Invariance, <1>1, PTL DEF Spec

\* The step in which a node that has all digits hears the next bell.
LEMMA BellStep ==
  ASSUME IInv, DigitInv, Next, digits = CTC_SYNC_PERIOD - 1, digits' = 0
  PROVE  sync_index * CTC_SYNC_PERIOD * EbLen
           = asn % (Power[CTC_SYNC_PERIOD - 1] * CTC_SYNC_PERIOD * EbLen)
<1>1. QuietInv /\ CarriedInv /\ TypeOK
  BY DEF DigitInv, IInv
<1>2. /\ CTC_SYNC_PERIOD \in Nat /\ CTC_SYNC_PERIOD > 1 /\ None \notin Nat
      /\ EbLen \in Nat \ {0} /\ Low \in Nat \ {0} /\ current_asn \in Slots
  BY <1>1, DigitConstants, NoneAssumption, FrameFacts DEF TypeOK
<1>3. digits # None /\ digits # 0
  BY <1>2
<1>4. pc = "slots" /\ phase = "frames" /\ encoding
  BY <1>1, <1>3 DEF QuietInv, TypeOK
<1>5. PICK code \in Received : KeepSync(code)
  BY <1>2, <1>3, <1>4 DEF Next, Starting, Running, FindThreshold, DefaultThreshold, KeepWaiting,
     AwaitQuiet, Listen, Slip, SkipSync, OtherSlot, Halted, ghostVars
<1>6. Since = EbLen - 1
  <2>1. silent = 0
    BY <1>5 DEF KeepSync, Awake
  <2>2. current_asn % EbLen = 0
    BY <1>2, <1>5, SyncSlots DEF KeepSync
  <2> QED  BY <1>1, <1>4, <2>1, <2>2, SinceFacts
<1>7. PICK h \in Slots : Carried(h)
  BY <1>1, <1>3, <1>4 DEF CarriedInv
<1>8. h % EbLen = 0 /\ asn = (h + EbLen) % Low
  <2>1. h + 1 + (EbLen - 1) = h + EbLen
    BY <1>2 DEF Slots
  <2> QED  BY <1>6, <1>7, <2>1 DEF Carried
<1>9. PICK g : g = h \div EbLen
  OBVIOUS
<1>10. PICK num : num = g \div CTC_SYNC_PERIOD + 1
  OBVIOUS
<1>11. /\ g % CTC_SYNC_PERIOD = CTC_SYNC_PERIOD - 1
       /\ sync_index = Heard(num, CTC_SYNC_PERIOD - 1)
  BY <1>7, <1>9, <1>10 DEF Carried
<1>12. PICK a : a = asn
  OBVIOUS
<1>13. (Heard(num, CTC_SYNC_PERIOD - 1) * CTC_SYNC_PERIOD) * EbLen
         = a % ((Power[CTC_SYNC_PERIOD - 1] * CTC_SYNC_PERIOD) * EbLen)
  BY <1>8, <1>9, <1>10, <1>11, <1>12, NextBell
<1> QED  BY <1>11, <1>12, <1>13

\* A node that has heard the bell and all digits of a superframe has the number
\* of the slot in which the transmitter sends the next bell, up to the range of
\* the digits, whenever it began to listen and whatever it missed before.
THEOREM NumberDecoded == Spec => AsnDecoded
<1> DEFINE Decoded ==
             digits = CTC_SYNC_PERIOD - 1 /\ digits' = 0 =>
               sync_index * CTC_SYNC_PERIOD * EbLen
                 = asn % (Power[CTC_SYNC_PERIOD - 1] * CTC_SYNC_PERIOD * EbLen)
<1>1. IInv /\ DigitInv /\ [Next]_vars => [Decoded]_vars
  BY BellStep
<1> HIDE DEF Decoded
<1>2. Spec => [][Decoded]_vars
  BY Invariance, DigitsCarried, <1>1, PTL DEF Spec
<1> QED  BY <1>2 DEF AsnDecoded, Decoded
=============================================================================
