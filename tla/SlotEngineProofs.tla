-------------------------- MODULE SlotEngineProofs --------------------------
(***************************************************************************)
(* Theorems about SlotEngine, for slotframes of any sizes and words of any *)
(* width: the arithmetic of the ASN in two words is that of one number,    *)
(* the link in use is one of the slot reached, and on the way to it no     *)
(* slot with a link was passed over. For nodes that let the timer of their *)
(* last slot expire before they join again, and whose corrections count no *)
(* slot between the read and the write of the number, also about time: the *)
(* timer is set for the start of the slot reached, and a node leaves only  *)
(* when its last synchronisation is too old or is being corrected.         *)
(***************************************************************************)
EXTENDS SlotEngine, Facts

(***************************************************************************)
(* The arithmetic of the slot number                                       *)
(***************************************************************************)

\* The ranges of the two words, and their product.
LEMMA WordFacts ==
  /\ Low \in Nat \ {0} /\ Low > 1 /\ High \in Nat \ {0}
  /\ Low * High \in Nat \ {0} /\ Low <= Low * High
<1>1. Low \in Nat \ {0} /\ Low > 1 /\ High \in Nat \ {0}
  BY RangeAssumption
<1>2. Low * High \in Nat \ {0} /\ Low <= Low * High
  BY <1>1
<1> QED  BY <1>1, <1>2

\* The two words stand for a number below the product of their ranges.
LEMMA ValueRange ==
  ASSUME NEW a \in Asn
  PROVE  /\ a.ms1b \in 0 .. High - 1 /\ a.ls4b \in 0 .. Low - 1
         /\ Value(a) \in 0 .. (Low * High) - 1
<1>1. a.ms1b \in 0 .. High - 1 /\ a.ls4b \in 0 .. Low - 1
  BY DEF Asn
<1>2. PICK m \in 0 .. High - 1 : m = a.ms1b
  BY <1>1
<1>3. PICK n \in 0 .. Low - 1 : n = a.ls4b
  BY <1>1
<1>4. m * Low \in Nat /\ m * Low <= (High - 1) * Low
  BY WordFacts
<1>5. (High - 1) * Low = (Low * High) - Low
  BY WordFacts
<1>6. m * Low + n \in 0 .. (Low * High) - 1
  BY <1>4, <1>5, WordFacts
<1> QED  BY <1>1, <1>2, <1>3, <1>6 DEF Value

\* A factor may be reduced before the product is.
LEMMA ModProduct ==
  ASSUME NEW m \in Int, NEW n \in Int, NEW d \in Nat \ {0}
  PROVE  (m * (n % d)) % d = (m * n) % d
<1>1. n % d \in 0 .. d - 1 /\ n \div d \in Int /\ n = d * (n \div d) + (n % d)
  BY ModRange
<1>2. PICK q \in Int : q = n \div d
  BY <1>1
<1>3. PICK r \in Int : r = n % d
  BY <1>1
<1>4. n = d * q + r
  BY <1>1, <1>2, <1>3
<1>5. m * n = m * r + d * (m * q)
  <2>1. m * n = m * (d * q) + m * r
    BY <1>4
  <2>2. m * (d * q) = d * (m * q)
    OBVIOUS
  <2> QED  BY <2>1, <2>2
<1>6. m * q \in Int /\ m * r \in Int
  OBVIOUS
<1>7. PICK k \in Int : k = m * q
  BY <1>6
<1>8. PICK x \in Int : x = m * r
  BY <1>6
<1>9. (x + d * k) % d = x % d
  BY ModMultiple
<1> QED  BY <1>3, <1>5, <1>7, <1>8, <1>9

\* ASN_MOD is the remainder of the number that the words stand for.
LEMMA RemainderOfWords ==
  ASSUME NEW a \in Asn, NEW s \in Nat \ {0}
  PROVE  ASN_MOD(a, s) = Value(a) % s
<1>1. PICK m \in 0 .. High - 1 : m = a.ms1b
  BY ValueRange
<1>2. PICK n \in 0 .. Low - 1 : n = a.ls4b
  BY ValueRange
<1>3. asn_ms1b_remainder(s) = Low % s
  <2>1. Low - 1 \in Int /\ 1 \in Int /\ (Low - 1) + 1 = Low
    BY WordFacts
  <2>2. (((Low - 1) % s) + 1) % s = ((Low - 1) + 1) % s
    BY <2>1, ModAdd
  <2> QED  BY <2>1, <2>2 DEF asn_ms1b_remainder
<1>4. m \in Int /\ n \in Int /\ Low \in Int
  BY WordFacts
<1>5. (m * (Low % s)) % s = (m * Low) % s
  BY <1>4, ModProduct
<1>6. PICK x \in Int : x = m * Low
  BY <1>4
<1>7. PICK y \in Int : y = x % s
  <2>1. x % s \in Int
    BY <1>6
  <2> QED  BY <2>1
<1>8. ASN_MOD(a, s) = ((n % s) + y) % s
  BY <1>1, <1>2, <1>3, <1>5, <1>6, <1>7 DEF ASN_MOD
<1>9. ((n % s) + y) % s = (n + y) % s
  BY <1>4, ModAdd
<1>10. ((x % s) + n) % s = (x + n) % s
  BY <1>4, ModAdd
<1>11. n + y = y + n
  BY <1>4
<1>12. Value(a) = x + n
  BY <1>1, <1>2, <1>6 DEF Value
<1> QED  BY <1>7, <1>8, <1>9, <1>10, <1>11, <1>12

\* ASN_INC adds, and carries, and wraps with the upper word.
LEMMA SumOfWords ==
  ASSUME NEW a \in Asn, NEW inc \in 0 .. Low - 1
  PROVE  /\ ASN_INC(a, inc) \in Asn
         /\ Value(ASN_INC(a, inc)) = (Value(a) + inc) % (Low * High)
<1>1. PICK m \in 0 .. High - 1 : m = a.ms1b
  BY ValueRange
<1>2. PICK n \in 0 .. Low - 1 : n = a.ls4b
  BY ValueRange
<1>3. PICK N \in Nat \ {0} : N = Low * High
  BY WordFacts
<1>4. PICK v \in 0 .. N - 1 : v = m * Low + n
  BY <1>1, <1>2, <1>3, ValueRange DEF Value
<1>5. (n + inc) % Low = IF n + inc < Low THEN n + inc ELSE n + inc - Low
  <2>1. CASE n + inc < Low
    <3>1. n + inc \in 0 .. Low - 1 /\ Low \in Nat \ {0}
      BY <2>1, WordFacts
    <3> QED  BY <2>1, <3>1, ModSmall
  <2>2. CASE ~(n + inc < Low)
    <3>1. /\ n + inc - Low \in 0 .. Low - 1 /\ Low \in Nat \ {0} /\ 1 \in Int
          /\ n + inc \in Int /\ n + inc = Low * 1 + (n + inc - Low)
      BY <2>2, WordFacts
    <3> QED  BY <2>2, <3>1, ModUnique
  <2> QED  BY <2>1, <2>2
<1>6. PICK b : b = ASN_INC(a, inc)
  OBVIOUS
<1>7. /\ b.ls4b = (n + inc) % Low
      /\ b.ms1b = IF (n + inc) % Low < n THEN (m + 1) % High ELSE m
      /\ b = [ms1b |-> b.ms1b, ls4b |-> b.ls4b]
  BY <1>1, <1>2, <1>6 DEF ASN_INC
<1>8. CASE n + inc < Low
  <2>1. b.ls4b = n + inc /\ b.ms1b = m
    BY <1>5, <1>7, <1>8
  <2>2. b \in Asn
    BY <1>7, <1>8, <2>1, WordFacts DEF Asn
  <2>3. Value(b) = v + inc
    BY <1>4, <2>1, WordFacts DEF Value
  <2>4. v + inc \in 0 .. N - 1
    <3>1. Value(b) \in 0 .. N - 1
      BY <1>3, <2>2, ValueRange
    <3> QED  BY <2>3, <3>1
  <2>5. (v + inc) % N = v + inc
    BY <2>4, ModSmall
  <2> QED  BY <1>1, <1>2, <1>3, <1>4, <1>6, <2>2, <2>3, <2>5 DEF Value
<1>9. CASE ~(n + inc < Low) /\ m + 1 < High
  <2>1. b.ls4b = n + inc - Low /\ b.ms1b = m + 1
    <3>1. n + inc - Low < n
      BY WordFacts
    <3>2. (m + 1) % High = m + 1
      BY <1>9, WordFacts, ModSmall
    <3> QED  BY <1>5, <1>7, <1>9, <3>1, <3>2
  <2>2. b \in Asn
    BY <1>7, <1>9, <2>1, WordFacts DEF Asn
  <2>3. Value(b) = v + inc
    <3>1. (m + 1) * Low = m * Low + Low
      BY WordFacts
    <3>2. m * Low \in Int
      BY WordFacts
    <3> QED  BY <1>4, <2>1, <3>1, <3>2, WordFacts DEF Value
  <2>4. v + inc \in 0 .. N - 1
    <3>1. Value(b) \in 0 .. N - 1
      BY <1>3, <2>2, ValueRange
    <3> QED  BY <2>3, <3>1
  <2>5. (v + inc) % N = v + inc
    BY <2>4, ModSmall
  <2> QED  BY <1>1, <1>2, <1>3, <1>4, <1>6, <2>2, <2>3, <2>5 DEF Value
<1>10. CASE ~(n + inc < Low) /\ ~(m + 1 < High)
  <2>1. b.ls4b = n + inc - Low /\ b.ms1b = 0
    <3>1. n + inc - Low < n
      BY WordFacts
    <3>2. m + 1 = High /\ High % High = 0
      <4>1. High \in Int /\ High \in Nat \ {0} /\ 1 \in Int /\ 0 \in 0 .. High - 1
            /\ High = High * 1 + 0
        BY WordFacts
      <4> QED  BY <1>10, <4>1, WordFacts, ModUnique
    <3> QED  BY <1>5, <1>7, <1>10, <3>1, <3>2
  <2>2. b \in Asn
    BY <1>7, <1>10, <2>1, WordFacts DEF Asn
  <2>3. Value(b) = n + inc - Low
    BY <2>1, WordFacts DEF Value
  <2>4. v + inc = N * 1 + (n + inc - Low)
    <3>1. m = High - 1
      BY <1>10, WordFacts
    <3>2. (High - 1) * Low = (Low * High) - Low
      BY WordFacts
    <3>3. m * Low = N - Low
      BY <1>3, <3>1, <3>2
    <3> QED  BY <1>4, <3>3, WordFacts
  <2>5. n + inc - Low \in 0 .. N - 1
    <3>1. Value(b) \in 0 .. N - 1
      BY <1>3, <2>2, ValueRange
    <3> QED  BY <2>3, <3>1
  <2>6. (v + inc) % N = n + inc - Low
    <3>1. v + inc \in Int /\ 1 \in Int
      BY WordFacts
    <3> QED  BY <2>4, <2>5, <3>1, ModUnique
  <2> QED  BY <1>1, <1>2, <1>3, <1>4, <1>6, <2>2, <2>3, <2>6 DEF Value
<1> QED  BY <1>8, <1>9, <1>10

----------------------------------------------------------------------------
(***************************************************************************)
(* The next active link                                                    *)
(***************************************************************************)

\* What the assumptions say of a link: its slotframe is shorter than the range
\* of the lower word, and divides the period of the ASN.
LEMMA LinkFacts ==
  ASSUME NEW l \in Link
  PROVE  /\ SizeOf(l) \in Nat \ {0} /\ SizeOf(l) < Low
         /\ (Low * High) % SizeOf(l) = 0
         /\ l.timeslot \in 0 .. SizeOf(l) - 1
         /\ l.sf \in Nat
<1>1. l.sf \in DOMAIN SlotframeSize /\ l.timeslot \in 0 .. (SizeOf(l) - 1)
  BY EngineAssumption
<1>2. DOMAIN SlotframeSize \subseteq Nat
      /\ \A i \in DOMAIN SlotframeSize : SlotframeSize[i] \in Nat \ {0}
  BY SlotframeAssumption
<1>3. \A i \in DOMAIN SlotframeSize :
         SlotframeSize[i] < Low /\ (Low * High) % SlotframeSize[i] = 0
  BY EngineAssumption
<1> QED  BY <1>1, <1>2, <1>3 DEF SizeOf

\* The remainder some slots later, less than a slotframe.
LEMMA LaterRemainder ==
  ASSUME NEW v \in Int, NEW s \in Nat \ {0}, NEW k \in 0 .. s
  PROVE  (v + k) % s = IF (v % s) + k < s THEN (v % s) + k ELSE (v % s) + k - s
<1>1. PICK r \in 0 .. s - 1 : r = v % s
  BY ModRange
<1>2. ((v % s) + k) % s = (v + k) % s
  <2>1. k \in Int
    OBVIOUS
  <2> QED  BY <2>1, ModAdd
<1>3. CASE r + k < s
  <2>1. r + k \in 0 .. s - 1
    BY <1>3
  <2>2. (r + k) % s = r + k
    BY <2>1, ModSmall
  <2> QED  BY <1>1, <1>2, <1>3, <2>2
<1>4. CASE ~(r + k < s)
  <2>1. /\ r + k - s \in 0 .. s - 1 /\ 1 \in Int /\ r + k \in Int
        /\ r + k = s * 1 + (r + k - s)
    BY <1>4
  <2>2. (r + k) % s = r + k - s
    BY <2>1, ModUnique
  <2> QED  BY <1>1, <1>2, <1>4, <2>2
<1> QED  BY <1>3, <1>4

\* time_to_timeslot counts the slots to the next one in which a link is active.
LEMMA DistanceToLink ==
  ASSUME NEW a \in Asn, NEW l \in Link
  PROVE  /\ time_to_timeslot(l, a) \in 1 .. SizeOf(l)
         /\ (Value(a) + time_to_timeslot(l, a)) % SizeOf(l) = l.timeslot
         /\ \A k \in 1 .. time_to_timeslot(l, a) - 1 :
              (Value(a) + k) % SizeOf(l) # l.timeslot
<1>1. PICK s \in Nat \ {0} : s = SizeOf(l) /\ l.timeslot \in 0 .. s - 1
  BY LinkFacts
<1>2. PICK v \in Nat : v = Value(a)
  BY ValueRange
<1>3. PICK r \in 0 .. s - 1 : r = v % s
  BY <1>1, <1>2, ModRange
<1>4. PICK t \in 1 .. s : /\ t = time_to_timeslot(l, a)
                          /\ t = IF l.timeslot > r THEN l.timeslot - r ELSE s + l.timeslot - r
  <2>1. ASN_MOD(a, SizeOf(l)) = r
    BY <1>1, <1>2, <1>3, RemainderOfWords
  <2>2. time_to_timeslot(l, a)
          = IF l.timeslot > r THEN l.timeslot - r ELSE s + l.timeslot - r
    BY <1>1, <2>1 DEF time_to_timeslot
  <2> QED  BY <1>1, <2>2
<1>5. \A k \in 0 .. s : (v + k) % s = IF r + k < s THEN r + k ELSE r + k - s
  <2>1. v \in Int
    OBVIOUS
  <2>2. \A k \in 0 .. s : (v + k) % s = IF (v % s) + k < s THEN (v % s) + k ELSE (v % s) + k - s
    BY <2>1, LaterRemainder
  <2> QED  BY <1>3, <2>2
<1>6. (v + t) % s = l.timeslot
  <2>1. t \in 0 .. s
    BY <1>1, <1>4
  <2>2. (v + t) % s = IF r + t < s THEN r + t ELSE r + t - s
    BY <1>5, <2>1
  <2> QED  BY <1>1, <1>3, <1>4, <2>2
<1>7. ASSUME NEW k \in 1 .. t - 1
      PROVE  (v + k) % s # l.timeslot
  <2>1. k \in 0 .. s
    BY <1>1, <1>4
  <2>2. (v + k) % s = IF r + k < s THEN r + k ELSE r + k - s
    BY <1>5, <2>1
  <2> QED  BY <1>1, <1>3, <1>4, <2>2
<1> QED  BY <1>1, <1>2, <1>4, <1>6, <1>7

\* The choice of the next link is well defined: no link is nearer.
LEMMA NextLinkChosen ==
  ASSUME NEW a \in Asn, NEW L \in SUBSET Link, L # {}
  PROVE  /\ NextActiveLink(L, a) \in L
         /\ \A m \in L : time_to_timeslot(NextActiveLink(L, a), a) <= time_to_timeslot(m, a)
<1> DEFINE f == [m \in L |-> time_to_timeslot(m, a)]
           g == [m \in L |-> m.sf]
<1>1. f \in [L -> Nat]
  <2>1. \A m \in L : time_to_timeslot(m, a) \in Nat
    BY DistanceToLink, LinkFacts
  <2> QED  BY <2>1
<1>2. g \in [L -> Nat]
  BY LinkFacts
<1>3. \A m \in L : f[m] = time_to_timeslot(m, a) /\ g[m] = m.sf
  OBVIOUS
<1> HIDE DEF f, g
<1>4. PICK k \in L : \A m \in L : f[k] < f[m] \/ (f[k] = f[m] /\ g[k] <= g[m])
  BY <1>1, <1>2, LeastOf
<1>5. \A m \in L :
        \/ time_to_timeslot(k, a) < time_to_timeslot(m, a)
        \/ /\ time_to_timeslot(k, a) = time_to_timeslot(m, a)
           /\ k.sf <= m.sf
  BY <1>3, <1>4
<1>6. /\ NextActiveLink(L, a) \in L
      /\ \A m \in L :
        \/ time_to_timeslot(NextActiveLink(L, a), a) < time_to_timeslot(m, a)
        \/ /\ time_to_timeslot(NextActiveLink(L, a), a) = time_to_timeslot(m, a)
           /\ NextActiveLink(L, a).sf <= m.sf
  BY <1>5 DEF NextActiveLink
<1>7. \A m \in L : time_to_timeslot(m, a) \in Nat
  BY <1>1, <1>3
<1> QED  BY <1>6, <1>7

\* What an iteration of the loop in tsch_link_operation computes: the number of
\* the slot to wake up in, which is the next one with a link, and the first.
LEMMA NextSlotFacts ==
  ASSUME current_asn \in Asn, FixedLink \subseteq links, links \subseteq Link
  PROVE  /\ Chosen \in Link \cup {NoLink}
         /\ timeslot_diff \in 1 .. Low - 1
         /\ Chosen # NoLink => ActiveAt(Chosen, (Value(current_asn) + timeslot_diff) % (Low * High))
         /\ \A k \in 1 .. timeslot_diff - 1 : \A l \in links :
              ~ActiveAt(l, (Value(current_asn) + k) % (Low * High))
<1>1. NoLink \notin Link /\ links # {}
  BY EngineAssumption
<1>2. CASE locked
  BY <1>2, WordFacts DEF Chosen, timeslot_diff
<1>3. CASE ~locked
  <2>1. PICK c \in links : c = NextActiveLink(links, current_asn)
    BY <1>1, NextLinkChosen
  <2>2. Chosen = c /\ c # NoLink /\ c \in Link
    BY <1>1, <1>3, <2>1 DEF Chosen
  <2>3. PICK d \in 1 .. SizeOf(c) : d = time_to_timeslot(c, current_asn)
    BY <2>2, DistanceToLink
  <2>4. timeslot_diff = d
    BY <2>2, <2>3 DEF timeslot_diff
  <2>5. d \in 1 .. Low - 1
    <3>1. PICK z \in Nat : z = SizeOf(c) /\ z < Low
      BY <2>2, LinkFacts
    <3> QED  BY <2>3, <3>1, WordFacts
  <2>6. ASSUME NEW l \in Link, NEW k \in Nat
        PROVE  ActiveAt(l, (Value(current_asn) + k) % (Low * High))
                 <=> (Value(current_asn) + k) % SizeOf(l) = l.timeslot
    <3>1. SizeOf(l) \in Nat \ {0} /\ (Low * High) % SizeOf(l) = 0
      BY LinkFacts
    <3>2. Value(current_asn) + k \in Int /\ Low * High \in Nat \ {0}
      BY ValueRange, WordFacts
    <3>3. ((Value(current_asn) + k) % (Low * High)) % SizeOf(l)
            = (Value(current_asn) + k) % SizeOf(l)
      BY <3>1, <3>2, ModOfMod
    <3> QED  BY <3>3 DEF ActiveAt
  <2>7. ActiveAt(c, (Value(current_asn) + d) % (Low * High))
    BY <2>2, <2>3, <2>5, <2>6, DistanceToLink
  <2>8. ASSUME NEW k \in 1 .. d - 1, NEW l \in links
        PROVE  ~ActiveAt(l, (Value(current_asn) + k) % (Low * High))
    <3>1. l \in Link
      OBVIOUS
    <3>2. d <= time_to_timeslot(l, current_asn)
      BY <1>1, <2>1, <2>3, NextLinkChosen
    <3>3. time_to_timeslot(l, current_asn) \in 1 .. SizeOf(l) /\ SizeOf(l) \in Nat
      BY <3>1, DistanceToLink, LinkFacts
    <3>4. k \in 1 .. time_to_timeslot(l, current_asn) - 1 /\ k \in Nat
      BY <2>5, <3>2, <3>3
    <3>5. (Value(current_asn) + k) % SizeOf(l) # l.timeslot
      BY <3>1, <3>4, DistanceToLink
    <3> QED  BY <2>6, <3>1, <3>4, <3>5
  <2> QED  BY <2>2, <2>4, <2>5, <2>7, <2>8
<1> QED  BY <1>2, <1>3

----------------------------------------------------------------------------
(***************************************************************************)
(* The invariant                                                           *)
(***************************************************************************)

\* A correction holds the lock, and from its first step on there is no link to
\* use: the interrupt that counts slots meanwhile finds the schedule locked.
AbortInv ==
    /\ correcting # "none" => locked /\ pc = "joined"
    /\ correcting \notin {"none", "abort"} => current_link = NoLink

\* The types, and the link that belongs to the slot.
IInv == TypeOK /\ LinkMatchesAsn /\ AbortInv

\* The ranges of the clock and of time.
LEMMA TimeFacts ==
  /\ SlotDuration \in Nat \ {0} /\ ClockRange \in Nat \ {0} /\ Period \in Nat \ {0}
  /\ MinDelay \in Nat \ {0} /\ TxOffset \in Nat /\ StartDelay \in Nat
  /\ BeaconPeriod \in Nat \ {0} /\ Threshold \in Nat /\ MaxBusy \in Nat
  /\ CtcAsn \in 0 .. Low - 1 /\ NetworkShift \subseteq Int
  /\ FixedLink \subseteq Link /\ NoLink \notin Link /\ MaxBeacons \in Nat
<1>1. /\ SlotDuration \in Nat \ {0} /\ ClockRange \in Nat \ {0} /\ MinDelay \in Nat \ {0}
      /\ TxOffset \in Nat /\ StartDelay \in Nat
      /\ BeaconPeriod \in Nat \ {0} /\ Threshold \in Nat /\ MaxBusy \in Nat
      /\ CtcAsn \in 0 .. Low - 1 /\ NetworkShift \subseteq Int
      /\ FixedLink \subseteq Link /\ NoLink \notin Link /\ MaxBeacons \in Nat
  BY EngineAssumption, RangeAssumption
<1>2. PICK N \in Nat \ {0} : N = Low * High
  BY WordFacts
<1>3. N * SlotDuration \in Nat \ {0}
  BY <1>1
<1> QED  BY <1>1, <1>2, <1>3 DEF Period

\* Slot numbers are converted to two words in range.
LEMMA AsnOfType ==
  ASSUME NEW n \in Int
  PROVE  AsnOf(n) \in Asn
<1>1. n \div Low \in Int
  BY WordFacts, ModRange
<1>2. (n \div Low) % High \in 0 .. High - 1 /\ n % Low \in 0 .. Low - 1
  BY <1>1, WordFacts, ModRange
<1> QED  BY <1>2 DEF AsnOf, Asn

\* A time of the period lies in one of its slots.
LEMMA SlotAtType ==
  ASSUME NEW t \in Int, NEW from \in Int
  PROVE  SlotAt(t, from) \in 0 .. (Low * High) - 1
<1>1. t - from \in Int
  OBVIOUS
<1>2. PICK x \in 0 .. Period - 1 : x = (t - from) % Period
  BY <1>1, TimeFacts, ModRange
<1>3. PICK N \in Nat \ {0} : N = Low * High
  BY WordFacts
<1>4. PICK d \in Nat \ {0} : d = SlotDuration
  BY TimeFacts
<1>5. Period = N * d
  BY <1>3, <1>4 DEF Period
<1>6. x \in Nat /\ x < N * d
  BY <1>2, <1>5, TimeFacts
<1>7. PICK q \in Nat : q = x \div d
  BY <1>6, QuotientRange
<1>8. PICK r \in 0 .. d - 1 : x = d * q + r
  <2>1. x % d \in 0 .. d - 1 /\ x = d * (x \div d) + (x % d)
    BY <1>6, ModRange
  <2> QED  BY <1>7, <2>1
<1>9. q < N
  <2>1. SUFFICES ASSUME N <= q PROVE FALSE
    OBVIOUS
  <2>2. N * d <= q * d
    BY <2>1
  <2>3. q * d = d * q
    OBVIOUS
  <2> QED  BY <1>6, <1>8, <2>2, <2>3
<1> QED  BY <1>2, <1>3, <1>4, <1>7, <1>9 DEF SlotAt

\* A reading of the clock is in its range.
LEMMA ClockType ==
  ASSUME NEW n \in Int
  PROVE  n % ClockRange \in 0 .. ClockRange - 1 /\ n % Period \in 0 .. Period - 1
BY TimeFacts, ModRange

\* The signed difference of two ASNs is less than the range of the lower word.
LEMMA SignedType ==
  ASSUME NEW a \in Asn, NEW b \in Asn
  PROVE  Signed(ASN_DIFF(a, b)) \in Difference \cup {0}
<1>1. a.ls4b - b.ls4b \in Int
  BY ValueRange, WordFacts
<1>2. PICK x \in 0 .. Low - 1 : x = ASN_DIFF(a, b)
  BY <1>1, WordFacts, ModRange DEF ASN_DIFF
<1>3. IF 2 * x < Low THEN x \in (1 - Low) .. (Low - 1) ELSE x - Low \in (1 - Low) .. (Low - 1)
  BY WordFacts
<1> QED  BY <1>2, <1>3 DEF Signed, Difference

\* What waits in the buffer of beacons.
LEMMA BufferType ==
  ASSUME TypeOK
  PROVE  /\ input_ringbuf \in Seq(Difference) /\ Len(input_ringbuf) <= MaxBeacons
         /\ \A e \in Difference : Len(input_ringbuf) < MaxBeacons =>
               Append(input_ringbuf, e) \in BoundedSeq(Difference, MaxBeacons)
         /\ input_ringbuf # <<>> =>
               /\ Head(input_ringbuf) \in Difference
               /\ Tail(input_ringbuf) \in BoundedSeq(Difference, MaxBeacons)
         /\ <<>> \in BoundedSeq(Difference, MaxBeacons)
<1>1. PICK n \in Nat : n = MaxBeacons
  BY TimeFacts
<1>2. \A q : q \in BoundedSeq(Difference, n) <=> q \in Seq(Difference) /\ Len(q) <= n
  BY BoundedSeqType
<1>3. PICK q \in Seq(Difference) : q = input_ringbuf /\ Len(q) <= n
  BY <1>1, <1>2 DEF TypeOK
<1>4. \A e \in Difference : Append(q, e) \in Seq(Difference) /\ Len(Append(q, e)) = Len(q) + 1
  OBVIOUS
<1>5. q # <<>> => Head(q) \in Difference /\ Tail(q) \in Seq(Difference) /\ Len(Tail(q)) = Len(q) - 1
  OBVIOUS
<1>6. <<>> \in Seq(Difference) /\ Len(<<>>) = 0
  OBVIOUS
<1>7. Len(q) \in Nat
  OBVIOUS
<1>8. ASSUME NEW e \in Difference, Len(q) < n
      PROVE  Append(q, e) \in BoundedSeq(Difference, n)
  <2>1. Append(q, e) \in Seq(Difference) /\ Len(Append(q, e)) <= n
    BY <1>4, <1>7, <1>8
  <2> QED  BY <2>1, BoundedSeqType
<1>9. ASSUME q # <<>>
      PROVE  Tail(q) \in BoundedSeq(Difference, n)
  <2>1. Tail(q) \in Seq(Difference) /\ Len(Tail(q)) <= n
    BY <1>3, <1>5, <1>7, <1>9
  <2> QED  BY <2>1, BoundedSeqType
<1>10. <<>> \in BoundedSeq(Difference, n)
  <2>1. <<>> \in Seq(Difference) /\ Len(<<>>) <= n
    BY <1>6
  <2> QED  BY <2>1, BoundedSeqType
<1> QED  BY <1>1, <1>3, <1>5, <1>8, <1>9, <1>10

\* Adding and subtracting stay in range, whatever the step.
LEMMA SumType ==
  ASSUME NEW a \in Asn, NEW d \in Int
  PROVE  ASN_INC(a, d) \in Asn /\ ASN_DEC(a, d) \in Asn
<1>1. /\ a.ls4b \in 0 .. Low - 1 /\ a.ms1b \in 0 .. High - 1
      /\ Low \in Nat \ {0} /\ High \in Nat \ {0}
  BY ValueRange, WordFacts
<1>2. a.ls4b + d \in Int /\ a.ls4b - d \in Int /\ a.ms1b + 1 \in Int /\ a.ms1b - 1 \in Int
  BY <1>1
<1>3. /\ (a.ls4b + d) % Low \in 0 .. Low - 1 /\ (a.ls4b - d) % Low \in 0 .. Low - 1
      /\ (a.ms1b + 1) % High \in 0 .. High - 1 /\ (a.ms1b - 1) % High \in 0 .. High - 1
  BY <1>1, <1>2, ModRange
<1> QED  BY <1>1, <1>3 DEF ASN_INC, ASN_DEC, Asn

\* The types and the link at the start.
LEMMA InitInv == Init => IInv
<1>1. SUFFICES ASSUME Init PROVE IInv
  OBVIOUS
<1>2. AsnOf(0) \in Asn
  BY AsnOfType
<1>3. 0 \in 0 .. Period - 1 /\ 0 \in 0 .. ClockRange - 1 /\ 0 \in 0 .. (Low * High) - 1
      /\ 0 \in 0 .. MinDelay /\ 0 \in 0 .. MaxBusy
      /\ <<>> \in BoundedSeq(Difference, MaxBeacons)
  <2>1. PICK n \in Nat : n = MaxBeacons
    BY TimeFacts
  <2>2. <<>> \in BoundedSeq(Difference, n)
    <3>1. <<>> \in Seq(Difference) /\ Len(<<>>) <= n
      OBVIOUS
    <3> QED  BY <3>1, BoundedSeqType
  <2> QED  BY <2>1, <2>2, TimeFacts, WordFacts
<1>4. TypeOK
  BY <1>1, <1>2, <1>3, TimeFacts DEF Init, TypeOK
<1>5. LinkMatchesAsn /\ AbortInv
  BY <1>1 DEF Init, LinkMatchesAsn, AbortInv
<1> QED  BY <1>4, <1>5 DEF IInv

\* Joining: the first link is only chosen afterwards.
LEMMA JoiningStep ==
  ASSUME IInv, Joining
  PROVE  IInv'
<1>1. TypeOK
  BY DEF IInv
<1>2. /\ now \in Int /\ epoch \in Int /\ network_epoch \in Int
      /\ SlotDuration \in Int /\ CtcAsn \in Int /\ StartDelay \in Int
      /\ CtcAsn \in 0 .. (Low * High) - 1 /\ 0 \in 0 .. MaxBusy
  BY <1>1, TimeFacts, WordFacts DEF TypeOK
<1>3. ASSUME NEW asn \in Asn, NEW start \in Int, Join(asn, start),
             last_sync_asn' \in Asn, epoch' \in 0 .. Period - 1,
             synced' \in 0 .. (Low * High) - 1
      PROVE  IInv'
  <2>1. start % ClockRange \in 0 .. ClockRange - 1
    BY <1>3, ClockType
  <2>2. TypeOK'
    BY <1>1, <1>2, <1>3, <2>1 DEF Join, TypeOK, timerVars, scheduleVars, correctionVars
  <2>3. correcting = "none"
    BY DEF IInv, AbortInv, Joining, JoinFromEb, JoinFromCtc, StartNetwork, MayJoin
  <2>4. LinkMatchesAsn' /\ AbortInv'
    BY <1>3, <2>3 DEF Join, LinkMatchesAsn, AbortInv, correctionVars
  <2> QED  BY <2>2, <2>4 DEF IInv
<1>4. CASE JoinFromEb
  <2>1. PICK slot \in 0 .. (Low * High) - 1 : slot = SlotAt(now, network_epoch)
    BY <1>2, SlotAtType
  <2>2. AsnOf(slot) \in Asn /\ network_epoch + slot * SlotDuration \in Int
    BY <1>2, <2>1, AsnOfType, WordFacts
  <2>3. /\ Join(AsnOf(slot), network_epoch + slot * SlotDuration)
        /\ last_sync_asn' = AsnOf(slot) /\ epoch' = network_epoch /\ synced' = slot
    BY <1>4, <2>1 DEF JoinFromEb
  <2>4. epoch' \in 0 .. Period - 1
    BY <1>1, <2>3 DEF TypeOK
  <2> QED  BY <1>3, <2>1, <2>2, <2>3, <2>4
<1>5. CASE JoinFromCtc
  <2>1. /\ Join(AsnOf(CtcAsn), now - SlotDuration)
        /\ last_sync_asn' = AsnOf(CtcAsn) /\ synced' = CtcAsn
        /\ epoch' = (now - SlotDuration - CtcAsn * SlotDuration) % Period
    BY <1>5 DEF JoinFromCtc
  <2>2. AsnOf(CtcAsn) \in Asn /\ now - SlotDuration \in Int
        /\ now - SlotDuration - CtcAsn * SlotDuration \in Int
    BY <1>2, AsnOfType
  <2>3. epoch' \in 0 .. Period - 1
    BY <2>1, <2>2, ClockType
  <2> QED  BY <1>2, <1>3, <2>1, <2>2, <2>3
<1>6. CASE StartNetwork
  <2>1. /\ Join(AsnOf(0), now + StartDelay)
        /\ last_sync_asn' = last_sync_asn /\ epoch' = epoch /\ synced' = synced
    BY <1>6 DEF StartNetwork
  <2>2. AsnOf(0) \in Asn /\ now + StartDelay \in Int
    BY <1>2, AsnOfType
  <2>3. last_sync_asn' \in Asn /\ epoch' \in 0 .. Period - 1 /\ synced' \in 0 .. (Low * High) - 1
    BY <1>1, <2>1 DEF TypeOK
  <2> QED  BY <1>3, <2>1, <2>2, <2>3
<1> QED  BY <1>4, <1>5, <1>6 DEF Joining

\* An iteration of the loop: the link chosen is the one of the number computed.
LEMMA AdvanceStep ==
  ASSUME TypeOK, AbortInv, Advance, correcting # "none" => pc' = pc, pc' \in {"associate", "initial", "joined"},
         op' \in {"none", "slot", "check", "loop"}, epoch' \in 0 .. Period - 1
  PROVE  IInv'
<1>1. /\ current_asn \in Asn /\ FixedLink \subseteq links /\ links \subseteq Link
      /\ current_link_start \in Int /\ 0 \in 0 .. MaxBusy
  BY TimeFacts DEF TypeOK
<1>2. /\ Chosen \in Link \cup {NoLink}
      /\ timeslot_diff \in 1 .. Low - 1
      /\ Chosen # NoLink => ActiveAt(Chosen, (Value(current_asn) + timeslot_diff) % (Low * High))
  BY <1>1, NextSlotFacts
<1>3. PICK d \in 0 .. Low - 1 : d = timeslot_diff
  BY <1>2
<1>4. /\ ASN_INC(current_asn, d) \in Asn
      /\ Value(ASN_INC(current_asn, d)) = (Value(current_asn) + d) % (Low * High)
  BY <1>1, SumOfWords
<1>5. PICK start : start = (current_link_start + timeslot_diff * SlotDuration) % ClockRange
  OBVIOUS
<1>6. start \in 0 .. ClockRange - 1
  <2>1. current_link_start + d * SlotDuration \in Int
    BY <1>1, <1>3, TimeFacts, WordFacts
  <2> QED  BY <1>3, <1>5, <2>1, ClockType
<1>7. /\ current_link' = Chosen /\ current_asn' = ASN_INC(current_asn, d)
      /\ current_link_start' = start
      /\ \/ settling' = MinDelay /\ task' = task /\ compare' = compare /\ busy' = busy
         \/ SetTimer(start) /\ busy' = 0 /\ settling' = settling
      /\ UNCHANGED <<now, mode, associated, last_sync_asn, links, locked,
                     input_ringbuf, correcting, asn_diff, asn_read, network_epoch, synced, miscounted>>
  BY <1>3, <1>5 DEF Advance, timerVars, scheduleVars, correctionVars
<1>8. /\ settling' \in 0 .. MinDelay /\ busy' \in 0 .. MaxBusy
      /\ task' \in 0 .. ClockRange - 1 \cup {None} /\ compare' \in 0 .. ClockRange - 1 \cup {None}
  BY <1>1, <1>6, <1>7, TimeFacts DEF TypeOK, SetTimer
<1>9. TypeOK'
  BY <1>2, <1>4, <1>6, <1>7, <1>8 DEF TypeOK
<1>10. LinkMatchesAsn'
  BY <1>2, <1>3, <1>4, <1>7 DEF LinkMatchesAsn
<1>11. AbortInv'
  BY <1>7 DEF AbortInv, Chosen
<1> QED  BY <1>9, <1>10, <1>11 DEF IInv

\* The first slot after joining.
LEMMA FirstSlotStep ==
  ASSUME IInv, FirstSlot
  PROVE  IInv'
<1>1. /\ TypeOK /\ AbortInv /\ Advance /\ pc' \in {"initial", "joined"} /\ op' = op
      /\ correcting = "none"
  BY DEF IInv, AbortInv, FirstSlot
<1>2. epoch' \in 0 .. Period - 1
  <2>1. epoch \in 0 .. Period - 1 /\ now \in Int
    BY <1>1, TimeFacts DEF TypeOK
  <2>2. current_asn' \in Asn /\ current_link_start' \in Int
    <3>1. /\ current_asn \in Asn /\ timeslot_diff \in Int /\ current_link_start \in Int
      BY <1>1, NextSlotFacts, TimeFacts, WordFacts DEF TypeOK
    <3>2. current_link_start + timeslot_diff * SlotDuration \in Int
      BY <3>1, TimeFacts
    <3>3. (current_link_start + timeslot_diff * SlotDuration) % ClockRange \in Int
      BY <3>2, TimeFacts
    <3> QED  BY <1>1, <3>1, <3>3, SumType DEF Advance
  <2>3. PICK v \in Int : v = Value(current_asn')
    BY <2>2, ValueRange
  <2>4. PICK w \in Int : w = (current_link_start' - now) % ClockRange
    <3>1. current_link_start' - now \in Int
      BY <2>1, <2>2
    <3> QED  BY <3>1, TimeFacts
  <2>5. now + w - v * SlotDuration \in Int
    BY <2>1, <2>3, <2>4, TimeFacts
  <2>6. (now + w - v * SlotDuration) % Period \in 0 .. Period - 1
    BY <2>5, ClockType
  <2>7. \/ epoch' = epoch
        \/ epoch' = (now + ((current_link_start' - now) % ClockRange)
                       - Value(current_asn') * SlotDuration) % Period
    BY DEF FirstSlot
  <2> QED  BY <2>1, <2>3, <2>4, <2>6, <2>7
<1>3. op' \in {"none", "slot", "check", "loop"}
  BY <1>1 DEF TypeOK
<1> QED  BY <1>1, <1>2, <1>3, AdvanceStep

\* The interrupt.
LEMMA EngineStep ==
  ASSUME IInv, Engine
  PROVE  IInv'
<1>1. TypeOK /\ LinkMatchesAsn /\ AbortInv
  BY DEF IInv
<1>2. 0 \in 0 .. MaxBusy
  BY TimeFacts
<1>3. CASE StartSlot \/ SkipSlot \/ StopEngine
  <2>1. TypeOK'
    BY <1>1, <1>2, <1>3 DEF StartSlot, SkipSlot, StopEngine, TakeTask, TypeOK,
                            asnVars, linkVars, scheduleVars, correctionVars, ghostVars
  <2>2. LinkMatchesAsn' /\ AbortInv'
    BY <1>1, <1>3 DEF StartSlot, SkipSlot, StopEngine, TakeTask, LinkMatchesAsn, AbortInv, scheduleVars, correctionVars,
                      asnVars, linkVars
  <2> QED  BY <2>1, <2>2 DEF IInv
<1>4. CASE CheckSync
  <2>1. TypeOK'
    BY <1>1, <1>4 DEF CheckSync, TypeOK, asnVars, linkVars, timerVars, scheduleVars, correctionVars, ghostVars
  <2>2. LinkMatchesAsn' /\ AbortInv'
    BY <1>1, <1>4 DEF CheckSync, LinkMatchesAsn, AbortInv, scheduleVars, correctionVars, asnVars, linkVars
  <2> QED  BY <2>1, <2>2 DEF IInv
<1>5. CASE NextSlot
  <2>1. Advance /\ pc' = pc /\ epoch' = epoch /\ op' \in {"loop", "none"}
    BY <1>5 DEF NextSlot
  <2>2. pc' \in {"associate", "initial", "joined"} /\ epoch' \in 0 .. Period - 1
    BY <1>1, <2>1 DEF TypeOK
  <2> QED  BY <1>1, <2>1, <2>2, AdvanceStep
<1>6. ASSUME NEW sync \in BOOLEAN, NEW eb \in BOOLEAN, EndSlot(sync, eb)
      PROVE  IInv'
  <2>1. now \in Int /\ busy \in Int /\ epoch \in Int /\ network_epoch \in Int
        /\ current_asn \in Asn
    BY <1>1, TimeFacts DEF TypeOK
  <2>2. now - busy \in Int
    BY <2>1
  <2>3. SlotAt(now - busy, epoch) \in 0 .. (Low * High) - 1
    BY <2>1, <2>2, SlotAtType
  <2>4. Drift \in Difference \cup {0}
    <3>1. SlotAt(now - busy, network_epoch) \in Int
      BY <2>1, <2>2, SlotAtType, WordFacts
    <3> QED  BY <2>1, <3>1, AsnOfType, SignedType DEF Drift
  <2>5. input_ringbuf' \in BoundedSeq(Difference, MaxBeacons)
    <3>1. CASE eb /\ Drift # 0
      BY <1>1, <1>6, <2>4, <3>1, BufferType DEF EndSlot
    <3>2. CASE ~(eb /\ Drift # 0)
      BY <1>1, <1>6, <3>2 DEF EndSlot, TypeOK
    <3> QED  BY <3>1, <3>2
  <2>6. TypeOK'
    BY <1>1, <1>6, <2>3, <2>5 DEF EndSlot, TypeOK, linkVars, timerVars, scheduleVars, correctionVars
  <2>7. LinkMatchesAsn' /\ AbortInv'
    BY <1>1, <1>6 DEF EndSlot, LinkMatchesAsn, AbortInv, scheduleVars, correctionVars, linkVars
  <2> QED  BY <2>6, <2>7 DEF IInv
<1> QED  BY <1>3, <1>4, <1>5, <1>6 DEF Engine

\* The steps of a correction that leave the number alone.
LEMMA CorrectionStep ==
  ASSUME TypeOK, LinkMatchesAsn, AbortInv,
         AbortNext \/ ReadAsn \/ WriteSync \/ Release
  PROVE  IInv'
<1> USE DEF Step
<1>1. AsnOf(0) \in Asn
  BY AsnOfType
<1>2. CASE AbortNext
  <2>1. TypeOK'
    BY <1>2 DEF AbortNext, TypeOK, asnVars, timerVars
  <2>2. LinkMatchesAsn' /\ AbortInv'
    BY <1>2 DEF AbortNext, LinkMatchesAsn, AbortInv
  <2> QED  BY <2>1, <2>2 DEF IInv
<1>3. CASE ReadAsn
  <2>1. TypeOK'
    BY <1>3 DEF ReadAsn, TypeOK, asnVars, timerVars
  <2>2. LinkMatchesAsn' /\ AbortInv'
    BY <1>3 DEF ReadAsn, LinkMatchesAsn, AbortInv, asnVars
  <2> QED  BY <2>1, <2>2 DEF IInv
<1>4. CASE WriteSync
  <2>1. Value(current_asn) \in 0 .. (Low * High) - 1
    BY ValueRange DEF TypeOK
  <2>2. TypeOK'
    BY <1>4, <2>1 DEF WriteSync, TypeOK, timerVars
  <2>3. LinkMatchesAsn' /\ AbortInv'
    BY <1>4 DEF WriteSync, LinkMatchesAsn, AbortInv
  <2> QED  BY <2>2, <2>3 DEF IInv
<1>5. CASE Release
  <2>1. TypeOK'
    BY <1>5 DEF Release, TypeOK, asnVars, timerVars
  <2>2. LinkMatchesAsn' /\ AbortInv'
    BY <1>5 DEF Release, LinkMatchesAsn, AbortInv, asnVars
  <2> QED  BY <2>1, <2>2 DEF IInv
<1> QED  BY <1>2, <1>3, <1>4, <1>5

\* The step that changes the number: no link is left that could not fit.
LEMMA WriteAsnStep ==
  ASSUME TypeOK, LinkMatchesAsn, AbortInv, WriteAsn
  PROVE  IInv'
<1>1. /\ asn_read \in Asn /\ current_asn \in Asn /\ epoch \in Int /\ synced \in Int
      /\ asn_diff \in Int /\ -asn_diff \in Int /\ SlotDuration \in Int
  BY WordFacts, TimeFacts DEF TypeOK, Difference
<1>2. PICK new \in Asn : new = Corrected(asn_read)
  BY <1>1, SumType DEF Corrected
<1>3. current_asn' \in Asn
  <2>1. PICK m \in Int : m = current_asn.ms1b + new.ms1b - asn_read.ms1b
    BY <1>1, <1>2, ValueRange, WordFacts
  <2>2. m % High \in 0 .. High - 1 /\ new.ls4b \in 0 .. Low - 1
    BY <1>2, ValueRange, WordFacts, ModRange
  <2>3. current_asn' = [ls4b |-> new.ls4b, ms1b |-> m % High]
    BY <1>2, <2>1 DEF WriteAsn
  <2> QED  BY <2>2, <2>3 DEF Asn
<1>4. epoch' \in 0 .. Period - 1
  <2>1. epoch + asn_diff * SlotDuration \in Int
    BY <1>1
  <2> QED  BY <2>1, ClockType DEF WriteAsn
<1>5. synced' \in 0 .. (Low * High) - 1
  <2>1. synced - asn_diff \in Int
    BY <1>1
  <2> QED  BY <2>1, WordFacts, ModRange DEF WriteAsn
<1>6. AsnOf(0) \in Asn
  BY AsnOfType
<1>7. TypeOK'
  BY <1>3, <1>4, <1>5, <1>6 DEF WriteAsn, Step, TypeOK, timerVars
<1>8. LinkMatchesAsn' /\ AbortInv'
  BY DEF WriteAsn, Step, LinkMatchesAsn, AbortInv
<1> QED  BY <1>7, <1>8 DEF IInv

\* The processes: what they change of the schedule or of the ASN unsets the
\* link that would no longer fit.
LEMMA ProcessesStep ==
  ASSUME IInv, Processes
  PROVE  IInv'
<1>1. TypeOK /\ LinkMatchesAsn /\ AbortInv
  BY DEF IInv
<1>2. CASE TakeLock
  <2>1. TypeOK'
    BY <1>1, <1>2 DEF TakeLock, TypeOK, asnVars, linkVars, timerVars, correctionVars, ghostVars
  <2>2. LinkMatchesAsn' /\ AbortInv'
    BY <1>1, <1>2 DEF TakeLock, LinkMatchesAsn, AbortInv, asnVars, linkVars, correctionVars
  <2> QED  BY <2>1, <2>2 DEF IInv
<1>3. ASSUME NEW l \in Link, AddLink(l)
      PROVE  IInv'
  <2>1. TypeOK'
    BY <1>1, <1>3 DEF AddLink, Section, TypeOK, asnVars, timerVars, correctionVars, ghostVars
  <2>2. LinkMatchesAsn' /\ AbortInv'
    BY <1>1, <1>3 DEF AddLink, Section, LinkMatchesAsn, AbortInv, asnVars, correctionVars
  <2> QED  BY <2>1, <2>2 DEF IInv
<1>4. ASSUME NEW l \in Link, RemoveLink(l)
      PROVE  IInv'
  <2>1. FixedLink \subseteq links \ {l}
    BY <1>1, <1>4 DEF RemoveLink, TypeOK
  <2>2. TypeOK'
    BY <1>1, <1>4, <2>1 DEF RemoveLink, Section, TypeOK, asnVars, timerVars, correctionVars, ghostVars
  <2>3. LinkMatchesAsn' /\ AbortInv'
    BY <1>1, <1>4 DEF RemoveLink, Section, LinkMatchesAsn, AbortInv, asnVars, correctionVars
  <2> QED  BY <2>2, <2>3 DEF IInv
<1>5. CASE BeginCorrection
  <2>1. TypeOK'
    BY <1>1, <1>5, BufferType DEF BeginCorrection, TypeOK, asnVars, linkVars, timerVars, ghostVars
  <2>2. LinkMatchesAsn' /\ AbortInv'
    BY <1>1, <1>5 DEF BeginCorrection, LinkMatchesAsn, AbortInv, asnVars, linkVars
  <2> QED  BY <2>1, <2>2 DEF IInv
<1>6. CASE AbortNext \/ ReadAsn \/ WriteSync \/ Release
  BY <1>1, <1>6, CorrectionStep
<1>7. CASE WriteAsn
  BY <1>1, <1>7, WriteAsnStep
<1>8. CASE LeaveForPriority
  <2>1. TypeOK'
    BY <1>1, <1>8 DEF LeaveForPriority, TypeOK, asnVars, linkVars, timerVars,
                      scheduleVars, correctionVars, ghostVars
  <2>2. LinkMatchesAsn' /\ AbortInv'
    BY <1>1, <1>8 DEF LeaveForPriority, LinkMatchesAsn, AbortInv, linkVars, scheduleVars, correctionVars
  <2> QED  BY <2>1, <2>2 DEF IInv
<1>9. CASE Reset
  <2>1. AsnOf(0) \in Asn
    BY AsnOfType
  <2>2. /\ 0 \in 0 .. ClockRange - 1 /\ 0 \in 0 .. (Low * High) - 1
        /\ <<>> \in BoundedSeq(Difference, MaxBeacons)
    BY <1>1, WordFacts, TimeFacts, BufferType
  <2>3. TypeOK'
    BY <1>1, <1>9, <2>1, <2>2 DEF Reset, TypeOK, timerVars, scheduleVars
  <2>4. LinkMatchesAsn' /\ AbortInv'
    BY <1>1, <1>9 DEF Reset, LinkMatchesAsn, AbortInv, scheduleVars
  <2> QED  BY <2>3, <2>4 DEF IInv
<1> QED  BY <1>2, <1>3, <1>4, <1>5, <1>6, <1>7, <1>8, <1>9, FirstSlotStep DEF Processes, Correction

\* Time passes, and the time source joins under other numbers.
LEMMA EnvironmentStep ==
  ASSUME IInv, TimeSourceRenumbers \/ Tick
  PROVE  IInv'
<1>1. TypeOK /\ LinkMatchesAsn /\ AbortInv
  BY DEF IInv
<1>2. CASE TimeSourceRenumbers
  <2>1. network_epoch' \in 0 .. Period - 1
    <3>1. PICK n \in NetworkShift : network_epoch' = (n * SlotDuration) % Period
      BY <1>2 DEF TimeSourceRenumbers
    <3>2. n * SlotDuration \in Int
      BY TimeFacts
    <3> QED  BY <3>1, <3>2, ClockType
  <2>2. TypeOK'
    BY <1>1, <1>2, <2>1 DEF TimeSourceRenumbers, TypeOK, asnVars, linkVars,
                            timerVars, scheduleVars, correctionVars
  <2>3. LinkMatchesAsn' /\ AbortInv'
    BY <1>1, <1>2 DEF TimeSourceRenumbers, LinkMatchesAsn, AbortInv, asnVars, linkVars,
                            scheduleVars, correctionVars
  <2> QED  BY <2>2, <2>3 DEF IInv
<1>3. CASE Tick
  <2>1. now' \in 0 .. Period - 1
    <3>1. now + 1 \in Int
      BY <1>1, TimeFacts DEF TypeOK
    <3> QED  BY <1>3, <3>1, ClockType DEF Tick
  <2>2. settling' \in 0 .. MinDelay /\ busy' \in 0 .. MaxBusy
    BY <1>1, <1>3, TimeFacts DEF Tick, TypeOK
  <2>3. TypeOK'
    BY <1>1, <1>3, <2>1, <2>2 DEF Tick, TypeOK, asnVars, linkVars, timerVars,
                                  scheduleVars, correctionVars, ghostVars
  <2>4. LinkMatchesAsn' /\ AbortInv'
    BY <1>1, <1>3 DEF Tick, LinkMatchesAsn, AbortInv, asnVars, linkVars,
                            scheduleVars, correctionVars
  <2> QED  BY <2>3, <2>4 DEF IInv
<1> QED  BY <1>2, <1>3

----------------------------------------------------------------------------
(***************************************************************************)
(* The theorems                                                            *)
(***************************************************************************)

\* The inductive invariant holds throughout.
THEOREM Invariance == Spec => []IInv
<1>1. IInv /\ [Next]_vars => IInv'
  <2>1. SUFFICES ASSUME IInv, [Next]_vars PROVE IInv'
    OBVIOUS
  <2>2. CASE UNCHANGED vars
    BY <2>1, <2>2 DEF IInv, TypeOK, LinkMatchesAsn, AbortInv, vars, asnVars, linkVars, timerVars,
                      scheduleVars, correctionVars, ghostVars
  <2>3. CASE Next
    BY <2>1, <2>3, JoiningStep, EngineStep, ProcessesStep, EnvironmentStep DEF Next
  <2> QED  BY <2>1, <2>2, <2>3
<1> QED  BY InitInv, <1>1, PTL DEF Spec

\* Every variable keeps its range: the two words of both ASNs, the readings of
\* the 16-bit clock, the corrections that wait.
THEOREM TypeCorrect == Spec => []TypeOK
<1>1. IInv => TypeOK
  BY DEF IInv
<1> QED  BY Invariance, <1>1, PTL

\* The link that is used in a slot is one the schedule has for the slot number
\* reached, for slotframes of any sizes: the rule for remainders of two words,
\* the carry, the wrap and the correction of the ASN never separate the two,
\* wherever in a correction the interrupt comes, even if the number is lost.
THEOREM LinkAlwaysMatches == Spec => []LinkMatchesAsn
<1>1. IInv => LinkMatchesAsn
  BY DEF IInv
<1> QED  BY Invariance, <1>1, PTL

(***************************************************************************)
(* The chain of timers                                                     *)
(***************************************************************************)

\* A task that is pending has the hardware set for it.  It is this, and not
\* that a slot sets a task, which the code leaves implicit: rtimer_set touches
\* the hardware only if no task was pending.
ArmedInv == AlwaysArmed /\ (task # None => compare # None)

\* An iteration of the loop that does not go round again sets the timer.
LEMMA AdvanceArms ==
  ASSUME TypeOK, ArmedInv, Advance
  PROVE  /\ task' # None => compare' # None
         /\ ~Missed => task' # None
<1>1. PICK start : start = (current_link_start + timeslot_diff * SlotDuration) % ClockRange
  OBVIOUS
<1>2. start # None
  <2>1. PICK d \in Int : d = timeslot_diff
    <3>1. current_asn \in Asn /\ FixedLink \subseteq links /\ links \subseteq Link
      BY DEF TypeOK
    <3> QED  BY <3>1, NextSlotFacts, WordFacts
  <2>2. current_link_start + d * SlotDuration \in Int
    BY TimeFacts DEF TypeOK
  <2>3. start \in 0 .. ClockRange - 1
    BY <1>1, <2>1, <2>2, ClockType
  <2> QED  BY <2>3, EngineAssumption
<1>3. CASE Missed
  BY <1>3 DEF Advance, ArmedInv, timerVars
<1>4. CASE ~Missed
  <2>1. SetTimer(start)
    BY <1>1, <1>4 DEF Advance
  <2> QED  BY <1>2, <2>1 DEF SetTimer, ArmedInv
<1> QED  BY <1>3, <1>4

\* The chain holds at the start, and no step breaks it: only the timer
\* interrupt takes the task, and it arms the next one or leaves the network.
LEMMA ArmedStep ==
  ASSUME TypeOK, ArmedInv, [Next]_vars
  PROVE  ArmedInv'
<1> USE DEF ArmedInv, AlwaysArmed
<1>1. CASE UNCHANGED vars
  BY <1>1 DEF vars, timerVars
<1>2. CASE Joining
  BY <1>2 DEF Joining, JoinFromEb, JoinFromCtc, StartNetwork, Join, timerVars
<1>3. CASE NextSlot \/ FirstSlot
  <2>1. Advance /\ (NextSlot \/ FirstSlot)
    BY <1>3 DEF NextSlot, FirstSlot
  <2>2. /\ task' # None => compare' # None
        /\ ~Missed => task' # None
    BY <2>1, AdvanceArms
  <2>3. CASE Missed
    <3>1. task' = task /\ compare' = compare /\ associated' = associated
      BY <2>1, <2>3 DEF Advance, timerVars
    <3>2. ~(pc' = "joined" /\ op' = "none") \/ (pc' = pc /\ op' = op)
      BY <1>3, <2>3 DEF NextSlot, FirstSlot
    <3> QED  BY <2>2, <3>1, <3>2
  <2> QED  BY <2>2, <2>3
<1>4. CASE StartSlot \/ SkipSlot \/ StopEngine
  BY <1>4 DEF StartSlot, SkipSlot, StopEngine, TakeTask
<1>5. CASE CheckSync
  BY <1>5 DEF CheckSync, timerVars
<1>6. CASE \E sync, eb \in BOOLEAN : EndSlot(sync, eb)
  BY <1>6 DEF EndSlot, timerVars
<1>7. CASE TakeLock \/ LeaveForPriority \/ Reset \/ TimeSourceRenumbers \/ Tick
  BY <1>7 DEF TakeLock, LeaveForPriority, Reset, TimeSourceRenumbers, Tick, timerVars
<1>8. CASE \E l \in Link : AddLink(l) \/ RemoveLink(l)
  BY <1>8 DEF AddLink, RemoveLink, Section, timerVars
<1>9. CASE BeginCorrection \/ AbortNext \/ ReadAsn \/ WriteAsn \/ WriteSync \/ Release
  BY <1>9 DEF BeginCorrection, AbortNext, ReadAsn, WriteAsn, WriteSync, Release, Step, timerVars
<1> QED
  BY <1>9, <1>1, <1>2, <1>3, <1>4, <1>5, <1>6, <1>7, <1>8 DEF Next, Engine, Processes, Correction

\* A node of a network always has its timer armed between two slots, for nodes
\* that join again quickly too.
THEOREM TimerAlwaysArmed == Spec => []AlwaysArmed
<1>1. Init => ArmedInv
  BY DEF Init, ArmedInv, AlwaysArmed
<1>2. IInv /\ ArmedInv /\ [Next]_vars => ArmedInv'
  BY ArmedStep DEF IInv
<1>3. ArmedInv => AlwaysArmed
  BY DEF ArmedInv
<1> QED  BY <1>1, <1>2, <1>3, Invariance, PTL DEF Spec

\* The step in which the interrupt goes on to another slot.
LEMMA PassingStep ==
  ASSUME TypeOK, Next, op = "loop", current_asn' # current_asn
  PROVE  \A k \in 1 .. ((Value(current_asn') - Value(current_asn) - 1) % (Low * High)) :
            \A l \in links : ~ActiveAt(l, (Value(current_asn) + k) % (Low * High))
<1>1. Advance
  <2>1. CASE Joining
    BY <2>1 DEF Joining, JoinFromEb, JoinFromCtc, StartNetwork, MayJoin
  <2>2. CASE Engine
    BY <2>2 DEF Engine, StartSlot, SkipSlot, StopEngine, TakeTask, AtCompare, CheckSync,
                NextSlot, EndSlot
  <2>3. CASE Processes
    BY <2>3 DEF Processes, Correction, FirstSlot, TakeLock, AddLink, RemoveLink, Section, BeginCorrection,
                AbortNext, ReadAsn, WriteAsn, WriteSync, Release, Step,
                ProcessRuns, LeaveForPriority, Reset
  <2>4. CASE TimeSourceRenumbers \/ Tick
    BY <2>4 DEF TimeSourceRenumbers, Tick, asnVars
  <2> QED  BY <2>1, <2>2, <2>3, <2>4 DEF Next
<1>2. current_asn \in Asn /\ FixedLink \subseteq links /\ links \subseteq Link
  BY DEF TypeOK
<1>3. PICK d \in 1 .. Low - 1 :
         /\ d = timeslot_diff
         /\ \A k \in 1 .. d - 1 : \A l \in links :
              ~ActiveAt(l, (Value(current_asn) + k) % (Low * High))
  BY <1>2, NextSlotFacts
<1>4. PICK v \in Nat : v = Value(current_asn)
  BY <1>2, ValueRange
<1>5. PICK N \in Nat \ {0} : N = Low * High /\ d \in 1 .. N - 1
  BY <1>3, WordFacts
<1>6. Value(current_asn') = (v + d) % N
  <2>1. d \in 0 .. Low - 1
    BY <1>3
  <2> QED  BY <1>1, <1>2, <1>3, <1>4, <1>5, <2>1, SumOfWords DEF Advance
<1>7. (((v + d) % N) - v - 1) % N = d - 1
  <2>1. PICK a \in Int : a = v + d
    OBVIOUS
  <2>2. PICK b \in Int : b = 0 - v - 1
    OBVIOUS
  <2>3. ((a % N) + b) % N = (a + b) % N
    BY ModAdd
  <2>4. PICK c \in Int : c = a % N
    <3>1. a % N \in Int
      OBVIOUS
    <3> QED  BY <3>1
  <2>5. c - v - 1 = c + b /\ a + b = d - 1 /\ d - 1 \in 0 .. N - 1
    BY <1>5, <2>1, <2>2
  <2>6. (d - 1) % N = d - 1
    BY <2>5, ModSmall
  <2> QED  BY <2>1, <2>3, <2>4, <2>5, <2>6
<1>8. (Value(current_asn') - Value(current_asn) - 1) % (Low * High) = d - 1
  BY <1>4, <1>5, <1>6, <1>7
<1> QED  BY <1>3, <1>8

\* No slot with a link is passed over, for slotframes of any sizes.
THEOREM NoneIsPassed == Spec => NoActiveSlotPassed
<1> DEFINE Passing ==
      op = "loop" /\ current_asn' # current_asn =>
        \A k \in 1 .. ((Value(current_asn') - Value(current_asn) - 1) % (Low * High)) :
            \A l \in links : ~ActiveAt(l, (Value(current_asn) + k) % (Low * High))
<1>1. IInv /\ [Next]_vars => [Passing]_vars
  BY PassingStep DEF IInv
<1> HIDE DEF Passing
<1>2. Spec => [][Passing]_vars
  BY Invariance, <1>1, PTL DEF Spec
<1> QED  BY <1>2 DEF NoActiveSlotPassed, Passing

----------------------------------------------------------------------------
(***************************************************************************)
(* Time.  ASN, link start and timer agree: all of it is arithmetic modulo  *)
(* the period of the ASN, of which the period of the clock is a divisor.   *)
(***************************************************************************)

\* Two numbers of ticks that are one time of the period.
SameTime(a, b) == a % Period = b % Period

\* It is an equivalence, and times move together.
LEMMA TimesEqual ==
  /\ \A a \in Int : SameTime(a, a)
  /\ \A a, b \in Int : SameTime(a, b) => SameTime(b, a)
  /\ \A a, b, c \in Int : SameTime(a, b) /\ SameTime(b, c) => SameTime(a, c)
BY DEF SameTime

\* The same.
LEMMA TimesMove ==
  ASSUME NEW a \in Int, NEW b \in Int, NEW x \in Int, NEW y \in Int,
         SameTime(a, b), x - a = y - b
  PROVE  SameTime(x, y)
<1>1. PICK P \in Nat \ {0} : P = Period
  BY TimeFacts
<1>2. PICK c \in Int : c = x - a
  OBVIOUS
<1>3. x = a + c /\ y = b + c
  BY <1>2
<1>4. a % P = b % P
  BY <1>1 DEF SameTime
<1>5. ((a % P) + c) % P = (a + c) % P
  BY ModAdd
<1>6. ((b % P) + c) % P = (b + c) % P
  BY ModAdd
<1>7. x % P = y % P
  BY <1>3, <1>4, <1>5, <1>6
<1> QED  BY <1>1, <1>7 DEF SameTime

\* The clock shows the time modulo its own, shorter, period.
LEMMA SameReading ==
  ASSUME NEW a \in Int, NEW b \in Int, SameTime(a, b)
  PROVE  a % ClockRange = b % ClockRange
<1>1. PICK P \in Nat \ {0}, R \in Nat \ {0} : P = Period /\ R = ClockRange
  BY TimeFacts
<1>2. P % R = 0
  BY <1>1, EngineAssumption
<1>3. (a % P) % R = a % R
  BY <1>2, ModOfMod
<1>4. (b % P) % R = b % R
  BY <1>2, ModOfMod
<1>5. a % P = b % P
  BY <1>1 DEF SameTime
<1> QED  BY <1>1, <1>3, <1>4, <1>5

\* A time is the same after the period.
LEMMA SameReduced ==
  ASSUME NEW a \in Int
  PROVE  a % Period \in 0 .. Period - 1 /\ SameTime(a % Period, a)
<1>1. PICK P \in Nat \ {0} : P = Period
  BY TimeFacts
<1>2. PICK x \in 0 .. P - 1 : x = a % P
  BY ModRange
<1>3. x % P = x
  BY ModSmall
<1> QED  BY <1>1, <1>2, <1>3 DEF SameTime

\* As many periods of slot numbers, as many periods of time.
LEMMA ScaledRemainder ==
  ASSUME NEW v \in Int
  PROVE  SameTime((v % (Low * High)) * SlotDuration, v * SlotDuration)
<1>1. PICK N \in Nat \ {0} : N = Low * High
  BY WordFacts
<1>2. PICK D \in Nat \ {0} : D = SlotDuration
  BY TimeFacts
<1>3. PICK P \in Nat \ {0} : P = Period /\ P = N * D
  BY <1>1, <1>2, TimeFacts DEF Period
<1>4. PICK q \in Int, r \in 0 .. N - 1 : r = v % N /\ v = N * q + r
  <2>1. v % N \in 0 .. N - 1 /\ v \div N \in Int /\ v = N * (v \div N) + (v % N)
    BY ModRange
  <2> QED  BY <2>1
<1>5. v * D = r * D + P * q
  <2>1. v * D = (N * q) * D + r * D
    BY <1>4
  <2>2. (N * q) * D = (N * D) * q
    OBVIOUS
  <2>3. (N * q) * D \in Int /\ r * D \in Int
    OBVIOUS
  <2> QED  BY <1>3, <2>1, <2>2, <2>3
<1>6. PICK x \in Int : x = r * D
  OBVIOUS
<1>7. (x + P * q) % P = x % P
  BY ModMultiple
<1> QED  BY <1>1, <1>2, <1>3, <1>4, <1>5, <1>6, <1>7 DEF SameTime

\* The slot some numbers later begins as many slots later.
LEMMA StartLater ==
  ASSUME NEW e \in Int, NEW v \in Int, NEW k \in Int
  PROVE  SameTime(e + ((v + k) % (Low * High)) * SlotDuration,
                  (e + v * SlotDuration) + k * SlotDuration)
<1>1. PICK N \in Nat \ {0} : N = Low * High
  BY WordFacts
<1>2. PICK D \in Nat \ {0} : D = SlotDuration
  BY TimeFacts
<1>3. v + k \in Int
  OBVIOUS
<1>4. PICK y \in Int : y = ((v + k) % N) * D
  <2>1. (v + k) % N \in Int
    BY <1>3
  <2> QED  BY <2>1
<1>5. PICK z \in Int : z = (v + k) * D
  OBVIOUS
<1>6. SameTime(y, z)
  BY <1>1, <1>2, <1>3, <1>4, <1>5, ScaledRemainder
<1>7. PICK a \in Int : a = (e + v * D) + k * D
  OBVIOUS
<1>8. (e + y) - y = a - z
  <2>1. (v + k) * D = v * D + k * D /\ v * D \in Int /\ k * D \in Int
    OBVIOUS
  <2> QED  BY <1>5, <1>7, <2>1
<1>9. SameTime(e + y, a)
  <2>1. PICK x \in Int : x = e + y
    OBVIOUS
  <2>2. x - y = a - z
    BY <1>8, <2>1
  <2>3. SameTime(x, a)
    BY <1>6, <2>2, TimesMove
  <2> QED  BY <2>1, <2>3
<1> QED  BY <1>1, <1>2, <1>4, <1>7, <1>9

\* The slot that a time lies in, when it is known up to the period.
LEMMA SlotOfTime ==
  ASSUME NEW t \in Int, NEW e \in Int, NEW y \in Int, NEW r \in 0 .. SlotDuration - 1,
         SameTime(t, e + y * SlotDuration + r)
  PROVE  SlotAt(t, e) = y % (Low * High)
<1>1. PICK N \in Nat \ {0} : N = Low * High
  BY WordFacts
<1>2. PICK D \in Nat \ {0} : D = SlotDuration /\ r \in 0 .. D - 1
  BY TimeFacts
<1>3. PICK P \in Nat \ {0} : P = Period /\ P = N * D
  BY <1>1, <1>2, TimeFacts DEF Period
<1>4. PICK s \in 0 .. N - 1 : s = y % N
  BY ModRange
<1>5. PICK a \in Int, b \in Int : a = y * D /\ b = s * D
  OBVIOUS
<1>6. SameTime(b, a)
  BY <1>1, <1>2, <1>4, <1>5, ScaledRemainder
<1>7. SameTime(t, e + a + r)
  BY <1>2, <1>5
<1>8. SameTime(t - e, b + r)
  <2>1. SameTime(t - e, a + r)
    <3>1. (t - e) - t = (a + r) - (e + a + r)
      BY <1>2
    <3>2. t - e \in Int /\ a + r \in Int /\ e + a + r \in Int
      BY <1>2
    <3> QED  BY <1>7, <3>1, <3>2, TimesMove
  <2>2. SameTime(b + r, a + r)
    <3>1. (b + r) - b = (a + r) - a /\ b + r \in Int /\ a + r \in Int
      BY <1>2
    <3> QED  BY <1>6, <3>1, TimesMove
  <2>3. t - e \in Int /\ a + r \in Int /\ b + r \in Int
    BY <1>2
  <2> QED  BY <2>1, <2>2, <2>3, TimesEqual
<1>9. b + r \in 0 .. P - 1
  <2>1. s <= N - 1 /\ s \in Nat
    BY <1>4
  <2>2. s * D <= (N - 1) * D /\ s * D \in Nat
    BY <2>1
  <2>3. (N - 1) * D = N * D - D
    OBVIOUS
  <2> QED  BY <1>2, <1>3, <1>5, <2>2, <2>3
<1>10. (b + r) % P = b + r
  BY <1>9, ModSmall
<1>11. (b + r) \div D = s
  <2>1. b + r = D * s + r /\ b + r \in Int /\ s \in Int
    BY <1>2, <1>5, <1>4
  <2> QED  BY <1>2, <2>1, ModUnique
<1>12. (t - e) % P = b + r
  BY <1>3, <1>8, <1>10 DEF SameTime
<1> QED  BY <1>1, <1>2, <1>3, <1>4, <1>11, <1>12 DEF SlotAt

\* check_timer_miss: with a reference that lies in the past, by less than one
\* round of the clock, and a target less than one round after it, a deadline is
\* missed if and only if it is over, RTIMER_MIN_DELAY early.
LEMMA MissedMeansLate ==
  ASSUME NEW s \in Int, NEW t \in Int, NEW late \in 0 .. ClockRange - 1,
         NEW o \in MinDelay .. ClockRange - 1, SameTime(t, s + late)
  PROVE  check_timer_miss(s % ClockRange, o % ClockRange, t % ClockRange)
           <=> o <= late + MinDelay
<1>1. PICK C \in Nat \ {0} : C = ClockRange
  BY TimeFacts
<1>2. PICK m \in Nat \ {0} : m = MinDelay
  BY TimeFacts
<1>3. PICK r \in 0 .. C - 1 : r = s % C
  BY ModRange
<1>4. o \in m .. C - 1 /\ late \in 0 .. C - 1
  BY <1>1, <1>2
<1>5. o % C = o
  <2>1. o \in 0 .. C - 1
    BY <1>4
  <2> QED  BY <2>1, ModSmall
<1>6. PICK p \in 0 .. C - 1 : p = t % C
  BY ModRange
<1>7. PICK g \in 0 .. C - 1 : g = (r + o - m) % C
  <2>1. r + o - m \in Int
    BY <1>3, <1>4
  <2> QED  BY <2>1, ModRange
<1>8. p = IF r + late < C THEN r + late ELSE r + late - C
  <2>1. s + late \in Int
    BY <1>4
  <2>2. p = (s + late) % C
    BY <1>1, <1>6, <2>1, SameReading
  <2>3. (s + late) % C = IF (s % C) + late < C THEN (s % C) + late ELSE (s % C) + late - C
    <3>1. late \in 0 .. C
      BY <1>4
    <3> QED  BY <3>1, LaterRemainder
  <2> QED  BY <1>3, <2>2, <2>3
<1>9. g = IF r + (o - m) < C THEN r + (o - m) ELSE r + (o - m) - C
  <2>1. r % C = r
    BY ModSmall
  <2>2. o - m \in 0 .. C /\ r \in Int
    BY <1>3, <1>4
  <2>3. (r + (o - m)) % C = IF (r % C) + (o - m) < C THEN (r % C) + (o - m)
                            ELSE (r % C) + (o - m) - C
    BY <2>2, LaterRemainder
  <2>4. r + (o - m) = r + o - m
    BY <2>2, <1>4
  <2> QED  BY <1>7, <2>1, <2>3, <2>4
<1>10. check_timer_miss(r, o, p) = IF (p < r) = (g < r) THEN g <= p ELSE p < r
  BY <1>1, <1>2, <1>7 DEF check_timer_miss
<1>11. (IF (p < r) = (g < r) THEN g <= p ELSE p < r) <=> o <= late + m
  BY <1>3, <1>4, <1>6, <1>7, <1>8, <1>9
<1>12. check_timer_miss(r, o, p) <=> o <= late + m
  BY <1>10, <1>11
<1> QED  BY <1>1, <1>2, <1>3, <1>5, <1>6, <1>12

(***************************************************************************)
(* The numbers of two networks                                             *)
(***************************************************************************)

\* A slot number survives its two words.
LEMMA NumberOfWords ==
  ASSUME NEW n \in 0 .. (Low * High) - 1
  PROVE  AsnOf(n) \in Asn /\ Value(AsnOf(n)) = n
<1>1. PICK N \in Nat \ {0} : N = Low * High
  BY WordFacts
<1>2. n \in 0 .. N - 1 /\ n \in Nat /\ n \in Int
  BY <1>1
<1>3. PICK q \in Nat, r \in 0 .. Low - 1 : q = n \div Low /\ r = n % Low /\ n = Low * q + r
  <2>1. n \div Low \in 0 .. n
    BY <1>2, WordFacts, QuotientRange
  <2>2. n % Low \in 0 .. Low - 1 /\ n = Low * (n \div Low) + (n % Low)
    BY <1>2, WordFacts, ModRange
  <2>3. n \div Low \in Nat
    BY <1>2, <2>1
  <2> QED  BY <2>2, <2>3
<1>4. q < High
  <2>1. SUFFICES ASSUME High <= q PROVE FALSE
    BY WordFacts
  <2>2. Low * High <= Low * q
    BY <2>1, WordFacts
  <2>3. Low * q <= n /\ n < N
    <3>1. Low * q \in Int
      BY WordFacts
    <3> QED  BY <1>2, <1>3, <3>1, WordFacts
  <2>4. Low * q \in Int /\ n \in Int
    BY WordFacts
  <2> QED  BY <1>1, <2>2, <2>3, <2>4
<1>5. q % High = q
  <2>1. q \in 0 .. High - 1 /\ High \in Nat \ {0}
    BY <1>4, WordFacts
  <2> QED  BY <2>1, ModSmall
<1>6. AsnOf(n) = [ms1b |-> q, ls4b |-> r]
  BY <1>3, <1>5 DEF AsnOf
<1>7. Low * q = q * Low
  BY WordFacts
<1>8. AsnOf(n) \in Asn
  BY <1>2, AsnOfType
<1> QED  BY <1>3, <1>6, <1>7, <1>8 DEF Value

\* The lower word is the number up to its range.
LEMMA LowerWord ==
  ASSUME NEW a \in Asn
  PROVE  a.ls4b = Value(a) % Low
<1>1. PICK m \in 0 .. High - 1 : m = a.ms1b
  BY ValueRange
<1>2. PICK n \in 0 .. Low - 1 : n = a.ls4b
  BY ValueRange
<1>3. PICK v \in Int : v = m * Low + n
  BY WordFacts
<1>4. v = Low * m + n /\ Low \in Nat \ {0} /\ m \in Int
  <2>1. m * Low = Low * m
    BY WordFacts
  <2> QED  BY <1>3, <2>1, WordFacts
<1>5. v % Low = n
  BY <1>4, ModUnique
<1> QED  BY <1>1, <1>2, <1>3, <1>5 DEF Value

\* ASN_DEC subtracts, and borrows, and wraps with the upper word: it undoes
\* ASN_INC.
LEMMA DifferenceOfWords ==
  ASSUME NEW a \in Asn, NEW dec \in 0 .. Low - 1
  PROVE  /\ ASN_DEC(a, dec) \in Asn
         /\ Value(ASN_DEC(a, dec)) = (Value(a) - dec) % (Low * High)
<1>1. PICK m \in 0 .. High - 1 : m = a.ms1b
  BY ValueRange
<1>2. PICK n \in 0 .. Low - 1 : n = a.ls4b
  BY ValueRange
<1>3. PICK N \in Nat \ {0} : N = Low * High
  BY WordFacts
<1>4. /\ n - dec \in Int /\ m - 1 \in Int /\ dec \in Int /\ 1 \in Int
      /\ Low \in Nat \ {0} /\ High \in Nat \ {0}
  BY WordFacts
<1>5. PICK x \in 0 .. Low - 1 : x = (n - dec) % Low
  BY <1>4, ModRange
<1>6. PICK y \in 0 .. High - 1 : y = IF x > n THEN (m - 1) % High ELSE m
  BY <1>4, ModRange
<1>7. PICK b : b = ASN_DEC(a, dec)
  OBVIOUS
<1>8. b = [ms1b |-> y, ls4b |-> x]
  BY <1>1, <1>2, <1>5, <1>6, <1>7 DEF ASN_DEC
<1>9. b \in Asn /\ b.ms1b = y /\ b.ls4b = x
  BY <1>8 DEF Asn
<1>10. (x + dec) % Low = n
  <2>1. (((n - dec) % Low) + dec) % Low = ((n - dec) + dec) % Low
    BY <1>4, ModAdd
  <2>2. (n - dec) + dec = n
    BY <1>4
  <2>3. n % Low = n
    BY <1>4, ModSmall
  <2> QED  BY <1>5, <2>1, <2>2, <2>3
<1>11. n < x => (y + 1) % High = m
  <2>1. (((m - 1) % High) + 1) % High = ((m - 1) + 1) % High
    BY <1>4, ModAdd
  <2>2. (m - 1) + 1 = m
    OBVIOUS
  <2>3. m % High = m
    BY <1>4, ModSmall
  <2> QED  BY <1>6, <2>1, <2>2, <2>3
<1>12. ASN_INC(b, dec) = [ms1b |-> m, ls4b |-> n]
  <2>1. ASN_INC(b, dec) = [ms1b |-> IF n < x THEN (y + 1) % High ELSE y, ls4b |-> n]
    BY <1>9, <1>10 DEF ASN_INC
  <2>2. (IF n < x THEN (y + 1) % High ELSE y) = m
    BY <1>6, <1>11
  <2> QED  BY <2>1, <2>2
<1>13. ASN_INC(b, dec) = a
  BY <1>1, <1>2, <1>12 DEF Asn
<1>14. PICK v \in 0 .. N - 1, w \in 0 .. N - 1 : v = Value(a) /\ w = Value(b)
  BY <1>3, <1>9, ValueRange
<1>15. v = (w + dec) % N
  BY <1>3, <1>9, <1>13, <1>14, SumOfWords
<1>16. (v - dec) % N = w
  <2>1. PICK c \in Int, s \in Int : c = 0 - dec /\ s = w + dec
    BY <1>4
  <2>2. ((s % N) + c) % N = (s + c) % N
    BY ModAdd
  <2>3. s + c = w /\ v + c = v - dec
    BY <1>4, <2>1
  <2>4. w % N = w
    BY ModSmall
  <2> QED  BY <1>15, <2>1, <2>2, <2>3, <2>4
<1> QED  BY <1>3, <1>7, <1>9, <1>14, <1>16

\* A correction subtracts its difference, in either direction.
LEMMA CorrectedValue ==
  ASSUME NEW a \in Asn, asn_diff \in Int, -Low < asn_diff, asn_diff < Low
  PROVE  /\ Corrected(a) \in Asn
         /\ Value(Corrected(a)) = (Value(a) - asn_diff) % (Low * High)
<1>1. CASE asn_diff > 0
  <2>1. asn_diff \in 0 .. Low - 1
    BY <1>1, WordFacts
  <2> QED  BY <1>1, <2>1, DifferenceOfWords DEF Corrected
<1>2. CASE ~(asn_diff > 0)
  <2>1. PICK d \in 0 .. Low - 1 : d = -asn_diff
    BY <1>2, WordFacts
  <2>2. /\ ASN_INC(a, d) \in Asn
        /\ Value(ASN_INC(a, d)) = (Value(a) + d) % (Low * High)
    BY SumOfWords
  <2>3. Value(a) + d = Value(a) - asn_diff
    BY <2>1, ValueRange
  <2> QED  BY <1>2, <2>1, <2>2, <2>3 DEF Corrected
<1> QED  BY <1>1, <1>2

(***************************************************************************)
(* The invariant of time                                                   *)
(***************************************************************************)

\* When the slot of this number begins, in the node's numbering.
SlotStart == epoch + Value(current_asn) * SlotDuration

\* What runs when: the interrupt holds no task, a node that is joining has
\* none pending, only a beacon makes a process leave.
ControlInv ==
    /\ pc = "initial" => op = "none" /\ associated /\ task = None
    /\ pc = "associate" => ~associated
    /\ op # "none" => task = None
    /\ settling > 0 => op = "loop" \/ pc = "initial"
    /\ mode # "eb" /\ ~associated => op = "none" /\ task = None

\* The last synchronisation is kept in the numbering of the ASN, but for the
\* moment after a correction of only the latter.
SyncInv ==
    associated /\ mode # "coordinator" /\ correcting # "sync" => synced = Value(last_sync_asn)

\* The link start is the reading of the clock at the start of the slot; a node
\* that starts a network has no numbering before its first slot.
ClockInv ==
    associated /\ (pc = "joined" \/ mode # "coordinator") =>
        current_link_start = SlotStart % ClockRange

\* The timer is set for the link start, less than one round ahead.
WaitInv == associated /\ task # None => compare = current_link_start /\ compare # None

\* A slot began when it was to begin.
SlotInv == associated /\ op \in {"slot", "check"} => SameTime(now - busy, SlotStart)

\* In the loop, and while joining, the slot reached lies in the past, if the
\* ticks after a missed deadline are counted, by less than a round of the clock.
LoopInv ==
    associated /\ op = "loop" =>
        \E late \in 0 .. MaxBusy : SameTime(now + settling, SlotStart + late)

InitialInv ==
    pc = "initial" /\ mode # "coordinator" =>
        \E late \in 0 .. SlotDuration + busy : SameTime(now + settling, SlotStart + late)

\* All about time of a node that belongs to a network.
Timing == ClockInv /\ WaitInv /\ TimerAtSlot /\ SlotInv /\ LoopInv /\ InitialInv

\* What holds as long as no correction has undone a count of slots.
ExactInv == SyncInv /\ Timing

TimeInv == ControlInv /\ (miscounted \/ ExactInv)

\* What the variables of time may be.
LEMMA TimeTypes ==
  ASSUME TypeOK
  PROVE  /\ now \in 0 .. Period - 1 /\ now \in Int /\ settling \in Int /\ busy \in Int
         /\ settling \in 0 .. MinDelay /\ busy \in 0 .. MaxBusy
         /\ epoch \in 0 .. Period - 1 /\ network_epoch \in 0 .. Period - 1
         /\ epoch \in Int /\ network_epoch \in Int
         /\ current_asn \in Asn /\ last_sync_asn \in Asn
         /\ Value(current_asn) \in 0 .. (Low * High) - 1 /\ Value(current_asn) \in Int
         /\ SlotStart \in Int /\ current_link_start \in 0 .. ClockRange - 1
         /\ synced \in 0 .. (Low * High) - 1
<1>1. /\ now \in 0 .. Period - 1 /\ settling \in 0 .. MinDelay /\ busy \in 0 .. MaxBusy
      /\ epoch \in 0 .. Period - 1 /\ network_epoch \in 0 .. Period - 1
      /\ current_asn \in Asn /\ last_sync_asn \in Asn
      /\ current_link_start \in 0 .. ClockRange - 1 /\ synced \in 0 .. (Low * High) - 1
  BY DEF TypeOK
<1>2. /\ now \in Int /\ settling \in Int /\ busy \in Int /\ epoch \in Int /\ network_epoch \in Int
  BY <1>1, TimeFacts
<1>3. Value(current_asn) \in 0 .. (Low * High) - 1 /\ Value(current_asn) \in Int
  BY <1>1, ValueRange
<1>4. SlotStart \in Int
  BY <1>2, <1>3, TimeFacts DEF SlotStart
<1> QED  BY <1>1, <1>2, <1>3, <1>4

\* TimerAtSlot is that the timer goes off when the slot begins.
LEMMA TimerAtSlotMeans ==
  ASSUME TypeOK
  PROVE  TimerAtSlot <=> (pc = "joined" /\ associated /\ task # None =>
                       SameTime(now + ((compare - now) % ClockRange), SlotStart))
BY DEF TimerAtSlot, SameTime, SlotStart

\* The ticks to a reading of the clock that is less than one round ahead.
LEMMA TicksAhead ==
  ASSUME NEW t \in Int, NEW s \in Int, NEW w \in 0 .. ClockRange - 1, SameTime(t + w, s)
  PROVE  ((s % ClockRange) - t) % ClockRange = w
<1>1. PICK C \in Nat \ {0} : C = ClockRange
  BY TimeFacts
<1>2. PICK a \in Int, b \in Int : a = t + w /\ b = 0 - t
  BY <1>1
<1>3. s % C = a % C
  BY <1>1, <1>2, SameReading
<1>4. PICK r \in 0 .. C - 1 : r = s % C
  BY ModRange
<1>5. ((a % C) + b) % C = (a + b) % C
  BY ModAdd
<1>6. a + b = w /\ r - t = r + b /\ w \in 0 .. C - 1
  BY <1>1, <1>2
<1>7. w % C = w
  BY <1>6, ModSmall
<1> QED  BY <1>1, <1>3, <1>4, <1>5, <1>6, <1>7

\* A link is less than one round of the clock ahead, and at least one slot.
LEMMA NextDistance ==
  ASSUME TypeOK
  PROVE  /\ timeslot_diff \in 1 .. Low - 1
         /\ timeslot_diff * SlotDuration \in MinDelay + 1 .. ClockRange - 1
         /\ SlotDuration <= timeslot_diff * SlotDuration
<1>1. /\ current_asn \in Asn /\ FixedLink \subseteq links /\ links \subseteq Link
  BY DEF TypeOK
<1>2. PICK d \in 1 .. Low - 1 :
         /\ d = timeslot_diff
         /\ \A k \in 1 .. d - 1 : \A l \in links :
              ~ActiveAt(l, (Value(current_asn) + k) % (Low * High))
  BY <1>1, NextSlotFacts
<1>3. PICK D \in Nat \ {0} : D = SlotDuration
  BY TimeFacts
<1>4. PICK m \in Nat : m = MinDelay /\ m < D
  BY <1>3, TimeFacts, EngineAssumption
<1>5. PICK C \in Nat : C = ClockRange /\ D < C
  BY <1>3, TimeFacts, EngineAssumption
<1>6. PICK f \in FixedLink : SizeOf(f) * D < C
  BY <1>3, <1>5, EngineAssumption
<1>7. f \in links /\ f \in Link
  BY <1>1
<1>8. PICK z \in Nat \ {0} : z = SizeOf(f) /\ (Low * High) % z = 0
  BY <1>7, LinkFacts
<1>9. PICK t \in 1 .. z : (Value(current_asn) + t) % z = f.timeslot
  BY <1>1, <1>7, <1>8, DistanceToLink
<1>10. d <= t
  <2>1. SUFFICES ASSUME ~(d <= t) PROVE FALSE
    OBVIOUS
  <2>2. t \in 1 .. d - 1
    BY <2>1
  <2>3. ~ActiveAt(f, (Value(current_asn) + t) % (Low * High))
    BY <1>2, <1>7, <2>2
  <2>4. PICK x \in Int : x = Value(current_asn) + t
    BY <1>1, ValueRange
  <2>5. (x % (Low * High)) % z = x % z
    BY <1>8, WordFacts, ModOfMod
  <2> QED  BY <1>8, <1>9, <2>3, <2>4, <2>5 DEF ActiveAt
<1>11. d * D <= z * D
  <2>1. d \in Nat /\ z \in Nat /\ d <= z
    BY <1>9, <1>10
  <2> QED  BY <2>1
<1>12. D <= d * D /\ d * D \in Nat
  OBVIOUS
<1>13. d * D \in m + 1 .. C - 1 /\ D <= d * D
  <2>1. z * D \in Nat /\ z * D < C
    BY <1>6, <1>8
  <2> QED  BY <1>4, <1>11, <1>12, <2>1
<1> QED  BY <1>2, <1>3, <1>4, <1>5, <1>13

(***************************************************************************)
(* The steps                                                               *)
(***************************************************************************)

\* An iteration of the loop, in a slot that began less than one round of the
\* clock ago: the next slot is reached, and either its start is missed, and the
\* delay of the code leads past it, or the timer is set for it.
LEMMA AdvanceTiming ==
  ASSUME TypeOK, TypeOK', Advance, task = None, epoch' = epoch,
         NEW late \in 0 .. ClockRange - 1, SameTime(now, SlotStart + late),
         current_link_start = SlotStart % ClockRange
  PROVE  /\ current_link_start' = SlotStart' % ClockRange
         /\ Missed => /\ settling' = MinDelay /\ task' = None /\ busy' = busy
                      /\ \E rest \in 0 .. late : SameTime(now' + settling', SlotStart' + rest)
         /\ ~Missed => /\ settling' = settling
                       /\ compare' = current_link_start' /\ compare' # None
                       /\ SameTime(now' + ((compare' - now') % ClockRange), SlotStart')
<1>1. PICK C \in Nat \ {0} : C = ClockRange /\ late \in 0 .. C - 1
  BY TimeFacts
<1>2. PICK m \in Nat \ {0} : m = MinDelay
  BY TimeFacts
<1>3. PICK d \in 1 .. Low - 1 : d = timeslot_diff
  BY NextDistance
<1>4. PICK o \in m + 1 .. C - 1 : o = d * SlotDuration
  BY <1>1, <1>2, <1>3, NextDistance
<1>5. /\ o \in MinDelay .. ClockRange - 1 /\ o \in Int /\ o \in 0 .. C - 1
  BY <1>1, <1>2, <1>4
<1>6. PICK s \in Int : s = SlotStart
  BY TimeTypes
<1>7. PICK t \in Int : t = SlotStart'
  <2>1. epoch' \in Int /\ Value(current_asn') \in Int
    <3>1. epoch \in Int /\ current_asn' \in Asn
      BY TimeTypes DEF TypeOK
    <3> QED  BY <3>1, ValueRange
  <2> QED  BY <2>1, TimeFacts DEF SlotStart
<1>8. PICK n \in Int : n = now
  BY TimeTypes
<1>9. SameTime(t, s + o)
  <2>1. PICK e \in Int, v \in Int : e = epoch /\ v = Value(current_asn)
    BY TimeTypes
  <2>2. current_asn \in Asn /\ d \in 0 .. Low - 1 /\ d \in Int
    BY TimeTypes, WordFacts
  <2>3. current_asn' = ASN_INC(current_asn, d)
    BY <1>3 DEF Advance
  <2>4. Value(current_asn') = (v + d) % (Low * High)
    BY <2>1, <2>2, <2>3, SumOfWords
  <2>5. SameTime(e + ((v + d) % (Low * High)) * SlotDuration,
                 (e + v * SlotDuration) + d * SlotDuration)
    BY <2>2, StartLater
  <2>6. t = e + ((v + d) % (Low * High)) * SlotDuration
    BY <1>7, <2>1, <2>4 DEF SlotStart
  <2>7. s = e + v * SlotDuration
    BY <1>6, <2>1 DEF SlotStart
  <2> QED  BY <1>4, <2>5, <2>6, <2>7
<1>10. SameTime(n, s + late)
  BY <1>6, <1>8
<1>11. s + o \in Int /\ s + late \in Int /\ late \in Int
  BY <1>1, <1>5
<1>12. current_link_start' = t % C
  <2>1. current_link_start' = (current_link_start + o) % C
    BY <1>1, <1>3, <1>4 DEF Advance
  <2>2. ((s % C) + o) % C = (s + o) % C
    BY <1>5, ModAdd
  <2>3. t % C = (s + o) % C
    BY <1>1, <1>9, <1>11, SameReading
  <2> QED  BY <1>1, <1>6, <2>1, <2>2, <2>3
<1>13. Missed <=> o <= late + m
  <2>1. check_timer_miss(s % ClockRange, o % ClockRange, n % ClockRange) <=> o <= late + MinDelay
    BY <1>5, <1>10, MissedMeansLate
  <2> QED  BY <1>2, <1>3, <1>4, <1>6, <1>8, <2>1 DEF Missed, RTIMER_NOW
<1>14. now' = n
  BY <1>8 DEF Advance
<1>15. CASE Missed
  <2>1. settling' = MinDelay /\ task' = None /\ busy' = busy
    BY <1>15 DEF Advance, timerVars
  <2>2. PICK rest \in 0 .. late : rest = late + m - o
    BY <1>1, <1>4, <1>13, <1>15
  <2>3. SameTime(n + m, t + rest)
    <3>1. PICK x \in Int, y \in Int, z \in Int : x = n + m /\ y = s + late + m /\ z = t + rest
      BY <1>11, <2>2
    <3>2. SameTime(x, y)
      <4>1. n - x = (s + late) - y
        BY <1>11, <3>1
      <4>2. x - n = y - (s + late)
        BY <1>11, <4>1
      <4> QED  BY <1>10, <1>11, <4>2, TimesMove
    <3>3. SameTime(z, y)
      <4>1. z - t = y - (s + o)
        BY <1>11, <2>2, <3>1
      <4> QED  BY <1>9, <1>11, <4>1, TimesMove
    <3> QED  BY <3>1, <3>2, <3>3, TimesEqual
  <2> QED  BY <1>1, <1>2, <1>7, <1>12, <1>14, <1>15, <2>1, <2>3
<1>16. CASE ~Missed
  <2>1. settling' = settling /\ compare' = current_link_start'
    BY <1>16 DEF Advance, SetTimer
  <2>2. current_link_start' \in 0 .. ClockRange - 1
    BY DEF TypeOK
  <2>3. compare' # None
    BY <2>1, <2>2, EngineAssumption
  <2>4. PICK w \in 0 .. C - 1 : w = o - late
    BY <1>1, <1>4, <1>13, <1>16
  <2>5. SameTime(n + w, t)
    <3>1. PICK x \in Int, y \in Int : x = n + w /\ y = s + o
      BY <1>11, <2>4
    <3>2. x - n = y - (s + late)
      BY <1>11, <2>4, <3>1
    <3>3. SameTime(x, y)
      BY <1>10, <1>11, <3>2, TimesMove
    <3> QED  BY <1>9, <3>1, <3>3, TimesEqual
  <2>6. ((t % C) - n) % C = w
    BY <1>1, <2>5, TicksAhead
  <2>7. SameTime(now' + ((compare' - now') % C), t)
    BY <1>12, <1>14, <2>1, <2>5, <2>6
  <2> QED  BY <1>1, <1>7, <1>12, <1>16, <2>1, <2>3, <2>7
<1> QED  BY <1>15, <1>16

\* Nothing is asked of a node that belongs to no network, now or in the next
\* state.
LEMMA NoTiming ==
  /\ ControlInv /\ ~associated => Timing
  /\ ControlInv' /\ ~associated' => Timing'
BY DEF ControlInv, Timing, ClockInv, WaitInv, TimerAtSlot, SlotInv, LoopInv, InitialInv

\* Steps that leave time alone.
LEMMA TimingKept ==
  ASSUME Timing,
         UNCHANGED <<now, mode, pc, op, settling, busy, current_asn, current_link_start,
                     task, compare, epoch>>,
         associated' => associated
  PROVE  Timing'
<1>1. SlotStart' = SlotStart
  BY DEF SlotStart
<1>3. ClockInv'
  BY <1>1 DEF Timing, ClockInv
<1>4. WaitInv'
  BY DEF Timing, WaitInv
<1>5. TimerAtSlot'
  BY DEF Timing, TimerAtSlot
<1>6. SlotInv'
  BY <1>1 DEF Timing, SlotInv
<1>7. LoopInv'
  BY <1>1 DEF Timing, LoopInv
<1>8. InitialInv'
  BY <1>1 DEF Timing, InitialInv
<1> QED  BY <1>3, <1>4, <1>5, <1>6, <1>7, <1>8 DEF Timing

\* At the start there is no network.
LEMMA InitTime == Init => TimeInv
<1>1. SUFFICES ASSUME Init PROVE TimeInv
  OBVIOUS
<1>2. ControlInv
  BY <1>1 DEF Init, ControlInv
<1>3. SyncInv
  BY <1>1 DEF Init, SyncInv
<1> QED  BY <1>1, <1>2, <1>3, NoTiming DEF Init, ExactInv, TimeInv

\* Where a time lies in the slot that it falls in.
LEMMA WithinSlot ==
  ASSUME NEW t \in Int, NEW e \in Int
  PROVE  \E r \in 0 .. SlotDuration - 1 : SameTime(t, e + SlotAt(t, e) * SlotDuration + r)
<1>1. PICK D \in Nat \ {0} : D = SlotDuration
  BY TimeFacts
<1>2. PICK P \in Nat \ {0} : P = Period
  BY TimeFacts
<1>3. t - e \in Int
  OBVIOUS
<1>4. PICK x \in 0 .. P - 1 : x = (t - e) % P
  BY <1>3, ModRange
<1>5. PICK q \in Int, r \in 0 .. D - 1 : q = x \div D /\ x = D * q + r
  <2>1. x % D \in 0 .. D - 1 /\ x \div D \in Int /\ x = D * (x \div D) + (x % D)
    BY ModRange
  <2> QED  BY <2>1
<1>6. SlotAt(t, e) = q
  BY <1>1, <1>2, <1>4, <1>5 DEF SlotAt
<1>7. SameTime(x, t - e)
  BY <1>2, <1>3, <1>4, SameReduced
<1>8. PICK a \in Int : a = q * D /\ a = D * q
  OBVIOUS
<1>9. PICK y \in Int : y = e + a + r /\ y - x = e
  <2>1. x = a + r /\ r \in Int
    BY <1>5, <1>8
  <2> QED  BY <2>1
<1>10. y - x = t - (t - e)
  BY <1>3, <1>9
<1>11. SameTime(y, t)
  BY <1>3, <1>7, <1>10, TimesMove
<1>12. SameTime(t, y)
  BY <1>11, TimesEqual
<1> QED  BY <1>1, <1>5, <1>6, <1>8, <1>9, <1>12

\* Joining: the slot that was heard began less than two slots ago, and the link
\* start is its start.
LEMMA JoiningTime ==
  ASSUME ~QuickRejoin, TypeOK, TypeOK', ControlInv, ControlInv', ExactInv, Joining
  PROVE  ExactInv'
<1>1. \E m \in {"eb", "ctc", "coordinator"} : MayJoin(m)
  BY DEF Joining, JoinFromEb, JoinFromCtc, StartNetwork
<1>2. pc = "associate" /\ op = "none" /\ ~associated /\ settling \in Nat
  BY <1>1, TimeTypes DEF MayJoin, ExactInv, ControlInv
<1>3. settling = 0
  BY <1>2 DEF ExactInv, ControlInv
<1>4. task = None
  <2>1. mode = "eb" \/ task = None
    BY <1>2 DEF ExactInv, ControlInv
  <2>2. mode = "eb" => JoinFromEb
    BY DEF Joining, JoinFromCtc, StartNetwork, MayJoin
  <2> QED  BY <2>1, <2>2 DEF JoinFromEb
<1>5. PICK asn, start : Join(asn, start)
  BY DEF Joining, JoinFromEb, JoinFromCtc, StartNetwork
<1>6. /\ associated' = TRUE /\ pc' = "initial" /\ busy' = 0 /\ op' = "none" /\ settling' = 0
      /\ now' = now /\ mode' = mode /\ task' = None /\ correcting' = correcting
      /\ network_epoch' = network_epoch
  BY <1>2, <1>3, <1>4, <1>5 DEF Join, timerVars, correctionVars
<1>8. WaitInv' /\ TimerAtSlot' /\ SlotInv' /\ LoopInv'
  BY <1>6 DEF WaitInv, TimerAtSlot, SlotInv, LoopInv
<1>9. /\ now \in Int /\ network_epoch \in Int /\ 0 \in Int
      /\ network_epoch \in 0 .. Period - 1
  BY TimeTypes
<1>10. PICK D \in Nat \ {0} : D = SlotDuration
  BY TimeFacts
<1>11. CASE JoinFromEb
  <2>1. PICK slot \in 0 .. (Low * High) - 1 : slot = SlotAt(now, network_epoch)
    BY <1>9, SlotAtType
  <2>2. slot \in Int
    BY WordFacts
  <2>3. PICK s \in Int : s = network_epoch + slot * D
    BY <1>9, <2>2
  <2>4. /\ current_asn' = AsnOf(slot) /\ last_sync_asn' = AsnOf(slot)
        /\ current_link_start' = s % ClockRange
        /\ epoch' = network_epoch /\ synced' = slot
    BY <1>10, <1>11, <2>1, <2>3 DEF JoinFromEb, Join
  <2>5. Value(AsnOf(slot)) = slot
    BY NumberOfWords
  <2>6. SlotStart' = s
    BY <1>10, <2>3, <2>4, <2>5 DEF SlotStart
  <2>7. PICK r \in 0 .. D - 1 : SameTime(now, s + r)
    BY <1>9, <1>10, <2>1, <2>3, WithinSlot
  <2>8. ClockInv'
    BY <2>4, <2>6 DEF ClockInv
  <2>9. InitialInv'
    <3>1. r \in 0 .. D + 0 /\ now' + settling' = now
      BY <1>6, <1>9
    <3> QED  BY <1>6, <1>10, <2>6, <2>7, <3>1 DEF InitialInv
  <2>10. SyncInv'
    BY <2>4, <2>5 DEF SyncInv
  <2> QED  BY <1>8, <2>8, <2>9, <2>10 DEF ExactInv, Timing
<1>12. CASE JoinFromCtc
  <2>1. PICK v \in Int : v = CtcAsn /\ v \in 0 .. (Low * High) - 1
    BY TimeFacts, WordFacts
  <2>2. PICK b \in Int : b = now - D - v * D
    BY <1>9
  <2>3. /\ current_asn' = AsnOf(v) /\ last_sync_asn' = AsnOf(v)
        /\ current_link_start' = (now - D) % ClockRange
        /\ epoch' = b % Period /\ synced' = v
    BY <1>10, <1>12, <2>1, <2>2 DEF JoinFromCtc, Join
  <2>4. Value(AsnOf(v)) = v
    BY <2>1, NumberOfWords
  <2>5. PICK e \in Int : e = epoch' /\ SameTime(e, b)
    <3>1. epoch' \in Int
      BY TimeFacts DEF TypeOK
    <3> QED  BY <2>3, <3>1, SameReduced
  <2>6. PICK s \in Int : s = e + v * D
    OBVIOUS
  <2>7. SlotStart' = s
    BY <1>10, <2>3, <2>4, <2>5, <2>6 DEF SlotStart
  <2>8. SameTime(s, now - D)
    <3>1. PICK x \in Int, y \in Int : x = v * D /\ y = now - D
      BY <1>9
    <3>2. s - e = y - b
      BY <1>9, <2>2, <2>6, <3>1
    <3>3. SameTime(s, y)
      BY <2>5, <3>2, TimesMove
    <3> QED  BY <3>1, <3>3
  <2>9. ClockInv'
    <3>1. now - D \in Int
      BY <1>9
    <3> QED  BY <2>3, <2>7, <2>8, <3>1, SameReading DEF ClockInv
  <2>10. InitialInv'
    <3>1. SameTime(now - D, s)
      <4>1. now - D \in Int
        BY <1>9
      <4> QED  BY <2>8, <4>1, TimesEqual
    <3>2. now - (now - D) = (s + D) - s /\ now - D \in Int /\ s + D \in Int
      BY <1>9
    <3>3. SameTime(now, s + D)
      BY <1>9, <3>1, <3>2, TimesMove
    <3>4. D \in 0 .. D + 0 /\ now' + settling' = now
      BY <1>6, <1>9
    <3> QED  BY <1>6, <1>10, <2>7, <3>3, <3>4 DEF InitialInv
  <2>11. SyncInv'
    BY <2>3, <2>4 DEF SyncInv
  <2> QED  BY <1>8, <2>9, <2>10, <2>11 DEF ExactInv, Timing
<1>13. CASE StartNetwork
  <2>1. mode' = "coordinator"
    BY <1>6, <1>13 DEF StartNetwork, MayJoin
  <2>2. ClockInv' /\ InitialInv' /\ SyncInv'
    BY <1>6, <2>1 DEF ClockInv, InitialInv, SyncInv
  <2> QED  BY <1>8, <2>2 DEF ExactInv, Timing
<1> QED  BY <1>11, <1>12, <1>13 DEF Joining

\* What an iteration of the loop leaves alone.
LEMMA AdvanceFrame ==
  ASSUME Advance
  PROVE  /\ settling = 0 /\ now' = now /\ mode' = mode /\ associated' = associated
         /\ last_sync_asn' = last_sync_asn /\ correcting' = correcting
         /\ locked' = locked /\ synced' = synced
         /\ settling' = IF Missed THEN MinDelay ELSE 0
         /\ Missed => task' = task /\ busy' = busy
BY DEF Advance, timerVars, scheduleVars, correctionVars

\* The first slots after joining.
LEMMA FirstSlotTime ==
  ASSUME TypeOK, TypeOK', ControlInv, ControlInv', ExactInv, FirstSlot
  PROVE  ExactInv'
<1>1. Advance /\ pc = "initial" /\ op' = op
      /\ pc' = IF Missed THEN "initial" ELSE "joined"
  BY DEF FirstSlot
<1>2. op = "none" /\ associated /\ task = None
  BY <1>1 DEF ExactInv, ControlInv
<1>4. SyncInv'
  BY <1>1, AdvanceFrame DEF ExactInv, SyncInv
<1>7. SlotInv' /\ LoopInv'
  BY <1>1, <1>2 DEF SlotInv, LoopInv
<1>8. CASE mode # "coordinator"
  <2>1. epoch' = epoch /\ mode' # "coordinator"
    BY <1>1, <1>8, AdvanceFrame DEF FirstSlot
  <2>2. settling = 0 /\ now + 0 = now /\ busy \in 0 .. MaxBusy
    BY <1>1, TimeTypes, AdvanceFrame
  <2>3. PICK late \in 0 .. SlotDuration + busy : SameTime(now, SlotStart + late)
    BY <1>1, <1>8, <2>2 DEF ExactInv, Timing, InitialInv
  <2>4. late \in 0 .. ClockRange - 1 /\ SlotDuration + busy \in Nat /\ late \in Nat
    BY <2>2, TimeFacts, EngineAssumption
  <2>5. current_link_start = SlotStart % ClockRange
    BY <1>2, <1>8 DEF ExactInv, Timing, ClockInv
  <2>6. /\ current_link_start' = SlotStart' % ClockRange
        /\ Missed => /\ settling' = MinDelay /\ task' = None /\ busy' = busy
                     /\ \E rest \in 0 .. late : SameTime(now' + settling', SlotStart' + rest)
        /\ ~Missed => /\ settling' = settling
                      /\ compare' = current_link_start' /\ compare' # None
                      /\ SameTime(now' + ((compare' - now') % ClockRange), SlotStart')
    BY <1>1, <1>2, <2>1, <2>3, <2>4, <2>5, AdvanceTiming
  <2>7. ClockInv'
    BY <2>6 DEF ClockInv
  <2>8. CASE Missed
    <3>1. pc' = "initial" /\ task' = None /\ busy' = busy
      BY <1>1, <2>6, <2>8
    <3>2. WaitInv' /\ TimerAtSlot'
      BY <3>1 DEF WaitInv, TimerAtSlot
    <3>3. PICK rest \in 0 .. late : SameTime(now' + settling', SlotStart' + rest)
      BY <2>6, <2>8
    <3>4. rest \in 0 .. SlotDuration + busy'
      BY <2>4, <3>1
    <3>5. InitialInv'
      BY <3>3, <3>4 DEF InitialInv
    <3> QED  BY <1>4, <1>7, <2>7, <3>2, <3>5 DEF ExactInv, Timing
  <2>9. CASE ~Missed
    <3>1. pc' = "joined"
      BY <1>1, <2>9
    <3>2. TimerAtSlot'
      BY <2>6, <2>9 DEF TimerAtSlot, SameTime, SlotStart
    <3>3. WaitInv' /\ InitialInv'
      BY <2>6, <2>9, <3>1 DEF WaitInv, InitialInv
    <3> QED  BY <1>4, <1>7, <2>7, <3>2, <3>3 DEF ExactInv, Timing
  <2> QED  BY <2>8, <2>9
<1>9. CASE mode = "coordinator" /\ Missed
  <2>1. pc' = "initial" /\ mode' = "coordinator" /\ task' = None
    BY <1>1, <1>2, <1>9, AdvanceFrame
  <2>2. ClockInv' /\ WaitInv' /\ TimerAtSlot' /\ InitialInv'
    BY <2>1 DEF ClockInv, WaitInv, TimerAtSlot, InitialInv
  <2> QED  BY <1>4, <1>7, <2>2 DEF ExactInv, Timing
<1>10. CASE mode = "coordinator" /\ ~Missed
  <2>1. PICK c \in 0 .. ClockRange - 1 : c = current_link_start'
    BY DEF TypeOK
  <2>2. PICK C \in Nat \ {0} : C = ClockRange /\ c \in 0 .. C - 1
    BY TimeFacts
  <2>3. compare' = c /\ compare' # None
    BY <1>1, <1>2, <1>10, <2>1, EngineAssumption DEF Advance, SetTimer
  <2>4. PICK n \in Int : n = now /\ now' = n
    BY <1>1, TimeTypes, AdvanceFrame
  <2>5. PICK w \in Int : w = (c - n) % C
    <3>1. (c - n) % C \in Int
      BY <2>2, ModRange
    <3> QED  BY <3>1
  <2>6. PICK x \in Int : x = Value(current_asn') * SlotDuration
    <3>1. Value(current_asn') \in Int
      BY ValueRange DEF TypeOK
    <3> QED  BY <3>1, TimeFacts
  <2>7. epoch' = (n + w - x) % Period
    BY <1>10, <2>1, <2>2, <2>4, <2>5, <2>6 DEF FirstSlot
  <2>8. PICK e \in Int : e = epoch' /\ SameTime(e, n + w - x)
    <3>1. epoch' \in Int
      BY TimeFacts DEF TypeOK
    <3> QED  BY <2>7, <3>1, SameReduced
  <2>9. PICK s \in Int : s = SlotStart' /\ s = e + x
    BY <2>6, <2>8 DEF SlotStart
  <2>10. SameTime(s, n + w) /\ SameTime(n + w, s)
    <3>1. PICK y \in Int, z \in Int : y = n + w - x /\ z = n + w
      OBVIOUS
    <3>2. s - e = z - y
      BY <2>9, <3>1
    <3>3. SameTime(s, z)
      BY <2>8, <3>1, <3>2, TimesMove
    <3> QED  BY <3>1, <3>3, TimesEqual
  <2>11. s % C = c
    <3>1. s % C = (n + w) % C
      BY <2>2, <2>10, SameReading
    <3>2. PICK a \in Int : a = c - n
      BY <2>2
    <3>3. ((a % C) + n) % C = (a + n) % C
      BY ModAdd
    <3>4. a + n = c /\ n + w = w + n
      BY <2>2, <3>2
    <3>5. c % C = c
      BY <2>2, ModSmall
    <3> QED  BY <2>5, <3>1, <3>2, <3>3, <3>4, <3>5
  <2>12. ClockInv'
    BY <2>1, <2>2, <2>9, <2>11 DEF ClockInv
  <2>13. WaitInv'
    BY <2>1, <2>3 DEF WaitInv
  <2>14. SameTime(now' + ((compare' - now') % ClockRange), SlotStart')
    BY <2>2, <2>3, <2>4, <2>5, <2>9, <2>10
  <2>15. TimerAtSlot'
    BY <2>14 DEF TimerAtSlot, SameTime, SlotStart
  <2>16. InitialInv'
    BY <1>1, <1>10 DEF InitialInv
  <2> QED  BY <1>4, <1>7, <2>12, <2>13, <2>15, <2>16 DEF ExactInv, Timing
<1> QED  BY <1>8, <1>9, <1>10

\* An iteration in the interrupt.
LEMMA NextSlotTime ==
  ASSUME TypeOK, TypeOK', ControlInv, ControlInv', ExactInv, NextSlot
  PROVE  ExactInv'
<1>1. Advance /\ op = "loop" /\ pc' = pc /\ epoch' = epoch
      /\ op' = IF Missed THEN "loop" ELSE "none"
  BY DEF NextSlot
<1>2. task = None /\ pc # "initial"
  BY <1>1 DEF ExactInv, ControlInv
<1>4. SyncInv'
  BY <1>1, AdvanceFrame DEF ExactInv, SyncInv
<1>5. CASE ~associated
  <2>1. ~associated'
    BY <1>1, <1>5, AdvanceFrame
  <2> QED  BY <1>4, <2>1, NoTiming DEF ExactInv
<1>6. CASE associated
  <2>1. pc = "joined"
    BY <1>2, <1>6 DEF ExactInv, ControlInv, TypeOK
  <2>2. settling = 0 /\ now + 0 = now
    BY <1>1, TimeTypes, AdvanceFrame
  <2>3. PICK late \in 0 .. MaxBusy : SameTime(now, SlotStart + late)
    BY <1>1, <1>6, <2>2 DEF ExactInv, Timing, LoopInv
  <2>4. late \in 0 .. ClockRange - 1 /\ late \in Nat /\ MaxBusy \in Nat
    BY TimeFacts, EngineAssumption
  <2>5. current_link_start = SlotStart % ClockRange
    BY <1>6, <2>1 DEF ExactInv, Timing, ClockInv
  <2>6. /\ current_link_start' = SlotStart' % ClockRange
        /\ Missed => /\ settling' = MinDelay /\ task' = None /\ busy' = busy
                     /\ \E rest \in 0 .. late : SameTime(now' + settling', SlotStart' + rest)
        /\ ~Missed => /\ settling' = settling
                      /\ compare' = current_link_start' /\ compare' # None
                      /\ SameTime(now' + ((compare' - now') % ClockRange), SlotStart')
    BY <1>1, <1>2, <2>3, <2>4, <2>5, <2>2, AdvanceTiming
  <2>7. ClockInv' /\ InitialInv' /\ SlotInv'
    BY <1>1, <1>2, <2>6 DEF ClockInv, InitialInv, SlotInv
  <2>8. CASE Missed
    <3>1. op' = "loop" /\ task' = None
      BY <1>1, <2>6, <2>8
    <3>2. WaitInv' /\ TimerAtSlot'
      BY <3>1 DEF WaitInv, TimerAtSlot
    <3>3. PICK rest \in 0 .. late : SameTime(now' + settling', SlotStart' + rest)
      BY <2>6, <2>8
    <3>4. rest \in 0 .. MaxBusy
      BY <2>4
    <3>5. LoopInv'
      BY <3>3, <3>4 DEF LoopInv
    <3> QED  BY <1>4, <2>7, <3>2, <3>5 DEF ExactInv, Timing
  <2>9. CASE ~Missed
    <3>1. op' = "none"
      BY <1>1, <2>9
    <3>2. TimerAtSlot'
      BY <2>6, <2>9 DEF TimerAtSlot, SameTime, SlotStart
    <3>3. WaitInv' /\ LoopInv'
      BY <2>6, <2>9, <3>1 DEF WaitInv, LoopInv
    <3> QED  BY <1>4, <2>7, <3>2, <3>3 DEF ExactInv, Timing
  <2> QED  BY <2>8, <2>9
<1> QED  BY <1>5, <1>6

\* The timer goes off: the slot begins now.
LEMMA InterruptTime ==
  ASSUME TypeOK, ControlInv, ControlInv', ExactInv, StartSlot \/ SkipSlot \/ StopEngine
  PROVE  ExactInv'
<1>1. /\ op = "none" /\ task # None /\ compare = RTIMER_NOW
      /\ task' = None /\ compare' = None
      /\ UNCHANGED <<now, mode, pc, settling, associated, current_asn, last_sync_asn,
                     current_link, current_link_start, links, locked, correcting,
                     epoch, network_epoch, synced>>
      /\ \/ op' \in {"slot", "check"} /\ associated /\ busy' = 0
         \/ op' = op /\ ~associated
  BY DEF StartSlot, SkipSlot, StopEngine, TakeTask, AtCompare, asnVars, linkVars,
         scheduleVars, correctionVars, ghostVars
<1>2. pc # "initial"
  BY <1>1 DEF ExactInv, ControlInv
<1>4. SyncInv'
  BY <1>1 DEF ExactInv, SyncInv
<1>5. CASE ~associated
  BY <1>1, <1>4, <1>5, NoTiming DEF ExactInv
<1>6. CASE associated
  <2>1. pc = "joined"
    BY <1>2, <1>6 DEF ExactInv, ControlInv, TypeOK
  <2>2. SlotStart' = SlotStart
    BY <1>1 DEF SlotStart
  <2>3. SameTime(now + ((compare - now) % ClockRange), SlotStart)
    BY <1>1, <1>6, <2>1, TimerAtSlotMeans DEF ExactInv, Timing
  <2>4. (compare - now) % ClockRange = 0
    <3>1. now + 0 = now /\ now \in Int /\ 0 \in 0 .. ClockRange - 1
      BY TimeTypes, TimeFacts
    <3>2. SameTime(now + 0, now)
      BY <3>1, TimesEqual
    <3>3. ((now % ClockRange) - now) % ClockRange = 0
      BY <3>1, <3>2, TicksAhead
    <3> QED  BY <1>1, <3>3 DEF RTIMER_NOW
  <2>5. SameTime(now, SlotStart)
    <3>1. now + 0 = now
      BY TimeTypes
    <3> QED  BY <2>3, <2>4, <3>1
  <2>6. op' \in {"slot", "check"} /\ busy' = 0 /\ now' - busy' = now
    BY <1>1, <1>6, TimeTypes
  <2>7. SlotInv'
    BY <2>2, <2>5, <2>6 DEF SlotInv
  <2>8. ClockInv'
    BY <1>1, <2>2 DEF ExactInv, Timing, ClockInv
  <2>9. WaitInv' /\ TimerAtSlot'
    BY <1>1 DEF WaitInv, TimerAtSlot
  <2>10. LoopInv' /\ InitialInv'
    BY <1>1, <1>2, <2>6 DEF LoopInv, InitialInv
  <2> QED  BY <1>4, <2>7, <2>8, <2>9, <2>10 DEF ExactInv, Timing
<1> QED  BY <1>5, <1>6

\* A node that stays, after its slot, is late by as much as the slot lasted.
LEMMA CheckSyncTime ==
  ASSUME TypeOK, ControlInv, ControlInv', ExactInv, CheckSync
  PROVE  ExactInv'
<1>1. /\ op = "check"
      /\ UNCHANGED <<now, mode, pc, settling, busy, current_asn, last_sync_asn,
                     current_link, current_link_start, task, compare, links, locked,
                     correcting, epoch, network_epoch, synced>>
      /\ \/ ~associated' /\ op' = "none"
         \/ associated' = associated /\ op' = "loop"
  BY DEF CheckSync, asnVars, linkVars, timerVars, scheduleVars, correctionVars, ghostVars
<1>2. pc # "initial" /\ task = None
  BY <1>1 DEF ExactInv, ControlInv
<1>3. settling = 0
  <2>1. ~(settling > 0) /\ settling \in 0 .. MinDelay
    BY <1>1, <1>2, TimeTypes DEF ExactInv, ControlInv
  <2> QED  BY <2>1, TimeFacts
<1>4. associated' => associated
  BY <1>1
<1>6. SyncInv'
  BY <1>1, <1>4 DEF ExactInv, SyncInv
<1>7. CASE ~associated'
  BY <1>6, <1>7, NoTiming DEF ExactInv
<1>8. CASE associated'
  <2>1. associated /\ op' = "loop"
    BY <1>1, <1>8
  <2>2. SlotStart' = SlotStart /\ SlotStart \in Int
    BY <1>1, TimeTypes DEF SlotStart
  <2>3. SameTime(now - busy, SlotStart)
    BY <1>1, <2>1 DEF ExactInv, Timing, SlotInv
  <2>4. PICK n \in Int, b \in Int, s \in Int : n = now /\ b = busy /\ s = SlotStart
    BY <2>2, TimeTypes
  <2>5. SameTime(n, s + b)
    <3>1. PICK x \in Int, y \in Int : x = n - b /\ y = s + b
      OBVIOUS
    <3>2. n - x = y - s
      BY <3>1
    <3>3. SameTime(n, y)
      BY <2>3, <2>4, <3>1, <3>2, TimesMove
    <3> QED  BY <3>1, <3>3
  <2>6. now' + settling' = n /\ busy \in 0 .. MaxBusy
    BY <1>1, <1>3, <2>4, TimeTypes
  <2>7. LoopInv'
    BY <2>2, <2>4, <2>5, <2>6 DEF LoopInv
  <2>8. ClockInv'
    BY <1>1, <2>1, <2>2 DEF ExactInv, Timing, ClockInv
  <2>9. WaitInv' /\ TimerAtSlot'
    BY <1>1, <1>2 DEF WaitInv, TimerAtSlot
  <2>10. SlotInv' /\ InitialInv'
    BY <1>1, <1>2, <2>1 DEF SlotInv, InitialInv
  <2> QED  BY <1>6, <2>7, <2>8, <2>9, <2>10 DEF ExactInv, Timing
<1> QED  BY <1>7, <1>8

\* What a node takes for its last synchronisation is the slot it was in.
LEMMA EndSlotTime ==
  ASSUME TypeOK, ControlInv, ControlInv', ExactInv,
         NEW sync \in BOOLEAN, NEW eb \in BOOLEAN, EndSlot(sync, eb)
  PROVE  ExactInv'
<1>1. /\ op = "slot" /\ op' = "check"
      /\ last_sync_asn' = IF sync THEN current_asn ELSE last_sync_asn
      /\ synced' = IF sync THEN SlotAt(now - busy, epoch) ELSE synced
      /\ UNCHANGED <<now, mode, pc, settling, busy, associated, current_asn, current_link,
                     current_link_start, task, compare, links, locked, correcting, epoch>>
  BY DEF EndSlot, linkVars, timerVars, scheduleVars
<1>2. pc # "initial" /\ task = None /\ ~(settling > 0)
  BY <1>1 DEF ExactInv, ControlInv
<1>4. SlotStart' = SlotStart
  BY <1>1 DEF SlotStart
<1>5. Timing'
  <2>1. ClockInv'
    BY <1>1, <1>4 DEF ExactInv, Timing, ClockInv
  <2>2. WaitInv' /\ TimerAtSlot'
    BY <1>1, <1>2 DEF WaitInv, TimerAtSlot
  <2>3. SlotInv'
    BY <1>1, <1>4 DEF ExactInv, Timing, SlotInv
  <2>4. LoopInv' /\ InitialInv'
    BY <1>1, <1>2 DEF LoopInv, InitialInv
  <2> QED  BY <2>1, <2>2, <2>3, <2>4 DEF Timing
<1>6. PICK v \in 0 .. (Low * High) - 1 : v = Value(current_asn)
  BY TimeTypes
<1>7. v \in Int /\ v % (Low * High) = v
  BY WordFacts, ModSmall
<1>8. now - busy \in Int /\ epoch \in Int /\ 0 \in 0 .. SlotDuration - 1
  BY TimeTypes, TimeFacts
<1>9. associated => SameTime(now - busy, SlotStart)
  BY <1>1 DEF ExactInv, Timing, SlotInv
<1>10. associated => SlotAt(now - busy, epoch) = v
  <2>1. SUFFICES ASSUME associated PROVE SlotAt(now - busy, epoch) = v
    OBVIOUS
  <2>2. SlotStart = epoch + v * SlotDuration + 0
    <3>1. SlotStart = SlotStart + 0
      BY TimeTypes
    <3> QED  BY <1>6, <3>1 DEF SlotStart
  <2>3. SameTime(now - busy, epoch + v * SlotDuration + 0)
    BY <1>9, <2>1, <2>2
  <2>4. SlotAt(now - busy, epoch) = v % (Low * High)
    BY <1>7, <1>8, <2>3, SlotOfTime
  <2> QED  BY <1>7, <2>4
<1>11. SyncInv'
  BY <1>1, <1>6, <1>10 DEF ExactInv, SyncInv
<1> QED  BY <1>5, <1>11 DEF ExactInv

\* The steps of a correction that leave the number alone.
LEMMA CorrectionTime ==
  ASSUME TypeOK, AbortInv, ControlInv, ControlInv', ExactInv,
         BeginCorrection \/ AbortNext \/ ReadAsn \/ WriteSync \/ Release
  PROVE  ExactInv'
<1>1. UNCHANGED <<now, mode, pc, op, settling, busy, associated, current_asn,
                  current_link_start, task, compare, epoch>>
  BY DEF BeginCorrection, AbortNext, ReadAsn, WriteSync, Release, Step, asnVars, linkVars,
         timerVars, ghostVars
<1>4. SyncInv'
  <2>1. CASE WriteSync
    BY <2>1 DEF WriteSync, SyncInv
  <2>2. CASE BeginCorrection \/ AbortNext \/ ReadAsn \/ Release
    <3>1. correcting # "sync" /\ last_sync_asn' = last_sync_asn /\ synced' = synced
      BY <2>2 DEF BeginCorrection, AbortNext, ReadAsn, Release, Step, AbortInv, asnVars, ghostVars
    <3> QED  BY <1>1, <3>1 DEF ExactInv, SyncInv
  <2> QED  BY <2>1, <2>2
<1>5. Timing'
  BY <1>1, TimingKept DEF ExactInv
<1> QED  BY <1>4, <1>5 DEF ExactInv

\* The step that changes the number, of which the read one still holds, takes
\* the difference from it.
LEMMA WriteValue ==
  ASSUME TypeOK, WriteAsn, ~miscounted'
  PROVE  /\ current_asn' \in Asn
         /\ Value(current_asn') = (Value(current_asn) - asn_diff) % (Low * High)
<1>1. asn_read = current_asn
  BY DEF WriteAsn
<1>2. current_asn \in Asn /\ asn_diff \in Int /\ -Low < asn_diff /\ asn_diff < Low
  BY WordFacts DEF TypeOK, Difference
<1>3. PICK new \in Asn : /\ new = Corrected(current_asn)
                         /\ Value(new) = (Value(current_asn) - asn_diff) % (Low * High)
  BY <1>2, CorrectedValue
<1>4. current_asn' = [ls4b |-> new.ls4b, ms1b |-> (current_asn.ms1b + new.ms1b - current_asn.ms1b) % High]
  BY <1>1, <1>3 DEF WriteAsn
<1>5. (current_asn.ms1b + new.ms1b - current_asn.ms1b) % High = new.ms1b
  <2>1. PICK H \in Nat \ {0} : H = High
    BY WordFacts
  <2>2. PICK x \in Int, y \in 0 .. H - 1 : x = current_asn.ms1b /\ y = new.ms1b
    BY <1>2, <1>3, <2>1, ValueRange, WordFacts
  <2>3. x + y - x = y
    BY <2>1, <2>2
  <2>4. y % H = y
    BY ModSmall
  <2> QED  BY <2>1, <2>2, <2>3, <2>4
<1>6. current_asn' = [ls4b |-> new.ls4b, ms1b |-> new.ms1b]
  BY <1>4, <1>5
<1>7. current_asn' = new
  BY <1>3, <1>6 DEF Asn
<1> QED  BY <1>3, <1>7

\* A correction changes the numbering, not the time: the slot has another
\* number and begins when it did.
LEMMA WriteAsnTime ==
  ASSUME TypeOK, TypeOK', ControlInv, ControlInv', ExactInv, WriteAsn, ~miscounted'
  PROVE  ExactInv'
<1>1. /\ correcting' = "sync" /\ pc # "initial" /\ op \in {"none", "slot"}
      /\ epoch' = (epoch + asn_diff * SlotDuration) % Period
      /\ UNCHANGED <<now, mode, pc, op, settling, busy, associated, current_link_start,
                     task, compare>>
  BY DEF WriteAsn, Step, ProcessRuns, timerVars
<1>2. PICK n \in Int : n = asn_diff
  BY WordFacts DEF TypeOK, Difference
<1>3. PICK v \in Int : v = Value(current_asn)
  BY TimeTypes
<1>4. PICK k \in Int : k = 0 - n
  OBVIOUS
<1>5. Value(current_asn') = (v + k) % (Low * High)
  <2>1. v - n = v + k
    BY <1>4
  <2> QED  BY <1>2, <1>3, <2>1, WriteValue
<1>7. SyncInv'
  BY <1>1 DEF SyncInv
<1>8. PICK D \in Nat \ {0} : D = SlotDuration
  BY TimeFacts
<1>9. PICK x \in Int : x = n * D
  OBVIOUS
<1>12. PICK s \in Int, t \in Int : s = SlotStart /\ t = SlotStart' /\ SameTime(t, s)
  <2>1. PICK e \in Int, f \in Int : e = epoch /\ f = epoch'
    BY TimeTypes, TimeFacts DEF TypeOK
  <2>2. SameTime(f + ((v + k) % (Low * High)) * SlotDuration,
                 (f + v * SlotDuration) + k * SlotDuration)
    BY StartLater
  <2>3. SlotStart' = f + ((v + k) % (Low * High)) * SlotDuration
    BY <1>1, <1>5, <2>1 DEF SlotStart
  <2>4. PICK t \in Int : t = SlotStart'
    <3>1. (v + k) % (Low * High) \in Int
      BY WordFacts
    <3> QED  BY <2>3, <3>1, TimeFacts
  <2>5. PICK a \in Int, b \in Int, c \in Int, g \in Int :
           a = v * D /\ b = (f + v * D) + k * D /\ c = e + a /\ g = e + x
    OBVIOUS
  <2>6. b = f + (a - x)
    <3>1. k * D = 0 - n * D
      BY <1>4
    <3> QED  BY <1>9, <2>5, <3>1
  <2>7. SameTime(f, g)
    BY <1>1, <1>2, <1>8, <1>9, <2>1, <2>5, SameReduced
  <2>8. c = SlotStart
    BY <1>3, <1>8, <2>1, <2>5 DEF SlotStart
  <2>9. SameTime(b, c)
    <3>1. b - f = c - g
      BY <2>5, <2>6
    <3> QED  BY <2>7, <3>1, TimesMove
  <2>10. SameTime(t, b)
    BY <1>8, <2>2, <2>3, <2>4, <2>5
  <2> QED  BY <2>4, <2>8, <2>9, <2>10, TimesEqual
<1>13. ASSUME NEW a \in Int, SameTime(a, s)
       PROVE  SameTime(a, t)
  BY <1>12, <1>13, TimesEqual
<1>14. ClockInv'
  <2>1. t % ClockRange = s % ClockRange
    BY <1>12, SameReading
  <2> QED  BY <1>1, <1>12, <2>1 DEF ExactInv, Timing, ClockInv
<1>15. WaitInv'
  BY <1>1 DEF ExactInv, Timing, WaitInv
<1>16. SlotInv'
  <2>1. now - busy \in Int
    BY TimeTypes
  <2> QED  BY <1>1, <1>12, <1>13, <2>1 DEF ExactInv, Timing, SlotInv
<1>17. LoopInv' /\ InitialInv'
  BY <1>1 DEF LoopInv, InitialInv
<1>18. TimerAtSlot'
  <2>1. SUFFICES ASSUME pc = "joined", associated, task # None
                 PROVE  TimerAtSlot'
    BY <1>1 DEF TimerAtSlot
  <2>2. SameTime(now + ((compare - now) % ClockRange), s)
    BY <1>12, <2>1, TimerAtSlotMeans DEF ExactInv, Timing
  <2>3. compare \in 0 .. ClockRange - 1
    BY <2>1 DEF ExactInv, Timing, WaitInv, TypeOK
  <2>4. now + ((compare - now) % ClockRange) \in Int
    <3>1. compare - now \in Int /\ now \in Int
      BY <2>3, TimeTypes, TimeFacts
    <3>2. (compare - now) % ClockRange \in Int
      BY <3>1, TimeFacts
    <3> QED  BY <3>1, <3>2
  <2>5. SameTime(now + ((compare - now) % ClockRange), t)
    BY <1>13, <2>2, <2>4
  <2>6. SameTime(now' + ((compare' - now') % ClockRange), SlotStart')
    BY <1>1, <1>12, <2>5
  <2> QED  BY <2>6 DEF TimerAtSlot, SameTime, SlotStart
<1> QED  BY <1>7, <1>14, <1>15, <1>16, <1>17, <1>18 DEF ExactInv, Timing

\* The other steps of processes.
LEMMA OtherProcessTime ==
  ASSUME TypeOK, ControlInv, ControlInv', ExactInv,
         \/ TakeLock
         \/ \E l \in Link : AddLink(l) \/ RemoveLink(l)
         \/ LeaveForPriority
         \/ Reset
  PROVE  ExactInv'
<1>1. CASE TakeLock \/ \E l \in Link : AddLink(l) \/ RemoveLink(l)
  <2>1. UNCHANGED <<now, mode, pc, op, settling, busy, associated, current_asn,
                    last_sync_asn, current_link_start, task, compare, correcting,
                    epoch, network_epoch, synced>>
    BY <1>1 DEF TakeLock, AddLink, RemoveLink, Section, asnVars, linkVars, timerVars,
                correctionVars, ghostVars
  <2>2. SyncInv'
    BY <2>1 DEF ExactInv, SyncInv
  <2>3. Timing'
    BY <2>1, TimingKept DEF ExactInv
  <2> QED  BY <2>2, <2>3 DEF ExactInv
<1>2. CASE LeaveForPriority
  <2>1. /\ mode = "eb" /\ ~associated' /\ pc # "initial"
        /\ correcting' = "none"
        /\ UNCHANGED <<now, mode, pc, op, settling, task>>
    BY <1>2 DEF LeaveForPriority, ProcessRuns, timerVars, correctionVars
  <2>2. SyncInv'
    BY <2>1 DEF ExactInv, SyncInv
  <2> QED  BY <2>1, <2>2, NoTiming DEF ExactInv
<1>3. CASE Reset
  <2>1. /\ ~associated' /\ pc' = "associate"
    BY <1>3 DEF Reset, ProcessRuns, timerVars
  <2>2. SyncInv'
    BY <2>1 DEF ExactInv, SyncInv
  <2> QED  BY <2>1, <2>2, NoTiming DEF ExactInv
<1> QED  BY <1>1, <1>2, <1>3

\* The time source takes other numbers: those of the node do not change.
LEMMA RenumberTime ==
  ASSUME TypeOK, ControlInv, ControlInv', ExactInv, TimeSourceRenumbers
  PROVE  ExactInv'
<1>1. UNCHANGED <<now, mode, pc, op, settling, busy, associated, current_asn, last_sync_asn,
                  current_link_start, task, compare, locked, correcting, asn_read, epoch, synced>>
  BY DEF TimeSourceRenumbers, asnVars, linkVars, timerVars, scheduleVars, correctionVars
<1>2. SyncInv'
  BY <1>1 DEF ExactInv, SyncInv
<1>3. Timing'
  BY <1>1, TimingKept DEF ExactInv
<1> QED  BY <1>2, <1>3 DEF ExactInv

\* Time passes, unless the timer goes off.
LEMMA TickTime ==
  ASSUME TypeOK, TypeOK', ControlInv, ControlInv', ExactInv, Tick
  PROVE  ExactInv'
<1>1. /\ ~AtCompare /\ op # "check" /\ (op = "loop" => settling > 0)
      /\ now' = (now + 1) % Period
      /\ settling' = IF settling > 0 THEN settling - 1 ELSE 0
      /\ busy' = IF op = "slot" \/ (pc = "initial" /\ settling = 0) THEN busy + 1 ELSE busy
      /\ UNCHANGED <<mode, pc, op, associated, current_asn, last_sync_asn, current_link_start,
                     task, compare, locked, correcting, asn_read, epoch, synced>>
  BY DEF Tick, asnVars, linkVars, timerVars, scheduleVars, correctionVars, ghostVars
<1>2. PICK n \in Int, m \in Int, a \in Nat, b \in Nat, s \in Int :
         n = now /\ m = now' /\ a = settling /\ b = busy /\ s = SlotStart
  <2>1. now' \in Int
    BY TimeFacts DEF TypeOK
  <2>2. settling \in Nat /\ busy \in Nat
    BY TimeTypes, TimeFacts
  <2> QED  BY <2>1, <2>2, TimeTypes
<1>3. SlotStart' = s
  BY <1>1, <1>2 DEF SlotStart
<1>4. SameTime(m, n + 1)
  <2>1. PICK x \in Int : x = n + 1
    OBVIOUS
  <2> QED  BY <1>1, <1>2, <2>1, SameReduced
<1>5. ASSUME NEW x \in Int, NEW y \in Int, NEW z \in Int, SameTime(x, z), y - m = x - (n + 1)
      PROVE  SameTime(y, z)
  <2>1. n + 1 \in Int
    OBVIOUS
  <2>2. SameTime(y, x)
    BY <1>4, <1>5, <2>1, TimesMove
  <2> QED  BY <1>5, <2>2, TimesEqual
<1>7. SyncInv'
  BY <1>1 DEF ExactInv, SyncInv
<1>8. ClockInv'
  BY <1>1, <1>2, <1>3 DEF ExactInv, Timing, ClockInv
<1>9. WaitInv'
  BY <1>1 DEF ExactInv, Timing, WaitInv
<1>10. SlotInv'
  <2>1. SUFFICES ASSUME associated, op = "slot" PROVE SameTime(m - busy', s)
    BY <1>1, <1>2, <1>3 DEF SlotInv
  <2>2. SameTime(n - b, s)
    BY <1>2, <2>1 DEF ExactInv, Timing, SlotInv
  <2>3. PICK x \in Int, y \in Int : x = n - b /\ y = m - busy' /\ y - m = x - (n + 1)
    BY <1>1, <1>2, <2>1
  <2>4. SameTime(y, s)
    BY <1>5, <2>2, <2>3
  <2> QED  BY <2>3, <2>4
<1>11. LoopInv'
  <2>1. SUFFICES ASSUME associated, op = "loop"
                 PROVE  \E late \in 0 .. MaxBusy : SameTime(m + settling', s + late)
    BY <1>1, <1>2, <1>3 DEF LoopInv
  <2>2. PICK late \in 0 .. MaxBusy : SameTime(n + a, s + late)
    BY <1>2, <2>1 DEF ExactInv, Timing, LoopInv
  <2>3. late \in Int
    BY TimeFacts
  <2>4. PICK x \in Int, y \in Int, z \in Int :
           x = n + a /\ y = m + settling' /\ z = s + late /\ y - m = x - (n + 1)
    BY <1>1, <1>2, <2>1, <2>3
  <2>5. SameTime(y, z)
    BY <1>5, <2>2, <2>4
  <2> QED  BY <2>4, <2>5
<1>12. InitialInv'
  <2>1. SUFFICES ASSUME pc = "initial", mode # "coordinator"
                 PROVE  \E late \in 0 .. SlotDuration + busy' : SameTime(m + settling', s + late)
    BY <1>1, <1>2, <1>3 DEF InitialInv
  <2>2. PICK D \in Nat \ {0} : D = SlotDuration
    BY TimeFacts
  <2>3. PICK late \in 0 .. D + b : SameTime(n + a, s + late)
    BY <1>2, <2>1, <2>2 DEF ExactInv, Timing, InitialInv
  <2>4. op = "none" /\ late \in Int
    BY <2>1 DEF ExactInv, ControlInv
  <2>5. CASE a > 0
    <3>1. PICK x \in Int, y \in Int, z \in Int :
             x = n + a /\ y = m + settling' /\ z = s + late /\ y - m = x - (n + 1)
      BY <1>1, <1>2, <2>4, <2>5
    <3>2. SameTime(y, z)
      BY <1>5, <2>3, <3>1
    <3>3. busy' = b
      BY <1>1, <1>2, <2>4, <2>5
    <3> QED  BY <2>2, <3>1, <3>2, <3>3
  <2>6. CASE ~(a > 0)
    <3>1. a = 0 /\ settling' = 0 /\ busy' = b + 1
      BY <1>1, <1>2, <2>1, <2>6
    <3>2. SameTime(n, s + late)
      BY <2>3, <3>1
    <3>3. PICK y \in Int, z \in Int, u \in Int : y = n + 1 /\ z = s + (late + 1) /\ u = s + late
      BY <2>4
    <3>4. y - n = z - u
      BY <2>4, <3>3
    <3>5. SameTime(y, z)
      BY <3>2, <3>3, <3>4, TimesMove
    <3>6. SameTime(m, z)
      BY <1>4, <3>3, <3>5, TimesEqual
    <3>7. late + 1 \in 0 .. D + busy' /\ m + settling' = m
      BY <2>3, <2>4, <3>1
    <3> QED  BY <2>2, <3>3, <3>6, <3>7
  <2> QED  BY <2>5, <2>6
<1>13. TimerAtSlot'
  <2>1. SUFFICES ASSUME pc = "joined", associated, task # None
                 PROVE  TimerAtSlot'
    BY <1>1 DEF TimerAtSlot
  <2>2. PICK C \in Nat \ {0} : C = ClockRange
    BY TimeFacts
  <2>3. PICK c \in 0 .. C - 1 : c = compare
    BY <2>1, <2>2 DEF ExactInv, Timing, WaitInv, TypeOK
  <2>4. op = "none"
    BY <2>1 DEF ExactInv, ControlInv
  <2>5. c # n % C
    BY <1>1, <1>2, <2>1, <2>2, <2>3, <2>4 DEF AtCompare, RTIMER_NOW
  <2>6. PICK w \in 0 .. C - 1 : w = (c - n) % C
    <3>1. c - n \in Int
      BY <2>3
    <3> QED  BY <3>1, ModRange
  <2>7. w # 0
    <3>1. SUFFICES ASSUME w = 0 PROVE FALSE
      OBVIOUS
    <3>2. PICK x \in Int : x = c - n
      BY <2>3
    <3>3. ((x % C) + n) % C = (x + n) % C
      BY ModAdd
    <3>4. x + n = c /\ w + n = n
      BY <2>3, <3>1, <3>2
    <3>5. c % C = c
      BY ModSmall
    <3> QED  BY <2>5, <2>6, <3>2, <3>3, <3>4, <3>5
  <2>8. SameTime(n + w, s)
    BY <1>2, <2>1, <2>2, <2>3, <2>6, TimerAtSlotMeans DEF ExactInv, Timing
  <2>9. PICK u \in 0 .. C - 1 : u = w - 1
    BY <2>6, <2>7
  <2>10. SameTime(m + u, s)
    <3>1. PICK x \in Int, y \in Int : x = n + w /\ y = m + u /\ y - m = x - (n + 1)
      BY <2>9
    <3> QED  BY <1>5, <2>8, <3>1
  <2>11. ((s % C) - m) % C = u
    BY <2>2, <2>10, TicksAhead
  <2>12. c = s % C
    BY <1>2, <2>1, <2>2, <2>3 DEF ExactInv, Timing, WaitInv, ClockInv
  <2>13. SameTime(now' + ((compare' - now') % ClockRange), SlotStart')
    BY <1>1, <1>2, <1>3, <2>2, <2>3, <2>10, <2>11, <2>12
  <2> QED  BY <2>13 DEF TimerAtSlot, SameTime, SlotStart
<1> QED  BY <1>7, <1>8, <1>9, <1>10, <1>11, <1>12, <1>13 DEF ExactInv, Timing

\* Control is kept by every step, miscounted or not.
LEMMA ControlStep ==
  ASSUME ~QuickRejoin, TypeOK, ControlInv, [Next]_vars
  PROVE  ControlInv'
<1>1. CASE UNCHANGED vars
  BY <1>1 DEF vars, timerVars, ControlInv
<1>2. CASE Joining
  <2>1. pc = "associate" /\ op = "none"
    BY <1>2 DEF Joining, JoinFromEb, JoinFromCtc, StartNetwork, MayJoin
  <2>2. ~(settling > 0) /\ ~associated
    BY <2>1 DEF ControlInv
  <2>3. mode = "eb" => task = None
    BY <1>2 DEF Joining, JoinFromEb, JoinFromCtc, StartNetwork, MayJoin
  <2>4. task = None
    BY <2>2, <2>3 DEF ControlInv
  <2>5. /\ associated' = TRUE /\ pc' = "initial"
        /\ UNCHANGED <<mode, op, settling, task>>
    BY <1>2 DEF Joining, JoinFromEb, JoinFromCtc, StartNetwork, Join, timerVars
  <2> QED  BY <2>1, <2>2, <2>4, <2>5 DEF ControlInv
<1>3. CASE StartSlot \/ SkipSlot \/ StopEngine
  <2>1. /\ op = "none" /\ task # None /\ task' = None
        /\ UNCHANGED <<mode, pc, settling, associated>>
        /\ (op' \in {"slot", "check"} /\ associated) \/ op' = op
    BY <1>3 DEF StartSlot, SkipSlot, StopEngine, TakeTask, AtCompare
  <2> QED  BY <2>1 DEF ControlInv
<1>4. CASE CheckSync
  <2>1. /\ op = "check" /\ UNCHANGED <<mode, pc, settling, task>>
        /\ \/ mode # "coordinator" /\ ~associated' /\ op' = "none"
           \/ associated' = associated /\ op' = "loop"
    BY <1>4 DEF CheckSync, Desynchronised, timerVars
  <2>2. task = None /\ pc # "initial" /\ ~(settling > 0)
    BY <2>1 DEF ControlInv
  <2> QED  BY <2>1, <2>2 DEF ControlInv
<1>5. CASE NextSlot
  <2>1. op = "loop" /\ op' \in {"loop", "none"} /\ pc' = pc /\ Advance
        /\ (op' = "none" => ~Missed) /\ (op' = "loop" => Missed)
    BY <1>5 DEF NextSlot
  <2>2. task = None /\ pc # "initial"
    BY <2>1 DEF ControlInv
  <2> QED  BY <2>1, <2>2, AdvanceFrame DEF ControlInv
<1>6. CASE \E sync, eb \in BOOLEAN : EndSlot(sync, eb)
  <2>1. op = "slot" /\ op' = "check" /\ UNCHANGED <<mode, pc, settling, associated, task>>
    BY <1>6 DEF EndSlot, timerVars
  <2> QED  BY <2>1 DEF ControlInv
<1>7. CASE FirstSlot
  <2>1. /\ pc = "initial" /\ op' = op /\ Advance
        /\ pc' = IF Missed THEN "initial" ELSE "joined"
    BY <1>7 DEF FirstSlot
  <2>2. op = "none" /\ associated /\ task = None
    BY <2>1 DEF ControlInv
  <2> QED  BY <2>1, <2>2, AdvanceFrame DEF ControlInv
<1>8. CASE \/ TakeLock \/ BeginCorrection \/ Correction \/ TimeSourceRenumbers
           \/ \E l \in Link : AddLink(l) \/ RemoveLink(l)
  <2>1. UNCHANGED <<mode, pc, op, settling, associated, task>>
    BY <1>8 DEF TakeLock, BeginCorrection, Correction, AbortNext, ReadAsn, WriteAsn, WriteSync,
                Release, Step, TimeSourceRenumbers, AddLink, RemoveLink, Section, timerVars
  <2> QED  BY <2>1 DEF ControlInv
<1>9. CASE LeaveForPriority \/ Reset
  <2>1. /\ UNCHANGED <<mode, op, settling, task>> /\ ~associated' /\ pc # "initial"
        /\ pc' = pc \/ pc' = "associate"
        /\ mode = "eb" \/ ~associated
    BY <1>9 DEF LeaveForPriority, Reset, ProcessRuns, timerVars
  <2> QED  BY <2>1 DEF ControlInv
<1>10. CASE Tick
  <2>1. /\ settling' = IF settling > 0 THEN settling - 1 ELSE 0
        /\ UNCHANGED <<mode, pc, op, associated, task>>
    BY <1>10 DEF Tick, timerVars
  <2>2. settling' > 0 => settling > 0
    BY <2>1
  <2> QED  BY <2>1, <2>2 DEF ControlInv
<1> QED  BY <1>1, <1>2, <1>3, <1>4, <1>5, <1>6, <1>7, <1>8, <1>9, <1>10 DEF Next, Engine, Processes

\* Only a node that starts anew forgets that it has miscounted.
LEMMA ForgottenByReset ==
  ASSUME miscounted, ~miscounted', [Next]_vars
  PROVE  Reset
<1>1. CASE UNCHANGED vars
  BY <1>1 DEF vars, ghostVars
<1>2. CASE Joining
  BY <1>2 DEF Joining, JoinFromEb, JoinFromCtc, StartNetwork, Join
<1>3. CASE Engine
  BY <1>3 DEF Engine, StartSlot, SkipSlot, StopEngine, TakeTask, CheckSync, NextSlot, Advance,
              EndSlot, ghostVars
<1>4. CASE Processes
  BY <1>4 DEF Processes, Correction, FirstSlot, Advance, TakeLock, AddLink, RemoveLink, Section,
              BeginCorrection, AbortNext, ReadAsn, WriteAsn, WriteSync, Release, LeaveForPriority,
              ghostVars
<1>5. CASE TimeSourceRenumbers \/ Tick
  BY <1>5 DEF TimeSourceRenumbers, Tick, ghostVars
<1> QED  BY <1>1, <1>2, <1>3, <1>4, <1>5 DEF Next

\* Time is kept by every step of a node that has not miscounted.
LEMMA ExactStep ==
  ASSUME ~QuickRejoin, TypeOK, TypeOK', AbortInv, ControlInv, ControlInv', ExactInv,
         ~miscounted', [Next]_vars
  PROVE  ExactInv'
<1>1. CASE UNCHANGED vars
  <2>1. UNCHANGED <<now, mode, pc, op, settling, busy, associated, current_asn,
                    last_sync_asn, current_link_start, task, compare, correcting, epoch, synced>>
    BY <1>1 DEF vars, asnVars, linkVars, timerVars, correctionVars, ghostVars
  <2>2. SyncInv'
    BY <2>1 DEF ExactInv, SyncInv
  <2>3. Timing'
    BY <2>1, TimingKept DEF ExactInv
  <2> QED  BY <2>2, <2>3 DEF ExactInv
<1>2. CASE Joining
  BY <1>2, JoiningTime
<1>3. CASE Engine
  BY <1>3, InterruptTime, CheckSyncTime, NextSlotTime, EndSlotTime DEF Engine
<1>4. CASE Processes
  BY <1>4, FirstSlotTime, CorrectionTime, WriteAsnTime, OtherProcessTime DEF Processes, Correction
<1>5. CASE TimeSourceRenumbers
  BY <1>5, RenumberTime
<1>6. CASE Tick
  BY <1>6, TickTime
<1> QED  BY <1>1, <1>2, <1>3, <1>4, <1>5, <1>6 DEF Next

LEMMA TimeStep ==
  ASSUME ~QuickRejoin, TypeOK, TypeOK', AbortInv, TimeInv, [Next]_vars
  PROVE  TimeInv'
<1>1. ControlInv'
  BY ControlStep DEF TimeInv
<1>2. CASE miscounted'
  BY <1>1, <1>2 DEF TimeInv
<1>3. CASE ~miscounted' /\ ~miscounted
  BY <1>1, <1>3, ExactStep DEF TimeInv
<1>4. CASE ~miscounted' /\ miscounted
  <2>1. ~associated'
    BY <1>4, ForgottenByReset DEF Reset
  <2>2. SyncInv' /\ Timing'
    BY <1>1, <2>1, NoTiming DEF SyncInv
  <2> QED  BY <1>1, <2>2 DEF TimeInv, ExactInv
<1> QED  BY <1>2, <1>3, <1>4

\* The invariant of time holds throughout, if no node finds a beacon while the
\* timer of its last slot is pending.  The interrupt may come between any two
\* steps of a correction and count slots; only between the read of the number
\* and its write this has consequences, until the node starts anew.
THEOREM TimeInvariance ==
  ASSUME ~QuickRejoin
  PROVE  Spec => []TimeInv
<1>1. IInv /\ IInv' /\ TimeInv /\ [Next]_vars => TimeInv'
  BY TimeStep DEF IInv
<1> QED  BY InitTime, Invariance, <1>1, PTL DEF Spec

\* A node that waits for a slot wakes up when the slot begins: whatever has been
\* missed, skipped, corrected or numbered anew, and wherever the clock wraps;
\* a correction that undoes a count of slots is the only cause of the contrary.
THEOREM WakesOnTime ==
  ASSUME ~QuickRejoin
  PROVE  Spec => []OnTime
<1>1. TimeInv => miscounted \/ TimerAtSlot
  BY DEF TimeInv, ExactInv, Timing
<1>2. AlwaysArmed /\ (miscounted \/ TimerAtSlot) => OnTime
  BY DEF OnTime
<1> QED  BY TimeInvariance, TimerAlwaysArmed, <1>1, <1>2, PTL

\* The step in which a node leaves for want of synchronisation.
LEMMA LeavingStep ==
  ASSUME TypeOK, ExactInv, Next, op = "check", associated, ~associated', correcting # "sync"
  PROVE  (SlotAt(now - busy, epoch) - synced) % (Low * High) > Threshold
<1>1. CheckSync
  <2>1. CASE Joining
    BY <2>1 DEF Joining, JoinFromEb, JoinFromCtc, StartNetwork, MayJoin
  <2>2. CASE Engine
    BY <2>2 DEF Engine, StartSlot, SkipSlot, StopEngine, TakeTask, AtCompare, NextSlot, EndSlot
  <2>3. CASE Processes
    BY <2>3, AdvanceFrame DEF Processes, Correction, FirstSlot, TakeLock, AddLink, RemoveLink, Section,
                              BeginCorrection, AbortNext, ReadAsn, WriteAsn, WriteSync, Release,
                              Step, ProcessRuns, LeaveForPriority, Reset
  <2>4. CASE TimeSourceRenumbers \/ Tick
    BY <2>4 DEF TimeSourceRenumbers, Tick
  <2> QED  BY <1>1, <2>1, <2>2, <2>3, <2>4 DEF Next
<1>2. mode # "coordinator" /\ ASN_DIFF(current_asn, last_sync_asn) > Threshold
  BY <1>1 DEF CheckSync, Desynchronised
<1>3. PICK N \in Nat \ {0} : N = Low * High
  BY WordFacts
<1>4. PICK L \in Nat \ {0} : L = Low /\ N % L = 0
  <2>1. N = Low * High + 0 /\ N \in Int /\ High \in Int /\ 0 \in 0 .. Low - 1 /\ Low \in Nat \ {0}
    BY <1>3, WordFacts
  <2>2. N % Low = 0
    BY <2>1, ModUnique
  <2> QED  BY <2>1, <2>2
<1>5. PICK v \in 0 .. N - 1 : v = Value(current_asn)
  BY <1>3, TimeTypes
<1>6. PICK u \in 0 .. N - 1 : u = Value(last_sync_asn)
  BY <1>3, TimeTypes, ValueRange
<1>7. synced = u
  BY <1>2, <1>6 DEF ExactInv, SyncInv
<1>8. SlotAt(now - busy, epoch) = v
  <2>1. SameTime(now - busy, SlotStart)
    BY DEF ExactInv, Timing, SlotInv
  <2>2. SlotStart = epoch + v * SlotDuration + 0
    <3>1. SlotStart = SlotStart + 0
      BY TimeTypes
    <3> QED  BY <1>5, <3>1 DEF SlotStart
  <2>3. now - busy \in Int /\ epoch \in Int /\ 0 \in 0 .. SlotDuration - 1 /\ v \in Int
    BY TimeTypes, TimeFacts
  <2>4. SlotAt(now - busy, epoch) = v % (Low * High)
    BY <2>1, <2>2, <2>3, SlotOfTime
  <2>5. v % N = v
    BY ModSmall
  <2> QED  BY <1>3, <2>4, <2>5
<1>9. PICK d \in 0 .. L - 1 : d = ASN_DIFF(current_asn, last_sync_asn) /\ d = (v - u) % L
  <2>1. current_asn.ls4b = v % L /\ last_sync_asn.ls4b = u % L
    BY <1>4, <1>5, <1>6, LowerWord, TimeTypes
  <2>2. PICK x \in 0 .. L - 1, y \in 0 .. L - 1 : x = v % L /\ y = u % L
    <3>1. v \in Int /\ u \in Int
      OBVIOUS
    <3> QED  BY <3>1, ModRange
  <2>3. (x - y) % L = (v - u) % L
    <3>1. PICK q \in Int : u = L * q + y
      <4>1. u % L \in 0 .. L - 1 /\ u \div L \in Int /\ u = L * (u \div L) + (u % L)
        BY ModRange
      <4> QED  BY <2>2, <4>1
    <3>2. PICK c \in Int, z \in Int : c = 0 - y /\ z = v - u
      OBVIOUS
    <3>3. ((v % L) + c) % L = (v + c) % L
      <4>1. v \in Int
        OBVIOUS
      <4> QED  BY <3>2, <4>1, ModAdd
    <3>4. v + c = z + L * q
      <4>1. L * q \in Int
        OBVIOUS
      <4> QED  BY <3>1, <3>2, <4>1
    <3>5. (z + L * q) % L = z % L
      BY ModMultiple
    <3>6. x - y = x + c
      BY <3>2
    <3> QED  BY <2>2, <3>2, <3>3, <3>4, <3>5, <3>6
  <2>4. (x - y) % L \in 0 .. L - 1
    <3>1. x - y \in Int
      OBVIOUS
    <3> QED  BY <3>1, ModRange
  <2> QED  BY <1>4, <2>1, <2>2, <2>3, <2>4 DEF ASN_DIFF
<1>10. PICK w \in 0 .. N - 1 : w = (v - u) % N
  <2>1. v - u \in Int
    OBVIOUS
  <2> QED  BY <2>1, ModRange
<1>11. w % L = d
  <2>1. PICK z \in Int : z = v - u
    OBVIOUS
  <2>2. (z % N) % L = z % L
    BY <1>4, ModOfMod
  <2> QED  BY <1>9, <1>10, <2>1, <2>2
<1>12. d <= w
  <2>1. PICK q \in Nat : q = w \div L
    <3>1. w \in Nat /\ w \div L \in 0 .. w
      BY QuotientRange
    <3> QED  BY <3>1
  <2>2. w = L * q + d
    <3>1. w % L \in 0 .. L - 1 /\ w = L * (w \div L) + (w % L)
      BY ModRange
    <3> QED  BY <1>11, <2>1, <3>1
  <2>3. L * q \in Nat
    OBVIOUS
  <2> QED  BY <2>2, <2>3
<1> QED  BY <1>2, <1>3, <1>7, <1>8, <1>9, <1>10, <1>12, TimeFacts

\* A node never leaves for want of synchronisation before the threshold, although
\* it compares only the lower words of two slot numbers, and one of them may have
\* been corrected since; but for the moment when only one of the two has been,
\* and for a node that has miscounted.
THEOREM LeavesLate ==
  ASSUME ~QuickRejoin
  PROVE  Spec => LeavesOnlyWhenStale
<1> DEFINE Leaving ==
      op = "check" /\ associated /\ ~associated' =>
        (SlotAt(now - busy, epoch) - synced) % (Low * High) > Threshold
            \/ correcting = "sync" \/ miscounted
<1>1. IInv /\ TimeInv /\ [Next]_vars => [Leaving]_vars
  BY LeavingStep DEF IInv, TimeInv
<1> HIDE DEF Leaving
<1>2. Spec => [][Leaving]_vars
  BY Invariance, TimeInvariance, <1>1, PTL DEF Spec
<1> QED  BY <1>2 DEF LeavesOnlyWhenStale, LeavesUnsynchronised, Stale, Leaving
=============================================================================
