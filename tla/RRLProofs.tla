----------------------------- MODULE RRLProofs -----------------------------
(***************************************************************************)
(* The rate limiter, for every configuration, any number of clients and    *)
(* names, and any way the hash spreads the streams over the table.  What   *)
(* it promises about a limit, or a slip rate, it promises for those that   *)
(* its 16-bit counters can reach (Fits).                                   *)
(***************************************************************************)
EXTENDS RRL, TLAPS

(* A decay is never more than the tokens that the elapsed seconds give     *)
(* back, and exactly that when it fits in a uint32.                        *)
LEMMA ModuloFacts ==
  ASSUME NEW n \in Nat, NEW w \in Nat, w > 0
  PROVE  /\ n % w \in 0..w-1
         /\ n % w <= n
         /\ n < w => n % w = n
  OBVIOUS

(* Whatever the configuration says, New leaves every class with a positive *)
(* limit, and a slip rate that is not negative.                            *)
LEMMA LimitType ==
  ASSUME NEW class
  PROVE  /\ Limit(class) \in Nat \ {0}
         /\ SlipEvery \in Nat
  BY WidthAssumption, ConfigAssumption DEF Limit, SlipEvery, OrDefault

(* A count that fits is not changed by its conversion.                     *)
LEMMA Uint16Fits ==
  ASSUME NEW n \in Nat, n < Half
  PROVE  Uint16(n) = n
  BY ModuloFacts, WidthAssumption DEF Uint16

(* The tokens of a bucket pay for time: moving both the clock and the      *)
(* window on by e seconds is worth limit * e.                              *)
LEMMA Distribute ==
  ASSUME NEW l \in Nat, NEW a \in Int, NEW b \in Int, NEW c \in Int
  PROVE  /\ l * (a - c) = l * (b - c) + (a - b) * l
         /\ l * (a - c + 1) = l * (a - c) + l
         /\ l * (a - a) = 0
  OBVIOUS

(* A whole second gives back at least the limit.                           *)
LEMMA LessTimes ==
  ASSUME NEW l \in Nat, NEW e \in Nat, e >= 1
  PROVE  /\ e * l >= l
         /\ e * l \in Nat
  OBVIOUS

-----------------------------------------------------------------------------
SlotType ==
  [key : Streams \cup {NoKey}, timestamp : 0..MaxNow, tokens : 0..Half-1, slip : 0..Half-1]

(* What a slot promises to the stream it holds.                            *)
Sound(sl, l) == sl.tokens <= l /\ (SlipEvery = 0 \/ sl.slip < SlipEvery)

(* What bringing a slot to the present does: nothing but the timestamp in  *)
(* the same second or after a step back; otherwise a fresh slip count, and *)
(* at most the due number of tokens fewer.                                 *)
LEMMA PresentFacts ==
  ASSUME NEW sl \in SlotType, NEW l \in Nat \ {0}, now \in 0..MaxNow, Sound(sl, l)
  PROVE  LET cur == Present(sl, l)
             ts == sl.timestamp
         IN  /\ cur \in SlotType
             /\ cur.key = sl.key /\ cur.timestamp = now
             /\ Sound(cur, l)
             /\ now <= ts => cur.tokens = sl.tokens /\ cur.slip = sl.slip
             /\ now > ts => /\ cur.tokens + (now - ts) * l >= sl.tokens
                            /\ (now - ts) * l < Word => cur.tokens = 0
<1> DEFINE ts == sl.timestamp
           e == now - ts
<1>0. /\ ts \in 0..MaxNow /\ sl.tokens \in 0..Half-1 /\ sl.slip \in 0..Half-1
      /\ l \in Nat /\ l >= 1 /\ now \in Nat /\ Half \in Nat /\ Word \in Nat /\ Word > 0
  BY WidthAssumption DEF SlotType
<1>1. CASE now <= ts
  <2>1. Present(sl, l) = [sl EXCEPT !.timestamp = now]
    BY <1>0, <1>1 DEF Present
  <2> QED BY <2>1, <1>0, <1>1 DEF SlotType, Sound
<1>2. CASE now > ts
  <2>1. e \in Nat /\ e >= 1
    BY <1>0, <1>2
  <2>2. e * l \in Nat /\ e * l >= l
    BY Zenon, <2>1, <1>0, LessTimes
  <2> DEFINE d == (e * l) % Word
  <2>3. d \in Nat /\ d <= e * l /\ (e * l < Word => d = e * l)
    BY <2>2, <1>0, ModuloFacts
  <2> DEFINE t == IF d < sl.tokens THEN sl.tokens - d ELSE 0
  <2>4. Present(sl, l) = [sl EXCEPT !.timestamp = now, !.slip = 0, !.tokens = t]
    BY <1>0, <1>2 DEF Present, Decay
  <2>5. t \in 0..Half-1 /\ t <= sl.tokens /\ t + e * l >= sl.tokens
        /\ (e * l < Word => t = 0)
    <3> HIDE DEF d
    <3> DEFINE p == e * l
    <3>1. p \in Nat /\ p >= l /\ d \in Nat /\ d <= p /\ (p < Word => d = p)
      BY Zenon, <2>2, <2>3
    <3>2. sl.tokens <= l
      BY Zenon DEF Sound
    <3> HIDE DEF p
    <3>3. t \in 0..Half-1 /\ t <= sl.tokens /\ t + p >= sl.tokens /\ (p < Word => t = 0)
      BY <3>1, <3>2, <1>0
    <3> QED BY Zenon, <3>3 DEF p
  <2>6. SlipEvery \in Nat
    BY Zenon, LimitType
  <2>9. t \in 0..Half-1
    BY Zenon, <2>5
  <2> HIDE DEF t
  <2>7. /\ Present(sl, l).key = sl.key /\ Present(sl, l).timestamp = now
        /\ Present(sl, l).tokens = t /\ Present(sl, l).slip = 0
        /\ Present(sl, l) \in SlotType
    <3> DEFINE a == [sl EXCEPT !.timestamp = now]
               b == [a EXCEPT !.slip = 0]
               c == [b EXCEPT !.tokens = t]
    <3>1. a \in SlotType /\ a.key = sl.key /\ a.timestamp = now
      BY Zenon, <1>0 DEF SlotType
    <3> HIDE DEF a
    <3>2. b \in SlotType /\ b.key = sl.key /\ b.timestamp = now /\ b.slip = 0
      BY <3>1, <1>0, WidthAssumption DEF SlotType
    <3> HIDE DEF b
    <3>3. c \in SlotType /\ c.key = sl.key /\ c.timestamp = now /\ c.slip = 0
          /\ c.tokens = t
      BY Zenon, <3>2, <2>9 DEF SlotType
    <3>4. Present(sl, l) = c
      BY Zenon, <2>4 DEF a, b
    <3> QED BY Zenon, <3>3, <3>4
  <2>8. Sound(Present(sl, l), l)
    BY <2>7, <2>5, <2>6, <1>0 DEF Sound
  <2> QED BY <2>7, <2>8, <2>5, <1>2, <1>0
<1> QED BY <1>0, <1>1, <1>2

(* One decision: what it returns, how it pays for what it allows, and when *)
(* it must allow or count towards a slip.                                  *)
LEMMA DecideFacts ==
  ASSUME NEW k \in Streams, NEW sl \in SlotType, NEW l \in Nat \ {0},
         now \in 0..MaxNow, sl.key = k => Sound(sl, l)
  PROVE  LET d == Decide(k, sl, l)
             ts == sl.timestamp
             one == IF d.action = "allow" /\ Fits(l) THEN 1 ELSE 0
         IN  /\ d.slot \in SlotType /\ d.slot.key = k /\ d.slot.timestamp = now
             /\ d.action \in {"allow", "drop", "slip"}
             /\ Sound(d.slot, l)
             /\ one <= d.slot.tokens
             /\ sl.key = k /\ now >= ts /\ Fits(l) =>
                  d.slot.tokens + (now - ts) * l >= sl.tokens + one
             /\ sl.key # k => d.action = "allow"
             /\ sl.key = k /\ now > ts /\ (now - ts) * l < Word => d.action = "allow"
             /\ sl.key = k /\ SlipEvery > 0 /\ Fits(SlipEvery) /\ d.action = "drop" /\ now <= ts
                  => d.slot.slip = sl.slip + 1
<1>0. /\ sl.timestamp \in 0..MaxNow /\ sl.tokens \in 0..Half-1 /\ sl.slip \in 0..Half-1
      /\ l \in Nat /\ l >= 1 /\ now \in Nat /\ Half \in Nat /\ Half > 1
      /\ SlipEvery \in Nat /\ now \in 0..MaxNow /\ MaxNow \in Nat /\ Word \in Nat
  BY WidthAssumption, LimitType DEF SlotType
<1> DEFINE d == Decide(k, sl, l)
           ts == sl.timestamp
           cur == Present(sl, l)
           gain == (now - ts) * l
           one == IF d.action = "allow" /\ Fits(l) THEN 1 ELSE 0
<1>1. now >= ts => gain \in Nat
  <2>1. now > ts => gain \in Nat
    BY LessTimes, <1>0
  <2>2. now = ts => gain = 0
    BY <1>0
  <2> QED BY <2>1, <2>2, <1>0
<1>2. sl.key = k =>
        /\ cur \in SlotType /\ cur.key = k /\ cur.timestamp = now /\ Sound(cur, l)
        /\ now <= ts => cur.tokens = sl.tokens /\ cur.slip = sl.slip
        /\ now > ts => cur.tokens + gain >= sl.tokens /\ (gain < Word => cur.tokens = 0)
  BY Zenon, PresentFacts
<1>3. now = ts => gain = 0
  BY <1>0
<1>4. /\ d.slot \in SlotType /\ d.slot.key = k /\ d.slot.timestamp = now
      /\ d.action \in {"allow", "drop", "slip"}
      /\ Sound(d.slot, l)
      /\ one <= d.slot.tokens
      /\ sl.key = k /\ now >= ts /\ Fits(l) => d.slot.tokens + gain >= sl.tokens + one
      /\ sl.key # k => d.action = "allow"
      /\ sl.key = k /\ now > ts /\ gain < Word => d.action = "allow"
      /\ sl.key = k /\ SlipEvery > 0 /\ Fits(SlipEvery) /\ d.action = "drop" /\ now <= ts
           => d.slot.slip = sl.slip + 1
  <2> HIDE DEF gain
  <2>1. CASE sl.key # k
    <3>1. d = Evict(k) /\ Uint16(1) = 1
      BY Zenon, <2>1, Uint16Fits, <1>0 DEF Decide
    <3>2. /\ d.slot = [key |-> k, timestamp |-> now, tokens |-> 1, slip |-> 0]
          /\ d.action = "allow"
      BY <3>1 DEF Evict
    <3> HIDE DEF d
    <3>3. d.slot \in SlotType /\ Sound(d.slot, l)
      BY <3>2, <1>0 DEF SlotType, Sound
    <3> QED BY <3>2, <3>3, <2>1, <1>0
  <2>2. CASE sl.key = k
    <3> HIDE DEF cur
    <3>1. cur.tokens \in 0..Half-1 /\ cur.slip \in 0..Half-1 /\ cur.tokens <= l
          /\ (SlipEvery = 0 \/ cur.slip < SlipEvery)
      BY Zenon, <1>2, <2>2 DEF SlotType, Sound
    <3>2. now >= ts => cur.tokens + gain >= sl.tokens
      BY <1>0, <1>1, <1>2, <1>3, <2>2, <3>1
    <3>3. CASE cur.tokens < l
      <4> DEFINE u == Uint16(cur.tokens + 1)
      <4>1. u \in 0..Half-1 /\ u <= cur.tokens + 1 /\ (Fits(l) => u = cur.tokens + 1)
        BY <3>1, <3>3, <1>0, ModuloFacts DEF Uint16, Fits
      <4>2. d.slot = [cur EXCEPT !.tokens = u] /\ d.action = "allow"
        BY Zenon, <2>2, <3>3 DEF Decide, Spend, cur
      <4> HIDE DEF d, u
      <4>3. /\ d.slot.tokens = u /\ d.slot.slip = cur.slip
            /\ d.slot.key = k /\ d.slot.timestamp = now /\ d.slot \in SlotType
        BY <4>1, <4>2, <1>2, <2>2 DEF SlotType
      <4>4. Sound(d.slot, l)
        BY <4>1, <4>3, <3>1, <3>3, <1>0 DEF Sound
      <4>5. one <= u /\ (Fits(l) => u = cur.tokens + one)
        BY <4>1, <4>2, <3>1, <1>0
      <4>6. now >= ts /\ Fits(l) => u + gain >= sl.tokens + one
        BY <4>1, <4>5, <3>1, <3>2, <1>0, <1>1
      <4> QED BY <4>2, <4>3, <4>4, <4>5, <4>6, <1>0, <2>2
    <3>4. CASE ~(cur.tokens < l)
      <4>1. cur.tokens = l
        BY <3>1, <3>4, <1>0
      <4> DEFINE u == Uint16(cur.slip + 1)
      <4>2. /\ Uint16(l) = l /\ u \in 0..Half-1
            /\ (SlipEvery > 0 /\ Fits(SlipEvery) => u = cur.slip + 1)
        BY <3>1, <4>1, <1>0, Uint16Fits, ModuloFacts DEF Uint16, Fits
      <4>3. d = Refuse(cur, l)
        BY Zenon, <2>2, <3>4 DEF Decide, cur
      <4> HIDE DEF d
      <4> DEFINE full == [cur EXCEPT !.tokens = l]
      <4>4. full \in SlotType /\ full.tokens = l /\ full.key = k /\ full.timestamp = now
            /\ full.slip = cur.slip
        BY <1>2, <2>2, <3>1, <4>1, <1>0 DEF SlotType
      <4>5. /\ d.slot.tokens = l /\ d.slot.key = k /\ d.slot.timestamp = now
            /\ d.slot \in SlotType /\ d.action \in {"drop", "slip"}
            /\ SlipEvery = 0 \/ d.slot.slip < SlipEvery
            /\ SlipEvery > 0 /\ Fits(SlipEvery) /\ d.action = "drop"
                 => d.slot.slip = cur.slip + 1
        <5>1. CASE SlipEvery = 0
          <6>1. d.slot = full /\ d.action = "drop"
            BY Zenon, <4>3, <4>2, <5>1 DEF Refuse
          <6> QED BY <6>1, <5>1, <4>4, <1>0
        <5>2. CASE SlipEvery > 0
          <6>0. SlipEvery # 0
            BY <5>2, <1>0
          <6>1. CASE u >= SlipEvery
            <7>1. d.slot = [full EXCEPT !.slip = 0] /\ d.action = "slip"
              BY Zenon, <4>3, <4>2, <6>0, <6>1 DEF Refuse
            <7> HIDE DEF full, u
            <7> QED BY <7>1, <4>4, <5>2, <1>0 DEF SlotType
          <6>2. CASE ~(u >= SlipEvery)
            <7>1. d.slot = [full EXCEPT !.slip = u] /\ d.action = "drop"
              BY <4>3, <4>2, <6>0, <6>2, Zenon DEF Refuse
            <7> HIDE DEF full, u
            <7> QED BY <7>1, <4>2, <4>4, <5>2, <6>2, <3>1, <1>0 DEF SlotType
          <6> QED BY Zenon, <6>1, <6>2
        <5> QED BY <5>1, <5>2, <1>0
      <4>6. Sound(d.slot, l)
        BY <4>5, <1>0 DEF Sound
      <4>7. now >= ts => d.slot.tokens + gain >= sl.tokens
        BY Zenon, <4>5, <4>1, <3>2, <1>0
      <4>8. ~(now > ts /\ gain < Word)
        BY <4>1, <1>2, <2>2, <1>0
      <4> QED BY <4>5, <4>6, <4>7, <4>8, <1>2, <2>2, <1>0, <1>1
    <3> QED BY Zenon, <3>3, <3>4
  <2> QED BY Zenon, <2>1, <2>2
<1> QED BY Zenon, <1>4

-----------------------------------------------------------------------------
(* Under no wrap-around, a stream that holds its slot has been dropped no  *)
(* more often in a row than its slip counter says.                         *)
SilenceCounted ==
  SlipEvery > 0 /\ Fits(SlipEvery) /\ ~wrapped =>
    \A k \in Streams : /\ silence[k] < SlipEvery
                       /\ Held(k) => silence[k] <= At(k).slip

IInv == TypeOK /\ BucketBounded /\ TokensAccount /\ SilenceCounted

LEMMA StreamSlot ==
  ASSUME NEW k \in Streams
  PROVE  Slot[k] \in Slots
  BY Zenon DEF Slots

LEMMA CheckedStream ==
  ASSUME NEW c \in Clients, NEW n \in Names, NEW rcode
  PROVE  /\ HashKey(c, n, ClassifyRCode(rcode)) \in Streams
         /\ HashKey(c, n, ClassifyRCode(rcode)).class = ClassifyRCode(rcode)
<1>1. ClassifyRCode(rcode) \in Classes
  BY Zenon DEF ClassifyRCode, Classes
<1> QED BY Zenon, <1>1 DEF HashKey, Streams, Subnets

(* The table starts empty.                                                 *)
LEMMA InitIInv == Init => IInv
<1> SUFFICES ASSUME Init PROVE IInv
  OBVIOUS
<1>1. Half > 0 /\ Half \in Nat /\ MaxNow \in Nat /\ SlipEvery \in Nat
  BY WidthAssumption, LimitType
<1>2. \A k \in Streams : ~Held(k)
  BY Zenon, StreamSlot, StreamAssumption DEF Init, Held, FreshSlot
<1>3. TypeOK
  <2>1. FreshSlot \in [key : Streams \cup {NoKey}, timestamp : 0..MaxNow,
                     tokens : 0..Half-1, slip : 0..Half-1]
    BY <1>1 DEF FreshSlot
  <2>2. [count |-> 0, since |-> 0] \in [count : Nat, since : 0..MaxNow]
    BY <1>1
  <2>3. now \in 0..MaxNow
    BY <1>1 DEF Init
  <2> QED BY <2>1, <2>2, <2>3, Zenon DEF Init, TypeOK
<1>4. SilenceCounted
  BY Zenon, <1>1, <1>2 DEF Init, SilenceCounted
<1> QED BY Zenon, <1>2, <1>3, <1>4 DEF IInv, BucketBounded, TokensAccount

(* A decision keeps the invariant: DecideFacts for the stream it is about, *)
(* and nothing for the others, which can only lose their slot.             *)
LEMMA CheckIInv ==
  ASSUME IInv, NEW c \in Clients, NEW n \in Names, NEW rcode \in RCodes,
         Check(c, n, rcode)
  PROVE  IInv'
<1> DEFINE class == ClassifyRCode(rcode)
           k == HashKey(c, n, class)
           i == Slot[k]
           sl == slots[i]
           l == Limit(class)
           d == Decide(k, sl, l)
           one == IF d.action = "allow" /\ Fits(l) THEN 1 ELSE 0
           gain == (now - sl.timestamp) * l
<1>1. k \in Streams /\ i \in Slots /\ k.class = class
  BY Zenon, CheckedStream, StreamSlot
<1>2. l \in Nat \ {0} /\ SlipEvery \in Nat /\ Half \in Nat /\ MaxNow \in Nat
      /\ Word \in Nat
  BY Zenon, LimitType, WidthAssumption
<1>3. sl \in SlotType /\ now \in 0..MaxNow
  BY Zenon, <1>1 DEF IInv, TypeOK, SlotType
<1>4. sl.key = k => Sound(sl, l)
  BY Zenon, <1>1 DEF IInv, BucketBounded, Held, At, Sound
<1>5. /\ d.slot \in SlotType /\ d.slot.key = k /\ d.slot.timestamp = now
      /\ d.action \in {"allow", "drop", "slip"}
      /\ Sound(d.slot, l)
      /\ one <= d.slot.tokens
      /\ sl.key = k /\ now >= sl.timestamp /\ Fits(l) =>
           d.slot.tokens + gain >= sl.tokens + one
      /\ sl.key # k => d.action = "allow"
      /\ sl.key = k /\ now > sl.timestamp /\ gain < Word => d.action = "allow"
      /\ sl.key = k /\ SlipEvery > 0 /\ Fits(SlipEvery) /\ d.action = "drop"
         /\ now <= sl.timestamp => d.slot.slip = sl.slip + 1
  BY <1>1, <1>2, <1>3, <1>4, DecideFacts
<1>6. /\ slots' = [slots EXCEPT ![i] = d.slot]
      /\ last' = [key |-> k, action |-> d.action]
      /\ granted' = [granted EXCEPT ![i] =
           IF sl.key # k \/ now < sl.timestamp
           THEN [count |-> one, since |-> now]
           ELSE [count |-> granted[i].count + one, since |-> granted[i].since]]
      /\ silence' = [silence EXCEPT ![k] =
           IF d.action # "drop" THEN 0
           ELSE IF silence[k] < SlipEvery THEN silence[k] + 1 ELSE silence[k]]
      /\ wrapped' = (wrapped \/ (sl.key = k /\ gain >= Word))
      /\ now' = now
  BY Zenon DEF Check
<1>7. gain \in Int /\ l * (now - granted[i].since)
                       = l * (sl.timestamp - granted[i].since) + gain
      /\ l * (now - now) = 0
  BY <1>1, <1>2, <1>3, Distribute DEF IInv, TypeOK, SlotType
<1> HIDE DEF gain, d, sl, l, k, i, class
<1>8. TypeOK'
  BY <1>1, <1>3, <1>5, <1>6 DEF IInv, TypeOK, SlotType
<1>12. i = Slot[k] /\ l = Limit(k.class) /\ sl = slots[i]
  BY Zenon, <1>1 DEF i, l, sl
<1>13. /\ slots'[i] = d.slot
       /\ \A j \in Slots : j # i => slots'[j] = slots[j] /\ granted'[j] = granted[j]
       /\ granted'[i] = IF sl.key # k \/ now < sl.timestamp
                        THEN [count |-> one, since |-> now]
                        ELSE [count |-> granted[i].count + one, since |-> granted[i].since]
  BY Zenon, <1>1, <1>6 DEF IInv, TypeOK
<1>14. \A j \in Streams : Held(j)' => j = k \/ (Held(j) /\ Slot[j] # i)
  BY Zenon, <1>5, <1>13, StreamSlot DEF Held
<1>15. Held(k)' /\ At(k)' = d.slot
  BY Zenon, <1>5, <1>12, <1>13 DEF Held, At
<1>16. \A j \in Streams : Slot[j] # i =>
         At(j)' = At(j) /\ granted'[Slot[j]] = granted[Slot[j]]
  BY Zenon, <1>13, StreamSlot DEF At
<1>9. BucketBounded'
  <2> SUFFICES ASSUME NEW j \in Streams, Held(j)'
               PROVE  /\ At(j)'.tokens <= Limit(j.class)
                      /\ SlipEvery = 0 \/ At(j)'.slip < SlipEvery
    BY Zenon DEF BucketBounded
  <2>1. CASE j = k
    BY Zenon, <2>1, <1>5, <1>12, <1>15 DEF Sound
  <2>2. CASE j # k
    BY Zenon, <2>2, <1>14, <1>16 DEF IInv, BucketBounded
  <2> QED BY Zenon, <2>1, <2>2
<1>10. TokensAccount'
  <2> SUFFICES ASSUME NEW j \in Streams, Held(j)', Fits(Limit(j.class))
               PROVE  /\ granted'[Slot[j]].since <= At(j)'.timestamp
                      /\ granted'[Slot[j]].count <= At(j)'.tokens
                           + Limit(j.class) * (At(j)'.timestamp - granted'[Slot[j]].since)
    BY Zenon DEF TokensAccount, Fits
  <2>1. CASE j # k
    BY Zenon, <2>1, <1>14, <1>16 DEF IInv, TokensAccount
  <2>2. CASE j = k /\ (sl.key # k \/ now < sl.timestamp)
    <3>1. granted'[i].since = now /\ granted'[i].count = one
      BY <2>2, <1>13
    <3>2. At(j)'.timestamp = now /\ one <= At(j)'.tokens /\ d.slot.tokens \in Nat
          /\ At(j)' = d.slot
      BY <2>2, <1>5, <1>15, <1>2 DEF SlotType
    <3>3. l * (now - now) = 0 /\ l = Limit(j.class) /\ Slot[j] = i
      BY Zenon, <1>7, <1>12, <2>2
    <3> QED BY <3>1, <3>2, <3>3, <1>3
  <2>3. CASE j = k /\ sl.key = k /\ now >= sl.timestamp
    <3> DEFINE g == granted[i]
               w == l * (sl.timestamp - g.since)
               w2 == l * (now - g.since)
    <3>1. Held(k) /\ At(k) = sl
      BY Zenon, <2>3, <1>12 DEF Held, At
    <3>2. g.since <= sl.timestamp /\ g.count <= sl.tokens + w
      BY Zenon, <2>3, <3>1, <1>1, <1>12 DEF IInv, TokensAccount
    <3>3. w2 = w + gain
      BY Zenon, <1>7
    <3>4. granted'[i].since = g.since /\ granted'[i].count = g.count + one
      BY <2>3, <1>13, <1>3, <1>1 DEF IInv, TypeOK, SlotType
    <3>5. d.slot.tokens + gain >= sl.tokens + one /\ d.slot.timestamp = now
      BY Zenon, <1>5, <1>12, <2>3
    <3>6. g.count \in Nat /\ g.since \in Nat /\ sl.tokens \in Nat /\ d.slot.tokens \in Nat
          /\ sl.timestamp \in Nat /\ now \in Nat /\ one \in {0, 1} /\ gain \in Int
      BY <1>1, <1>2, <1>3, <1>5, <1>7 DEF IInv, TypeOK, SlotType
    <3>7. w \in Int /\ w2 \in Int
      BY <3>6, <1>2
    <3> HIDE DEF w, w2, one, g
    <3>8. g.count + one <= d.slot.tokens + w2 /\ g.since <= now
      BY <3>2, <3>3, <3>5, <3>6, <3>7, <2>3
    <3> QED BY Zenon, <3>4, <3>5, <3>8, <1>12, <1>15, <2>3 DEF w2
  <2> QED
    <3>1. now < sl.timestamp \/ now >= sl.timestamp
      BY <1>3, <1>2 DEF SlotType
    <3> QED BY Zenon, <3>1, <2>1, <2>2, <2>3
<1>11. SilenceCounted'
  <2> SUFFICES ASSUME SlipEvery > 0, Fits(SlipEvery), ~wrapped', NEW j \in Streams
               PROVE  /\ silence'[j] < SlipEvery
                      /\ Held(j)' => silence'[j] <= At(j)'.slip
    BY Zenon DEF SilenceCounted, Fits
  <2>1. ~wrapped /\ ~(sl.key = k /\ gain >= Word)
    BY <1>6, Zenon
  <2>2. silence[j] < SlipEvery /\ (Held(j) => silence[j] <= At(j).slip)
    BY Zenon, <2>1 DEF IInv, SilenceCounted
  <2>3. CASE j # k
    <3>1. silence'[j] = silence[j]
      BY Zenon, <1>6, <1>1, <2>3 DEF IInv, TypeOK
    <3> QED BY Zenon, <3>1, <2>2, <2>3, <1>14, <1>16
  <2>4. CASE j = k /\ d.action # "drop"
    <3>1. silence'[k] = 0
      BY Zenon, <1>6, <1>1, <2>4 DEF IInv, TypeOK
    <3>2. d.slot.slip >= 0
      BY <1>5, <1>2 DEF SlotType
    <3> QED BY Zenon, <3>1, <3>2, <2>4, <1>15, <1>2
  <2>5. CASE j = k /\ d.action = "drop"
    <3>1. sl.key = k /\ now <= sl.timestamp
      BY <2>5, <2>1, <1>5, <1>3, <1>7, <1>2 DEF SlotType
    <3>2. d.slot.slip = sl.slip + 1
      BY Zenon, <3>1, <2>5, <1>5
    <3>3. silence[k] <= sl.slip
      BY Zenon, <3>1, <2>2, <2>5, <1>12 DEF Held, At
    <3>4. silence'[k] = silence[k] + 1
      BY Zenon, <2>2, <2>5, <1>6, <1>1 DEF IInv, TypeOK
    <3>5. d.slot.slip < SlipEvery
      BY <1>5, <1>2 DEF Sound
    <3>6. silence[k] \in Nat /\ sl.slip \in Nat
      BY <1>1, <1>2, <1>3 DEF IInv, TypeOK, SlotType
    <3> QED BY <3>2, <3>3, <3>4, <3>5, <3>6, <2>5, <1>15, <1>2
  <2> QED BY Zenon, <2>3, <2>4, <2>5
<1> QED BY Zenon, <1>8, <1>9, <1>10, <1>11 DEF IInv

(* No step leaves the invariant.                                           *)
LEMMA NextIInv == IInv /\ [Next]_vars => IInv'
<1> SUFFICES ASSUME IInv, [Next]_vars PROVE IInv'
  OBVIOUS
<1>1. CASE \E c \in Clients, n \in Names, rcode \in RCodes : Check(c, n, rcode)
  BY Zenon, <1>1, CheckIInv
<1>2. CASE CheckInvalid
  <2>1. TypeOK'
    BY Zenon, <1>2 DEF CheckInvalid, IInv, TypeOK
  <2> QED BY Zenon, <2>1, <1>2 DEF CheckInvalid, IInv, BucketBounded, TokensAccount,
                          SilenceCounted, Held, At
<1>3. CASE \E t \in 0..MaxNow : Tick(t)
  <2>1. TypeOK'
    BY Zenon, <1>3 DEF Tick, IInv, TypeOK
  <2> QED BY <2>1, <1>3 DEF Tick, IInv, BucketBounded, TokensAccount,
                          SilenceCounted, Held, At
<1>4. CASE UNCHANGED vars
  BY Zenon, <1>4 DEF vars, IInv, TypeOK, BucketBounded, TokensAccount, SilenceCounted, Held, At
<1> QED BY Zenon, <1>1, <1>2, <1>3, <1>4 DEF Next

(* The inductive invariant holds in every behaviour of the limiter.        *)
LEMMA Invariance == Spec => []IInv
  BY InitIInv, NextIInv, PTL DEF Spec

LEMMA RateFromAccount == IInv => RateBound
<1> SUFFICES ASSUME IInv, NEW k \in Streams, Held(k), Fits(Limit(k.class))
             PROVE  granted[Slot[k]].count <=
                      Limit(k.class) * (At(k).timestamp - granted[Slot[k]].since + 1)
  BY Zenon DEF RateBound
<1> DEFINE g == granted[Slot[k]]
           l == Limit(k.class)
           w == l * (At(k).timestamp - g.since)
<1>1. At(k) \in SlotType /\ g.count \in Nat /\ g.since \in Int
  BY StreamSlot DEF IInv, TypeOK, SlotType, At
<1>2. l \in Nat \ {0} /\ l \in Nat /\ Half \in Nat /\ At(k).timestamp \in Int /\ At(k).tokens \in Nat
  BY <1>1, LimitType, WidthAssumption DEF SlotType
<1>3. g.count <= At(k).tokens + w /\ At(k).tokens <= l
  BY Zenon DEF IInv, TokensAccount, BucketBounded
<1>4. l * (At(k).timestamp - g.since + 1) = w + l /\ w \in Int
  BY <1>1, <1>2, Distribute
<1> HIDE DEF w, g, l
<1>5. g.count <= w + l
  BY <1>1, <1>2, <1>3, <1>4
<1> QED BY Zenon, <1>4, <1>5 DEF g, l

(* The rate limit holds for every limit below 2^16: between two evictions  *)
(* of its slot, and as long as the clock does not go back, a stream gets   *)
(* at most limit responses for every second that began, whatever else is   *)
(* in the table.                                                           *)
THEOREM RateLimited == Spec => []RateBound
  BY Invariance, RateFromAccount, PTL

(* Slip works for every rate from 1 to 2^16 - 1 and every limit: no client *)
(* is dropped SlipRate times in a row as long as no decay wraps around.    *)
THEOREM SlipWorks == Spec => []NeverSilenced
<1>1. IInv => NeverSilenced
  BY Zenon DEF IInv, SilenceCounted, NeverSilenced
<1> QED BY Invariance, <1>1, PTL

(* A stream that stayed away into a later second is answered, whatever     *)
(* the limits and the slip rate, unless its decay wraps around.            *)
THEOREM Recovery == Spec => IdleRecovers
<1> DEFINE A == \A k \in Streams :
             (/\ now' = now /\ last'.key = k
              /\ Held(k) /\ now > At(k).timestamp
              /\ (now - At(k).timestamp) * Limit(k.class) < Word)
             => last'.action = "allow"
<1>1. IInv /\ [Next]_vars => [A]_vars
  <2> SUFFICES ASSUME IInv, Next, NEW k \in Streams, now' = now, last'.key = k, Held(k),
                      now > At(k).timestamp,
                      (now - At(k).timestamp) * Limit(k.class) < Word
               PROVE  last'.action = "allow"
    OBVIOUS
  <2>1. CASE \E c \in Clients, n \in Names, rcode \in RCodes : Check(c, n, rcode)
    <3> PICK c \in Clients, n \in Names, rcode \in RCodes : Check(c, n, rcode)
      BY Zenon, <2>1
    <3> DEFINE class == ClassifyRCode(rcode)
               h == HashKey(c, n, class)
               d == Decide(h, slots[Slot[h]], Limit(class))
    <3>1. h \in Streams /\ h.class = class
      BY Zenon, CheckedStream
    <3>2. last' = [key |-> h, action |-> d.action]
      BY Zenon DEF Check
    <3> HIDE DEF h, class
    <3>3. h = k /\ last'.action = d.action
      BY Zenon, <3>2
    <3>4. At(k) \in SlotType /\ At(k).key = k /\ At(k) = slots[Slot[k]]
      BY Zenon, StreamSlot DEF IInv, TypeOK, SlotType, Held, At
    <3>5. Sound(At(k), Limit(k.class)) /\ now \in 0..MaxNow
      BY Zenon DEF IInv, TypeOK, BucketBounded, Sound
    <3>6. Limit(k.class) \in Nat \ {0}
      BY Zenon, LimitType
    <3>7. Decide(k, At(k), Limit(k.class)).action = "allow"
      BY <3>4, <3>5, <3>6, DecideFacts
    <3> QED BY Zenon, <3>1, <3>3, <3>4, <3>7
  <2>2. CASE CheckInvalid
    BY Zenon, <2>2, StreamAssumption DEF CheckInvalid
  <2>3. CASE \E t \in 0..MaxNow : Tick(t)
    BY Zenon, <2>3 DEF Tick
  <2> QED BY Zenon, <2>1, <2>2, <2>3 DEF Next
<1> QED BY Invariance, <1>1, PTL DEF Spec, IdleRecovers
=============================================================================
