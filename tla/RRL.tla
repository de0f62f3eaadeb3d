-------------------------------- MODULE RRL --------------------------------
(***************************************************************************)
(* Response rate limiting (internal/rrl): a table of token buckets, one    *)
(* per stream of responses, that decides for every UDP response whether it *)
(* is sent, dropped, or sent as a truncated stub (slip).                   *)
(*                                                                         *)
(* A stream is a client subnet, a class of response and, for positive      *)
(* answers, the lower-case name: the code's 64-bit hash of these is taken  *)
(* to tell streams apart.  Several streams share a slot of the table and   *)
(* evict each other.  The slot's fields keep their widths: tokens and slip *)
(* counter are modulo Half (2^16 in the code), the decay is modulo Word    *)
(* (2^32).                                                                 *)
(***************************************************************************)
EXTENDS Integers, FiniteSets

CONSTANTS
  Clients, Subnet,          \* clients, [Clients -> subnets]
  Names, Lower,             \* names in any case, [Names -> lower-case names]
  Slot,                     \* [streams -> slots], where the hash puts a stream
  ResponsesPerSecond, ErrorsPerSecond, SlipRate,      \* Config
  DefaultResponsesPerSecond, DefaultErrorsPerSecond, DefaultSlipRate,
  Half, Word,               \* number of values of a uint16 and of a uint32
  MaxNow                    \* bound: the last second of a behaviour

None == "none"              \* no name, no stream, no action
Classes == {"positive", "nxdomain", "error"}
RCodes == {"NOERROR", "NXDOMAIN", "SERVFAIL", "REFUSED"}
Subnets == {Subnet[c] : c \in Clients}
Streams == [subnet : Subnets, class : Classes, name : {Lower[n] : n \in Names} \cup {None}]
Slots == {Slot[k] : k \in Streams}
NoKey == [subnet |-> None, class |-> None, name |-> None]

(* New replaces values that make no sense by the defaults.                 *)
OrDefault(v, least, default) == IF v < least THEN default ELSE v
SlipEvery == OrDefault(SlipRate, 0, DefaultSlipRate)

Limit(class) ==
  IF class = "positive"
  THEN OrDefault(ResponsesPerSecond, 1, DefaultResponsesPerSecond)
  ELSE OrDefault(ErrorsPerSecond, 1, DefaultErrorsPerSecond)

ASSUME StreamAssumption ==
  /\ Subnet \in [Clients -> Subnets] /\ Slot \in [Streams -> Slots]
  /\ NoKey \notin Streams

ASSUME WidthAssumption ==
  /\ Half \in Nat /\ Word \in Nat /\ MaxNow \in Nat /\ MaxNow < Word
  /\ DefaultResponsesPerSecond \in 1..Half-1
  /\ DefaultErrorsPerSecond \in 1..Half-1
  /\ DefaultSlipRate \in 0..Half-1

ASSUME ConfigAssumption ==
  ResponsesPerSecond \in Int /\ ErrorsPerSecond \in Int /\ SlipRate \in Int

(* A 16-bit counter can reach n.  New lets any limit and any slip rate     *)
(* through: tokens never reach a limit that does not fit, which then       *)
(* limits nothing, and slipCount never reaches such a rate.                *)
Fits(n) == n < Half

VARIABLES
  slots,     \* [Slots -> slot]
  now,       \* the wall clock, in seconds
  last,      \* the latest decision: [stream, action]
  granted,   \* history: [Slots -> [count, since]], responses allowed to the slot's
             \*   stream since a second, where its limit fits
  silence,   \* history: [Streams -> responses dropped since one was sent],
             \*   counted up to SlipEvery
  wrapped    \* history: a decay did not fit in a uint32

vars == <<slots, now, last, granted, silence, wrapped>>

FreshSlot == [key |-> NoKey, timestamp |-> 0, tokens |-> 0, slip |-> 0]

Init ==
  /\ slots = [s \in Slots |-> FreshSlot]
  /\ now = 0
  /\ last = [key |-> NoKey, action |-> None]
  /\ granted = [s \in Slots |-> [count |-> 0, since |-> 0]]
  /\ silence = [k \in Streams |-> 0]
  /\ wrapped = FALSE

ClassifyRCode(rcode) ==
  CASE rcode = "NOERROR" -> "positive"
    [] rcode = "NXDOMAIN" -> "nxdomain"
    [] OTHER -> "error"

HashKey(c, n, class) ==
  [subnet |-> Subnet[c], class |-> class,
   name |-> IF class = "positive" THEN Lower[n] ELSE None]

-----------------------------------------------------------------------------
(* A slot brought up to the present: the clock may have gone back, and     *)
(* whole seconds that have passed give tokens back.                        *)
Uint16(n) == n % Half
Decay(elapsed, limit) == (elapsed * limit) % Word

(* Mutant of Present: only a second that passed in full gives tokens back. *)
Present_FullSecond(sl, limit) ==
  IF now <= sl.timestamp + 1 THEN [sl EXCEPT !.timestamp = now]
  ELSE [sl EXCEPT !.timestamp = now, !.slip = 0, !.tokens = 0]

(* Mutant of Present: the slot keeps its old second, and decays again.     *)
Present_Forgets(sl, limit) ==
  IF now <= sl.timestamp THEN [sl EXCEPT !.timestamp = now]
  ELSE [sl EXCEPT !.slip = 0, !.tokens = 0]

Present(sl, limit) ==
  LET elapsed == now - sl.timestamp
      decay == Decay(elapsed, limit)
  IN  IF elapsed <= 0
      THEN [sl EXCEPT !.timestamp = now]
      ELSE [sl EXCEPT !.timestamp = now, !.slip = 0,
                      !.tokens = IF decay < sl.tokens THEN sl.tokens - decay ELSE 0]

(* checkAt for the stream k: the slot afterwards, and the action.          *)
Evict(k) ==
  [slot |-> [key |-> k, timestamp |-> now, tokens |-> Uint16(1), slip |-> 0],
   action |-> "allow"]

Spend(sl) == [slot |-> [sl EXCEPT !.tokens = Uint16(@ + 1)], action |-> "allow"]

(* Mutant of Refuse: the counter is compared before it is counted.         *)
Refuse_OneLater(sl, limit) ==
  IF SlipEvery = 0 THEN [slot |-> sl, action |-> "drop"]
  ELSE IF sl.slip >= SlipEvery
  THEN [slot |-> [sl EXCEPT !.slip = 0], action |-> "slip"]
  ELSE [slot |-> [sl EXCEPT !.slip = @ + 1], action |-> "drop"]

Refuse(sl, limit) ==
  LET full == [sl EXCEPT !.tokens = Uint16(limit)]
      slip == Uint16(sl.slip + 1)
  IN  IF SlipEvery = 0 THEN [slot |-> full, action |-> "drop"]
      ELSE IF slip >= SlipEvery
      THEN [slot |-> [full EXCEPT !.slip = 0], action |-> "slip"]
      ELSE [slot |-> [full EXCEPT !.slip = slip], action |-> "drop"]

Decide(k, sl, limit) ==
  LET cur == Present(sl, limit)
  IN  IF sl.key # k THEN Evict(k)
      ELSE IF cur.tokens < limit THEN Spend(cur)
      ELSE Refuse(cur, limit)

(* Limiter.Check, called for every UDP response under the slot's lock.     *)
Check(c, n, rcode) ==
  LET class == ClassifyRCode(rcode)
      k == HashKey(c, n, class)
      sl == slots[Slot[k]]
      d == Decide(k, sl, Limit(class))
      one == IF d.action = "allow" /\ Fits(Limit(class)) THEN 1 ELSE 0
  IN  /\ slots' = [slots EXCEPT ![Slot[k]] = d.slot]
      /\ last' = [key |-> k, action |-> d.action]
      /\ granted' = [granted EXCEPT ![Slot[k]] =
           IF sl.key # k \/ now < sl.timestamp
           THEN [count |-> one, since |-> now]
           ELSE [count |-> @.count + one, since |-> @.since]]
      /\ silence' = [silence EXCEPT ![k] =
           IF d.action # "drop" THEN 0 ELSE IF @ < SlipEvery THEN @ + 1 ELSE @]
      /\ wrapped' = \/ wrapped
                    \/ sl.key = k /\ (now - sl.timestamp) * Limit(class) >= Word
      /\ UNCHANGED now

(* A client whose address cannot be told is not limited.                   *)
CheckInvalid ==
  /\ last' = [key |-> NoKey, action |-> "allow"]
  /\ UNCHANGED <<slots, now, granted, silence, wrapped>>

(* The clock moves on, or is set back.                                     *)
Tick(t) ==
  /\ t # now
  /\ now' = t
  /\ UNCHANGED <<slots, last, granted, silence, wrapped>>

Next ==
  \/ \E c \in Clients, n \in Names, rcode \in RCodes : Check(c, n, rcode)
  \/ CheckInvalid
  \/ \E t \in 0..MaxNow : Tick(t)

Spec == Init /\ [][Next]_vars

-----------------------------------------------------------------------------
Held(k) == slots[Slot[k]].key = k
At(k) == slots[Slot[k]]

(* The table is well formed.                                               *)
TypeOK ==
  /\ slots \in [Slots -> [key : Streams \cup {NoKey}, timestamp : 0..MaxNow,
                         tokens : 0..Half-1, slip : 0..Half-1]]
  /\ now \in 0..MaxNow
  /\ last \in [key : Streams \cup {NoKey}, action : {None, "allow", "drop", "slip"}]
  /\ granted \in [Slots -> [count : Nat, since : 0..MaxNow]]
  /\ silence \in [Streams -> Nat]
  /\ wrapped \in BOOLEAN

(* A slot holds only streams that hash to it, its bucket never holds more  *)
(* than its stream's limit, and its slip counter stops short of SlipRate.  *)
BucketBounded ==
  \A k \in Streams : Held(k) =>
    /\ At(k).tokens <= Limit(k.class)
    /\ SlipEvery = 0 \/ At(k).slip < SlipEvery

(* The rate limit, for a limit below 2^16: as long as a stream keeps its   *)
(* slot and the clock does not go back, no more full responses are sent    *)
(* than one bucket of the limit plus the limit for every second that has   *)
(* passed.  A larger limit is none (checkAt counts tokens in a uint16).    *)
RateBound ==
  \A k \in Streams : Held(k) /\ Fits(Limit(k.class)) =>
    granted[Slot[k]].count <= Limit(k.class) * (At(k).timestamp - granted[Slot[k]].since + 1)

(* The strengthening that makes RateBound inductive: every response sent   *)
(* is a token still in the bucket or one that a past second gave back.     *)
TokensAccount ==
  \A k \in Streams : Held(k) /\ Fits(Limit(k.class)) =>
    /\ granted[Slot[k]].since <= At(k).timestamp
    /\ granted[Slot[k]].count <=
         At(k).tokens + Limit(k.class) * (At(k).timestamp - granted[Slot[k]].since)

(* Slip: with a SlipRate below 2^16, a client over its limit is never met  *)
(* by SlipRate drops in a row, across seconds, clock steps and evictions,  *)
(* as long as no decay has wrapped around.  With a larger SlipRate, which  *)
(* New accepts, slipCount wraps first and no response slips.               *)
NeverSilenced ==
  SlipEvery > 0 /\ Fits(SlipEvery) /\ ~wrapped => \A k \in Streams : silence[k] < SlipEvery

(* Recovery: a stream that comes back in a later second than its slot's is *)
(* answered, however much it was over its limit before, unless the decay   *)
(* of the time it was away does not fit in a uint32.                       *)
IdleRecovers ==
  [][\A k \in Streams :
       (/\ now' = now /\ last'.key = k
        /\ Held(k) /\ now > At(k).timestamp
        /\ (now - At(k).timestamp) * Limit(k.class) < Word)
       => last'.action = "allow"]_vars
=============================================================================
