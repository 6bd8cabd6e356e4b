-------------------------- MODULE RouteHealthProofs --------------------------
(***************************************************************************)
(* Proofs about RouteHealth, for any targets, rules, headers and order of  *)
(* candidates, any width of a Duration and any grain of time: bans keep to *)
(* their rule, and pick avoids the banned and takes the free.              *)
(*                                                                         *)
(* What joins the two halves is the longest open ban of a target           *)
(* (LongestBan) and that the text of timestamps a second apart is in the   *)
(* order of time (SecondApart).                                            *)
(***************************************************************************)
EXTENDS RouteHealth, TLAPS

\* A callback that is to be inserted has a target and a header.
QueuedTyped ==
    \A f \in Failures : failure[f].pc \in {"queued", "insert"} =>
        failure[f].target \in Targets /\ failure[f].header \in Headers

\* banned is the end of the longest ban that is open, or 0 when none is.
LongestBan ==
    /\ \A b \in bans : ~b.unbanned => b.expires \in 1 .. banned[b.target]
    /\ \A t \in Targets : banned[t] # 0 =>
         \E b \in bans : b.target = t /\ ~b.unbanned /\ b.expires = banned[t]

\* The open bans of a target that is free for a pick were over for a second
\* when the pick began.
FreeLongOver ==
    \A p \in Pickers, b \in bans :
        picker[p].pc = "check" /\ b.target \in picker[p].free /\ ~b.unbanned
            => b.expires + PerSecond <= picker[p].now

HInv ==
    /\ TypeOK /\ QueuedTyped
    /\ BanBounded /\ LongestBan
    /\ FreeLongOver /\ PickTakesFree

-----------------------------------------------------------------------------
(* Arithmetic.                                                             *)

LEMMA MaxOfTwo ==
    ASSUME NEW a \in Int, NEW b \in Int
    PROVE  Max({a, b}) \in {a, b} /\ Max({a, b}) >= a /\ Max({a, b}) >= b
<1>1. \E x \in {a, b} : \A y \in {a, b} : x >= y
  <2>1. a >= b \/ b >= a
    OBVIOUS
  <2> QED
    BY <2>1
<1> QED
  BY <1>1 DEF Max

LEMMA MinOfTwo ==
    ASSUME NEW a \in Int, NEW b \in Int
    PROVE  Min({a, b}) \in {a, b} /\ Min({a, b}) <= a /\ Min({a, b}) <= b
<1>1. \E x \in {a, b} : \A y \in {a, b} : x <= y
  <2>1. a <= b \/ b <= a
    OBVIOUS
  <2> QED
    BY <2>1
<1> QED
  BY <1>1 DEF Min

\* Division by the ticks of a second, in terms of multiplication.
LEMMA Seconds ==
    ASSUME NEW P \in Nat \ {0}, NEW t \in Nat
    PROVE  /\ t \div P \in Nat /\ t % P \in 0 .. P - 1
           /\ t = P * (t \div P) + (t % P)
OBVIOUS

LEMMA RankTyped ==
    ASSUME NEW t \in Nat
    PROVE  TextRank(t) \in Int
<1> PerSecond \in Nat \ {0}
  BY RouteHealthAssumption
<1>1. t \div PerSecond \in Nat /\ t % PerSecond \in 0 .. PerSecond - 1
  BY Seconds
<1>2. (t \div PerSecond) * (PerSecond + 1) \in Int
  BY <1>1
<1> QED
  BY <1>1, <1>2 DEF TextRank

\* A second later is later as text.
LEMMA SecondApart ==
    ASSUME NEW a \in Nat, NEW b \in Nat, a + PerSecond <= b
    PROVE  TextRank(a) < TextRank(b)
<1> DEFINE P == PerSecond
           q == a \div P
           r == b \div P
<1>0. P \in Nat /\ P > 0
  BY RouteHealthAssumption
<1>1. /\ q \in Nat /\ a % P \in 0 .. P - 1 /\ a = P * q + (a % P)
      /\ r \in Nat /\ b % P \in 0 .. P - 1 /\ b = P * r + (b % P)
  BY <1>0, Seconds
<1> DEFINE ra == IF a % P = 0 THEN P ELSE a % P
           rb == IF b % P = 0 THEN P ELSE b % P
<1>2. ra \in 1 .. P /\ rb \in 1 .. P
  BY <1>0, <1>1
<1>3. TextRank(a) = q * (P + 1) + ra /\ TextRank(b) = r * (P + 1) + rb
  BY DEF TextRank
<1> HIDE DEF P, q, r, ra, rb
<1>4. P * q + P < P * r + P
  BY <1>0, <1>1 DEF P
<1>5. q < r
  <2>1. ASSUME r <= q
        PROVE  FALSE
    <3>1. P * r <= P * q
      BY <1>0, <1>1, <2>1
    <3>2. P * r \in Int /\ P * q \in Int
      BY <1>0, <1>1
    <3> QED
      BY <1>0, <1>4, <3>1, <3>2
  <2> QED
    BY <1>1, <2>1
<1>6. (q + 1) * (P + 1) <= r * (P + 1)
  BY <1>0, <1>1, <1>5
<1>7. q * (P + 1) + (P + 1) <= r * (P + 1)
  BY <1>0, <1>1, <1>6
<1> QED
  BY <1>0, <1>1, <1>2, <1>3, <1>7

-----------------------------------------------------------------------------
(* Durations.                                                              *)

LEMMA CodexTyped ==
    ASSUME NEW h \in Header, NEW now \in Nat
    PROVE  CodexResetDuration(h, now) \in Int
<1> Null \notin Int
  BY RouteHealthAssumption
<1> DEFINE S == CodexResets(h)
<1>1. S \subseteq {h.primary, h.secondary} \ {Null} /\ S \subseteq Int
  BY DEF CodexResets, Header
<1>2. CASE S = {}
  BY <1>2 DEF CodexResetDuration
<1>3. CASE S # {}
  <2>1. PICK a \in S, b \in S : S = {a, b}
    <3>1. \/ S = {h.primary} \/ S = {h.secondary} \/ S = {h.primary, h.secondary}
      BY <1>1, <1>3
    <3> QED
      BY <3>1
  <2>2. Max(S) \in Int
    <3>1. a \in Int /\ b \in Int
      BY <1>1
    <3>2. Max({a, b}) \in {a, b}
      BY <3>1, MaxOfTwo
    <3> QED
      BY <2>1, <3>1, <3>2
  <2> QED
    BY <2>2 DEF CodexResetDuration
<1> QED
  BY <1>2, <1>3

LEMMA RetryAfterTyped ==
    ASSUME NEW seconds \in Int
    PROVE  RetryAfterDuration(seconds) \in Int
<1> DEFINE n == seconds * PerSecond + DurationMax
           m == 2 * DurationMax
<1> PerSecond \in Nat /\ DurationMax \in Nat \ {0}
  BY RouteHealthAssumption
<1>1. seconds * PerSecond \in Int
  OBVIOUS
<1>2. n \in Int /\ m \in Nat /\ m > 0
  BY <1>1
<1> HIDE DEF n, m
<1>3. n % m \in Int
  BY <1>2
<1> QED
  BY <1>3 DEF RetryAfterDuration, n, m

LEMMA RequestedTyped ==
    ASSUME NEW rule \in Rule, NEW h \in Header, NEW now \in Nat, clock \in Nat
    PROVE  Requested(rule, h, now) \in Int
<1>1. /\ h.retryAfter \in Int \cup {Null} /\ h.retryAt \in Nat \cup {Null}
      /\ rule.fallback \in Nat
  BY DEF Header, Rule
<1>2. CodexResetDuration(h, now) \in Int
  BY CodexTyped
<1>3. CASE rule.strategy = "codex_reset_headers"
  BY <1>2, <1>3 DEF Requested
<1>4. CASE rule.strategy = "retry_after_header"
  <2>1. RetryAfter(h) \in Int
    BY <1>1, RetryAfterTyped DEF RetryAfter
  <2> QED
    BY <1>4, <2>1 DEF Requested
<1>5. CASE rule.strategy = "fixed"
  BY <1>1, <1>5 DEF Requested
<1> QED
  BY <1>3, <1>4, <1>5 DEF Rule

\* What the minimum and the maximum of a rule do, in this order.
LEMMA ClampBounds ==
    ASSUME NEW rule \in Rule, NEW d \in Int
    PROVE  /\ Clamp(rule, d) \in Int
           /\ rule.max > 0 => Clamp(rule, d) <= rule.max
           /\ rule.min > 0 /\ (rule.max = 0 \/ rule.min <= rule.max)
                => Clamp(rule, d) >= rule.min
<1> DEFINE raised == IF rule.min > 0 THEN Max({d, rule.min}) ELSE d
<1>1. rule.min \in Nat /\ rule.max \in Nat
  BY DEF Rule
<1>2. raised \in Int /\ (rule.min > 0 => raised >= rule.min)
  <2>1. /\ Max({d, rule.min}) \in {d, rule.min}
        /\ Max({d, rule.min}) >= rule.min
    BY <1>1, MaxOfTwo
  <2> QED
    BY <1>1, <2>1
<1> HIDE DEF raised
<1>3. Clamp(rule, d) = IF rule.max > 0 THEN Min({raised, rule.max}) ELSE raised
  BY DEF Clamp, raised
<1>4. /\ Min({raised, rule.max}) \in {raised, rule.max}
      /\ Min({raised, rule.max}) <= rule.max
  <2>1. raised \in Int /\ rule.max \in Int
    BY <1>1, <1>2
  <2> QED
    BY <2>1, MinOfTwo
<1> QED
  BY <1>1, <1>2, <1>3, <1>4

LEMMA DurationBounds ==
    ASSUME NEW rule \in Rule, NEW h \in Header, NEW now \in Nat, clock \in Nat
    PROVE  LET d == DurationForRule(rule, h, now)
           IN  /\ d \in Int
               /\ rule.max > 0 => d <= rule.max
               /\ rule.min > 0 /\ (rule.max = 0 \/ rule.min <= rule.max) => d >= rule.min
<1> DEFINE e == IF Requested(rule, h, now) > 0 THEN Requested(rule, h, now)
                ELSE rule.fallback
<1>1. e \in Int
  BY RequestedTyped DEF Rule
<1>2. DurationForRule(rule, h, now) = Clamp(rule, e)
  BY DEF DurationForRule
<1> HIDE DEF e
<1> QED
  BY <1>1, <1>2, ClampBounds

-----------------------------------------------------------------------------
(* The callbacks.                                                          *)

LEMMA AddBanStep ==
    ASSUME HInv, NEW f \in Failures, AddBan(f)
    PROVE  HInv'
<1> TypeOK /\ QueuedTyped /\ BanBounded /\ LongestBan /\ FreeLongOver /\ PickTakesFree
  BY DEF HInv
<1> DEFINE x == failure[f]
           t == x.target
           banning == Banning(t, x.header, x.now)
           D(i) == DurationForRule(Rules[i], x.header, x.now)
           row(i) == [target |-> t, at |-> x.now, expires |-> x.now + D(i),
                      unbanned |-> FALSE]
<1>1. PICK first \in banning :
        /\ bans' = bans \cup {row(first)}
        /\ banned' = [banned EXCEPT ![t] = Max({@, x.now + D(first)})]
  BY DEF AddBan
<1>2. /\ picker' = [p \in Pickers |-> [picker[p] EXCEPT !.free = @ \ {t}]]
      /\ failure' = [failure EXCEPT ![f] = Finished]
      /\ clock' = clock /\ x.pc = "insert"
  BY DEF AddBan
<1>3. t \in Targets /\ x.header \in Header /\ x.now \in Nat
  BY <1>2, RouteHealthAssumption DEF QueuedTyped, TypeOK, Failure
<1>4. first \in DOMAIN Rules /\ t \in Rules[first].matches /\ D(first) > 0
  BY <1>1 DEF Banning
<1>5. Rules[first] \in Rule
  BY <1>4, RouteHealthAssumption
<1> DEFINE d == D(first)
           end == x.now + d
           new == row(first)
<1>6. /\ d \in Int /\ d > 0
      /\ Rules[first].max > 0 => d <= Rules[first].max
      /\ Rules[first].min > 0
           /\ (Rules[first].max = 0 \/ Rules[first].min <= Rules[first].max)
              => d >= Rules[first].min
      /\ Rules[first].min \in Nat /\ Rules[first].max \in Nat
  <2>1. clock \in Nat
    BY DEF TypeOK
  <2> QED
    BY <1>3, <1>4, <1>5, <2>1, DurationBounds DEF Rule
<1> HIDE DEF D, x, banning
<1>7. end \in Nat /\ end >= 1 /\ end > x.now
  BY <1>3, <1>6
<1>8. /\ new.target = t /\ new.at = x.now /\ new.expires = end /\ new.unbanned = FALSE
      /\ new \in Ban
  BY <1>3, <1>7 DEF Ban
<1> HIDE DEF d, end, new
<1>9. bans' = bans \cup {new}
  BY <1>1 DEF new, d, end
<1>10. banned[t] \in Nat
  BY <1>3 DEF TypeOK
<1>11. /\ banned'[t] \in {banned[t], end}
       /\ banned'[t] >= banned[t] /\ banned'[t] >= end
       /\ \A u \in Targets : u # t => banned'[u] = banned[u]
       /\ banned' \in [Targets -> Nat]
  <2>1. banned' = [banned EXCEPT ![t] = Max({banned[t], end})]
    BY <1>1 DEF d, end
  <2>2. Max({banned[t], end}) \in {banned[t], end} /\ Max({banned[t], end}) >= banned[t]
          /\ Max({banned[t], end}) >= end
    <3>1. banned[t] \in Int /\ end \in Int
      BY <1>7, <1>10
    <3> QED
      BY <3>1, MaxOfTwo
  <2> QED
    BY <1>3, <1>7, <1>10, <2>1, <2>2 DEF TypeOK
<1>12. /\ picker' \in [Pickers -> Picker]
       /\ \A p \in Pickers :
            /\ picker'[p].free = picker[p].free \ {t}
            /\ picker'[p].pc = picker[p].pc /\ picker'[p].next = picker[p].next
            /\ picker'[p].now = picker[p].now /\ picker'[p].usable = picker[p].usable
  <2>1. ASSUME NEW p \in Pickers
        PROVE  LET y == [picker[p] EXCEPT !.free = @ \ {t}]
               IN  /\ y \in Picker
                   /\ y.free = picker[p].free \ {t}
                   /\ y.pc = picker[p].pc /\ y.next = picker[p].next
                   /\ y.now = picker[p].now /\ y.usable = picker[p].usable
    <3>1. picker[p] \in Picker
      BY DEF TypeOK
    <3> QED
      BY <3>1 DEF Picker
  <2> QED
    BY <1>2, <2>1
<1>13. TypeOK'
  BY <1>2, <1>8, <1>9, <1>11, <1>12 DEF TypeOK, Finished, Failure
<1>14. QueuedTyped'
  BY <1>2 DEF QueuedTyped, TypeOK, Finished
<1>15. BanBounded'
  <2>1. /\ Rules[first].max > 0 => end <= x.now + Rules[first].max
        /\ Rules[first].max = 0 \/ Rules[first].min <= Rules[first].max
             => end >= x.now + Rules[first].min
    BY <1>3, <1>6 DEF end
  <2> QED
    BY <1>4, <1>8, <1>9, <2>1 DEF BanBounded
<1>16. LongestBan'
  <2>1. ASSUME NEW b \in bans', ~b.unbanned
        PROVE  b.expires \in 1 .. banned'[b.target]
    <3>1. CASE b = new
      BY <1>7, <1>8, <1>10, <1>11, <3>1
    <3>2. CASE b \in bans
      <4>1. b.expires \in 1 .. banned[b.target] /\ b.target \in Targets
        BY <2>1, <3>2 DEF LongestBan, TypeOK, Ban
      <4>2. banned'[b.target] \in Nat /\ banned[b.target] \in Nat
              /\ banned'[b.target] >= banned[b.target]
        BY <1>11, <4>1 DEF TypeOK
      <4> QED
        BY <4>1, <4>2
    <3> QED
      BY <1>9, <3>1, <3>2
  <2>2. ASSUME NEW u \in Targets, banned'[u] # 0
        PROVE  \E b \in bans' : b.target = u /\ ~b.unbanned /\ b.expires = banned'[u]
    <3>1. CASE u = t /\ banned'[t] = end
      BY <1>8, <1>9, <3>1
    <3>2. CASE banned'[u] = banned[u]
      BY <1>9, <2>2, <3>2 DEF LongestBan
    <3> QED
      BY <1>11, <3>1, <3>2
  <2> QED
    BY <2>1, <2>2 DEF LongestBan
<1>17. FreeLongOver'
  BY <1>8, <1>9, <1>12 DEF FreeLongOver
<1>18. PickTakesFree'
  BY <1>12 DEF PickTakesFree
<1> QED
  BY <1>13, <1>14, <1>15, <1>16, <1>17, <1>18 DEF HInv

\* The other steps of a callback leave the table and the picks alone.
LEMMA CallbackStep ==
    ASSUME HInv, NEW f \in Failures, Fail(f) \/ Deliver(f) \/ NoBan(f)
    PROVE  HInv'
<1> TypeOK /\ QueuedTyped
  BY DEF HInv
<1>1. UNCHANGED <<clock, bans, picker, banned>>
  BY DEF Fail, Deliver, NoBan
<1>2. failure' \in [Failures -> Failure] /\ QueuedTyped'
  <2>1. CASE Fail(f)
    <3>1. PICK t \in Targets, h \in Headers : failure' = [failure EXCEPT ![f] =
             [pc |-> "queued", target |-> t, header |-> h, now |-> 0]]
      BY <2>1 DEF Fail
    <3> QED
      BY <3>1 DEF TypeOK, Failure, QueuedTyped
  <2>2. CASE Deliver(f)
    <3> DEFINE y == [failure[f] EXCEPT !.pc = "insert", !.now = clock]
    <3>1. failure[f].pc = "queued" /\ failure[f] \in Failure /\ clock \in Nat
      BY <2>2 DEF Deliver, TypeOK
    <3>2. y \in Failure /\ y.target = failure[f].target /\ y.header = failure[f].header
      BY <3>1 DEF Failure
    <3>3. failure' = [failure EXCEPT ![f] = y]
      BY <2>2 DEF Deliver
    <3> HIDE DEF y
    <3> QED
      BY <3>1, <3>2, <3>3 DEF TypeOK, QueuedTyped
  <2>3. CASE NoBan(f)
    BY <2>3 DEF NoBan, TypeOK, Failure, Finished, QueuedTyped
  <2> QED
    BY <2>1, <2>2, <2>3
<1> QED
  BY <1>1, <1>2 DEF HInv, TypeOK, BanBounded, LongestBan, FreeLongOver, PickTakesFree

LEMMA UnbanStep ==
    ASSUME HInv, NEW t \in Targets, Unban(t)
    PROVE  HInv'
<1> TypeOK /\ QueuedTyped /\ BanBounded /\ LongestBan /\ FreeLongOver /\ PickTakesFree
  BY DEF HInv
<1>1. UNCHANGED <<clock, failure, picker>>
  BY DEF Unban
\* Where the rows after the step come from.
<1>2. ASSUME NEW c \in bans'
      PROVE  \E b \in bans :
               /\ c \in Ban /\ c.target = b.target /\ c.at = b.at /\ c.expires = b.expires
               /\ ~c.unbanned => c = b /\ c.target # t
  <2>1. PICK b \in bans : c = IF b.target = t THEN [b EXCEPT !.unbanned = TRUE] ELSE b
    BY DEF Unban
  <2>2. b \in Ban
    BY DEF TypeOK
  <2> QED
    BY <2>1, <2>2 DEF Ban
<1>3. banned' = [banned EXCEPT ![t] = 0]
  BY DEF Unban
<1>4. TypeOK'
  BY <1>1, <1>2, <1>3 DEF TypeOK
<1>5. BanBounded'
  BY <1>2 DEF BanBounded
<1>6. LongestBan'
  <2>1. ASSUME NEW c \in bans', ~c.unbanned
        PROVE  c.expires \in 1 .. banned'[c.target]
    <3>1. c \in bans /\ c.target # t /\ c.target \in Targets
      BY <1>2, <2>1 DEF Ban
    <3> QED
      BY <1>3, <2>1, <3>1 DEF LongestBan, TypeOK
  <2>2. ASSUME NEW u \in Targets, banned'[u] # 0
        PROVE  \E b \in bans' : b.target = u /\ ~b.unbanned /\ b.expires = banned'[u]
    <3>1. u # t /\ banned'[u] = banned[u]
      BY <1>3, <2>2 DEF TypeOK
    <3>2. PICK b \in bans : b.target = u /\ ~b.unbanned /\ b.expires = banned[u]
      BY <2>2, <3>1 DEF LongestBan
    <3>3. b \in bans'
      BY <3>1, <3>2 DEF Unban
    <3> QED
      BY <3>1, <3>2, <3>3
  <2> QED
    BY <2>1, <2>2 DEF LongestBan
<1>7. FreeLongOver'
  BY <1>1, <1>2 DEF FreeLongOver
<1> QED
  BY <1>1, <1>4, <1>5, <1>6, <1>7 DEF HInv, QueuedTyped, PickTakesFree

-----------------------------------------------------------------------------
(* The picks.                                                              *)

\* One pick changes, the others and the table stay.
LEMMA PickChanges ==
    ASSUME HInv, NEW p \in Pickers, NEW y \in Picker,
           picker' = [picker EXCEPT ![p] = y],
           UNCHANGED <<clock, bans, failure, banned>>,
           y.pc = "check" => \A b \in bans : b.target \in y.free /\ ~b.unbanned
                                => b.expires + PerSecond <= y.now,
           \A i \in 1 .. y.next - 1 : Order[i] \notin y.usable \cap y.free
    PROVE  HInv'
<1> TypeOK /\ FreeLongOver /\ PickTakesFree
  BY DEF HInv
<1>1. \A q \in Pickers : picker'[q] = IF q = p THEN y ELSE picker[q]
  BY DEF TypeOK
<1>2. picker' \in [Pickers -> Picker]
  BY DEF TypeOK
<1>3. FreeLongOver'
  BY <1>1 DEF FreeLongOver
<1>4. PickTakesFree'
  BY <1>1 DEF PickTakesFree
<1> QED
  BY <1>2, <1>3, <1>4 DEF HInv, TypeOK, QueuedTyped, BanBounded, LongestBan

LEMMA NoPickTyped ==
    ASSUME NEW result \in Targets \cup {Null}
    PROVE  LET y == [NoPick EXCEPT !.result = result]
           IN  /\ y \in Picker /\ y.pc = "idle" /\ y.next = 1 /\ y.result = result
               /\ NoPick \in Picker /\ NoPick.pc = "idle" /\ NoPick.next = 1
               /\ NoPick.result = Null
<1> Len(Order) \in Nat
  BY RouteHealthAssumption
<1> 1 \in 1 .. Len(Order) + 1
  OBVIOUS
<1> QED
  BY DEF NoPick, Picker

LEMMA Candidates ==
    ASSUME TypeOK, NEW p \in Pickers, picker[p].next <= Len(Order)
    PROVE  Order[picker[p].next] \in Targets
<1>1. picker[p].next \in 1 .. Len(Order) + 1 /\ Len(Order) \in Nat
  BY RouteHealthAssumption DEF TypeOK, Picker
<1>2. picker[p].next \in 1 .. Len(Order)
  BY <1>1
<1> QED
  BY <1>2, RouteHealthAssumption

LEMMA PickStep ==
    ASSUME HInv, NEW p \in Pickers,
           PickBegin(p) \/ PickSkip(p) \/ PickTake(p) \/ PickNone(p) \/ PickFails(p)
    PROVE  HInv'
<1> TypeOK /\ LongestBan /\ FreeLongOver /\ PickTakesFree
  BY DEF HInv
<1> PerSecond \in Nat /\ Len(Order) \in Nat
  BY RouteHealthAssumption
<1>1. CASE PickBegin(p)
  <2>1. PICK usable \in SUBSET Targets : picker' = [picker EXCEPT ![p] =
             [pc |-> "check", usable |-> usable, next |-> 1, now |-> clock,
              free |-> LongFree, result |-> Null]]
    BY <1>1 DEF PickBegin
  <2> DEFINE y == [pc |-> "check", usable |-> usable, next |-> 1, now |-> clock,
                   free |-> LongFree, result |-> Null]
  <2>2. y \in Picker
    <3>1. 1 \in 1 .. Len(Order) + 1 /\ LongFree \subseteq Targets /\ clock \in Nat
      BY DEF LongFree, TypeOK
    <3> QED
      BY <3>1 DEF Picker
  <2>3. ASSUME NEW b \in bans, b.target \in LongFree, ~b.unbanned
        PROVE  b.expires + PerSecond <= clock
    <3>1. b.expires \in 1 .. banned[b.target] /\ b.target \in Targets
      BY <2>3 DEF LongestBan, LongFree
    <3>2. banned[b.target] \in Nat /\ clock \in Nat
      BY <3>1 DEF TypeOK
    <3>3. banned[b.target] = 0 \/ banned[b.target] + PerSecond <= clock
      BY <2>3 DEF LongFree
    <3> QED
      BY <3>1, <3>2, <3>3
  <2>4. y.free = LongFree /\ y.now = clock /\ y.next = 1
    OBVIOUS
  <2>5. picker' = [picker EXCEPT ![p] = y] /\ UNCHANGED <<clock, bans, failure, banned>>
    BY <1>1, <2>1 DEF PickBegin
  <2> HIDE DEF y
  <2>6. \A i \in 1 .. y.next - 1 : Order[i] \notin y.usable \cap y.free
    BY <2>4
  <2>7. \A b \in bans : b.target \in y.free /\ ~b.unbanned
                          => b.expires + PerSecond <= y.now
    BY <2>3, <2>4
  <2> QED
    BY <2>2, <2>5, <2>6, <2>7, PickChanges
<1>2. CASE PickSkip(p)
  <2> DEFINE x == picker[p]
             t == Order[x.next]
             y == [x EXCEPT !.next = x.next + 1]
  <2>1. x.pc = "check" /\ x.next <= Len(Order) /\ Skips(p)
    BY <1>2 DEF PickSkip
  <2>2. x \in Picker /\ x.next \in 1 .. Len(Order) + 1 /\ x.now \in Nat
    BY DEF TypeOK, Picker
  <2>3. x.next + 1 \in 1 .. Len(Order) + 1
    BY <2>1, <2>2
  <2>4. /\ y \in Picker /\ y.next = x.next + 1 /\ y.pc = x.pc
        /\ y.free = x.free /\ y.usable = x.usable /\ y.now = x.now
    BY <2>2, <2>3 DEF Picker
  <2>5. t \notin x.usable \cap x.free
    <3> SUFFICES ASSUME t \in x.usable, t \in x.free
                 PROVE  FALSE
      OBVIOUS
    <3>1. PICK b \in bans : b.target = t /\ ~b.unbanned /\ TextAfter(b.expires, x.now)
      BY <2>1 DEF Skips, ActiveBan
    <3>2. b.expires + PerSecond <= x.now /\ b.expires \in Nat
      BY <2>1, <3>1 DEF FreeLongOver, TypeOK, Ban
    <3>3. TextRank(b.expires) < TextRank(x.now)
      BY <2>2, <3>2, SecondApart
    <3>4. TextRank(b.expires) \in Int /\ TextRank(x.now) \in Int
      BY <2>2, <3>2, RankTyped
    <3> QED
      BY <3>1, <3>3, <3>4 DEF TextAfter
  <2>6. ASSUME NEW i \in 1 .. y.next - 1
        PROVE  Order[i] \notin y.usable \cap y.free
    <3>1. i \in 1 .. x.next - 1 \/ i = x.next
      BY <2>2, <2>4
    <3>2. ASSUME i \in 1 .. x.next - 1
          PROVE  Order[i] \notin x.usable \cap x.free
      BY <3>2 DEF PickTakesFree
    <3> QED
      BY <2>4, <2>5, <3>1, <3>2
  <2>7. picker' = [picker EXCEPT ![p] = y] /\ UNCHANGED <<clock, bans, failure, banned>>
    BY <1>2 DEF PickSkip
  <2>8. \A b \in bans : b.target \in y.free /\ ~b.unbanned
                          => b.expires + PerSecond <= y.now
    BY <2>1, <2>4 DEF FreeLongOver
  <2> HIDE DEF y
  <2> QED
    BY <2>4, <2>6, <2>7, <2>8, PickChanges
<1>3. ASSUME NEW y \in Picker, y.pc = "idle", y.next = 1,
             picker' = [picker EXCEPT ![p] = y], UNCHANGED <<clock, bans, failure, banned>>
      PROVE  HInv'
  <2>1. \A i \in 1 .. y.next - 1 : Order[i] \notin y.usable \cap y.free
    BY <1>3
  <2> QED
    BY <1>3, <2>1, PickChanges
<1>4. CASE PickTake(p)
  <2>1. Order[picker[p].next] \in Targets
    BY <1>4, Candidates DEF PickTake
  <2> QED
    BY <1>3, <1>4, <2>1, NoPickTyped DEF PickTake
<1>5. CASE PickNone(p) \/ PickFails(p)
  BY <1>3, <1>5, NoPickTyped DEF PickNone, PickFails
<1> QED
  BY <1>1, <1>2, <1>4, <1>5

-----------------------------------------------------------------------------
(* The theorems.                                                           *)

LEMMA InitHInv ==
    ASSUME Init
    PROVE  HInv
<1>1. NoPick \in Picker /\ NoPick.pc = "idle" /\ NoPick.next = 1
  BY NoPickTyped
<1>2. TypeOK
  BY <1>1 DEF Init, TypeOK, Failure
<1>3. PickTakesFree
  BY <1>1 DEF Init, PickTakesFree
<1> QED
  BY <1>1, <1>2, <1>3
     DEF Init, HInv, QueuedTyped, BanBounded, LongestBan, FreeLongOver

LEMMA NextHInv ==
    ASSUME HInv, [Next]_vars
    PROVE  HInv'
<1>1. CASE Tick
  BY <1>1 DEF Tick, HInv, TypeOK, QueuedTyped, BanBounded, LongestBan, FreeLongOver,
              PickTakesFree
<1>2. CASE UNCHANGED vars
  BY <1>2 DEF vars, HInv, TypeOK, QueuedTyped, BanBounded, LongestBan, FreeLongOver,
              PickTakesFree
<1> QED
  BY <1>1, <1>2, AddBanStep, CallbackStep, UnbanStep, PickStep DEF Next

\* Every table, callback and pick stays within its type, bans keep to a rule,
\* and what is free for a pick has been free for a second.
THEOREM HealthInvariant == Spec => []HInv
<1>1. Init => HInv
  BY InitHInv
<1>2. HInv /\ [Next]_vars => HInv'
  BY NextHInv
<1> QED
  BY <1>1, <1>2, PTL DEF Spec

\* The types (TypeOK).
THEOREM TypeCorrect == Spec => []TypeOK
<1>1. HInv => TypeOK
  BY DEF HInv
<1> QED
  BY <1>1, HealthInvariant, PTL

\* Every ban keeps to the minimum and the maximum of a rule that matches its
\* target (BanBounded).
THEOREM BansBounded == Spec => []BanBounded
<1>1. HInv => BanBounded
  BY DEF HInv
<1> QED
  BY <1>1, HealthInvariant, PTL

\* A pick passes over no usable target that is free (PickTakesFree).
THEOREM FreeTargetsTaken == Spec => []PickTakesFree
<1>1. HInv => PickTakesFree
  BY DEF HInv
<1> QED
  BY <1>1, HealthInvariant, PTL

LEMMA TookNoBanned ==
    ASSUME HInv, Next, NEW p \in Pickers, NEW t \in Targets, Took(p, t)
    PROVE  banned[t] < picker[p].now + PerSecond
<1> TypeOK /\ LongestBan
  BY DEF HInv
<1> PerSecond \in Nat /\ Null \notin Targets
  BY RouteHealthAssumption
<1>1. PickTake(p)
  <2>1. picker'[p].pc # picker[p].pc /\ picker'[p].result \in Targets
          /\ picker[p].pc = "check"
    BY DEF Took
  <2>2. ASSUME NEW f \in Failures, AddBan(f)
        PROVE  FALSE
    <3>1. picker'[p] = [picker[p] EXCEPT !.free = @ \ {failure[f].target}]
      BY <2>2 DEF AddBan
    <3>2. picker[p] \in Picker
      BY DEF TypeOK
    <3>3. picker'[p].pc = picker[p].pc
      BY <3>1, <3>2 DEF Picker
    <3> QED
      BY <2>1, <3>3
  <2>3. ASSUME NEW q \in Pickers,
               PickBegin(q) \/ PickSkip(q) \/ PickTake(q) \/ PickNone(q) \/ PickFails(q)
        PROVE  PickTake(p)
    <3>1. q = p
      BY <2>1, <2>3 DEF PickBegin, PickSkip, PickTake, PickNone, PickFails, TypeOK
    <3>2. CASE PickBegin(p)
      BY <2>1, <3>2 DEF PickBegin
    <3>3. CASE PickSkip(p)
      <4>1. picker[p] \in Picker
        BY DEF TypeOK
      <4>2. picker'[p].pc = picker[p].pc
        BY <3>3, <4>1 DEF PickSkip, TypeOK, Picker
      <4> QED
        BY <2>1, <4>2
    <3>4. CASE PickNone(p) \/ PickFails(p)
      <4>1. picker'[p] = NoPick
        BY <3>4 DEF PickNone, PickFails, TypeOK
      <4> QED
        BY <2>1, <4>1, NoPickTyped
    <3> QED
      BY <2>3, <3>1, <3>2, <3>3, <3>4
  <2> QED
    BY <2>1, <2>2, <2>3 DEF Next, Tick, Fail, Deliver, NoBan, Unban
<1>2. Order[picker[p].next] \in Targets
  BY <1>1, Candidates DEF PickTake
<1>3. t = Order[picker[p].next]
  <2>1. picker'[p] = [NoPick EXCEPT !.result = Order[picker[p].next]]
    BY <1>1 DEF PickTake, TypeOK
  <2> QED
    BY <1>2, <2>1, NoPickTyped DEF Took
<1>4. ~ActiveBan(t, picker[p].now)
  BY <1>1, <1>3 DEF PickTake, Skips
<1>5. banned[t] \in Nat /\ picker[p].now \in Nat
  BY DEF TypeOK, Picker
<1> SUFFICES ASSUME picker[p].now + PerSecond <= banned[t]
             PROVE  FALSE
  BY <1>5
<1>6. PICK b \in bans : b.target = t /\ ~b.unbanned /\ b.expires = banned[t]
  <2>1. PerSecond > 0
    BY RouteHealthAssumption
  <2>2. banned[t] # 0
    BY <1>5, <2>1
  <2> QED
    BY <2>2 DEF LongestBan
<1>7. TextRank(picker[p].now) < TextRank(b.expires)
  BY <1>5, <1>6, SecondApart
<1>8. TextRank(picker[p].now) \in Int /\ TextRank(b.expires) \in Int
  BY <1>5, <1>6, RankTyped
<1> QED
  BY <1>4, <1>6, <1>7, <1>8 DEF ActiveBan, TextAfter

\* A pick never takes a target whose ban has a second or more to run
\* (PickAvoidsBans).
THEOREM BannedTargetsAvoided == Spec => PickAvoidsBans
<1>1. HInv /\ [Next]_vars =>
        [\A p \in Pickers, t \in Targets :
           Took(p, t) => banned[t] < picker[p].now + PerSecond]_vars
  BY TookNoBanned
<1> QED
  BY <1>1, HealthInvariant, PTL DEF Spec, PickAvoidsBans

=============================================================================
