-------------------------- MODULE AgentSinkProofs ---------------------------
(***************************************************************************)
(* Theorems about delivery from the agent, for any set of events and any   *)
(* number of faults and crashes.                                           *)
(*                                                                         *)
(* No spooled event is lost: a drain accounts for every line it has read   *)
(* (DrainOK), the line being appended is not spooled yet and is the last   *)
(* one (AppendOK), and no line is appended to an open one before a file    *)
(* operation has failed (TailOK).  No event is repeated undisturbed: it is *)
(* in one place at a time, with the collector or still to be sent          *)
(* (OnePlace, PendingOK).                                                  *)
(***************************************************************************)
EXTENDS AgentSink, TLAPS

Draining == pc \in {"drain", "swap"}

(* Without a spool there is no file; outside a drain nothing of one is     *)
(* left.                                                                   *)
ModeOK ==
  /\ mode # "spool" => file = << >> /\ pc \notin {"drain", "swap", "append", "newline"}
  /\ ~Draining => rest = << >> /\ kept = << >>
  /\ pc = "swap" => rest = << >>

(* An open line is behind the agent once it observes, or a fault is.       *)
TailOK ==
  /\ tail /\ pc \in {"run", "post", "append"} => faults > 0
  /\ glued \/ halted => faults > 0

(* An event is observed once, and spooled once it has been appended.       *)
AppendOK ==
  /\ spooled \intersect fresh = {}
  /\ current \notin fresh \union spooled
  /\ pc = "newline" => /\ file # << >> /\ tail
                       /\ ~glued => Last(file) = current

(* A drain accounts for every event of the file.                           *)
DrainOK ==
  Draining /\ ~halted =>
    \A e \in Event \intersect Range(file) :
      stored[e] > 0 \/ e \in Range(rest) \union Range(kept)

(* What was spooled is safe.                                               *)
SafeOK == ~glued /\ ~halted => \A e \in spooled : Safe(e)

Undisturbed == crashes = 0 /\ faults = 0

(* Undisturbed, an event is in one place.                                  *)
OnePlace ==
  Undisturbed =>
    /\ IsInjective(file) /\ IsInjective(rest) /\ IsInjective(kept)
    /\ Range(rest) \union Range(kept) \subseteq Range(file)
    /\ Range(rest) \intersect Range(kept) = {}
    /\ fresh \intersect Range(file) = {}
    /\ pc \in {"post", "append"} => current \notin Range(file)

(* The events that will be sent again.                                     *)
Pending ==
  fresh \union {current} \union
  IF Draining THEN Range(rest) \union Range(kept) ELSE Range(file)

(* Undisturbed, they are not with the collector.                           *)
PendingOK ==
  Undisturbed =>
    \A e \in Event \ unanswered :
      stored[e] <= 1 /\ (e \in Pending => stored[e] = 0)

SinkInv ==
  /\ TypeOK
  /\ ModeOK
  /\ TailOK
  /\ AppendOK
  /\ DrainOK
  /\ SafeOK
  /\ OnePlace
  /\ PendingOK

-----------------------------------------------------------------------------
(* Sequences: what they hold, and that they hold it once.                  *)
LEMMA RangeOfEmpty == Range(<< >>) = {} /\ IsInjective(<< >>)
BY DEF Range, IsInjective

LEMMA RangeOfAppend ==
  ASSUME NEW S, NEW s \in Seq(S), NEW x \in S
  PROVE  /\ Append(s, x) \in Seq(S) /\ Append(s, x) # << >>
         /\ Last(Append(s, x)) = x
         /\ Range(Append(s, x)) = Range(s) \union {x}
         /\ IsInjective(s) /\ x \notin Range(s) => IsInjective(Append(s, x))
<1> DEFINE t == Append(s, x)
<1>1. /\ t \in Seq(S) /\ t # << >> /\ Len(s) \in Nat /\ Len(t) = Len(s) + 1
      /\ DOMAIN s = 1..Len(s) /\ DOMAIN t = 1..(Len(s) + 1)
      /\ \A i \in 1..Len(s) : t[i] = s[i]
      /\ t[Len(s) + 1] = x
  OBVIOUS
<1> HIDE DEF t
<1>2. Last(t) = x
  BY <1>1 DEF Last
<1>3. Range(t) = Range(s) \union {x}
  BY <1>1 DEF Range
<1>4. IsInjective(s) /\ x \notin Range(s) => IsInjective(t)
  BY <1>1 DEF Range, IsInjective
<1>5. QED
  BY <1>1, <1>2, <1>3, <1>4 DEF t

LEMMA RangeOfTail ==
  ASSUME NEW S, NEW s \in Seq(S), s # << >>
  PROVE  /\ Tail(s) \in Seq(S) /\ Head(s) \in S
         /\ Range(s) = Range(Tail(s)) \union {Head(s)}
         /\ IsInjective(s) => IsInjective(Tail(s)) /\ Head(s) \notin Range(Tail(s))
<1> DEFINE t == Tail(s)
           n == Len(s)
<1>1. /\ t \in Seq(S) /\ Head(s) \in S /\ n \in Nat /\ n >= 1
      /\ DOMAIN s = 1..n /\ DOMAIN t = 1..(n - 1)
      /\ \A i \in 1..(n - 1) : t[i] = s[i + 1]
      /\ Head(s) = s[1]
  OBVIOUS
<1> HIDE DEF t, n
<1>2. /\ \A i \in 1..n : i = 1 \/ (i - 1 \in 1..(n - 1) /\ (i - 1) + 1 = i)
      /\ \A i \in 1..(n - 1) : i + 1 \in 1..n /\ i + 1 # 1 /\ i \in Nat
      /\ 1 \in 1..n
  <2>1. n \in Nat /\ n >= 1
    BY <1>1
  <2>2. QED
    BY <2>1
<1>3. \A i \in 1..n : i = 1 \/ s[i] = t[i - 1]
  BY <1>1, <1>2
<1>4. Range(s) = Range(t) \union {Head(s)}
  <2>1. ASSUME NEW x \in Range(s) PROVE x \in Range(t) \union {Head(s)}
    BY <1>1, <1>2, <1>3 DEF Range
  <2>2. ASSUME NEW x \in Range(t) \union {Head(s)} PROVE x \in Range(s)
    BY <1>1, <1>2 DEF Range
  <2>3. QED
    BY <2>1, <2>2
<1>5. ASSUME IsInjective(s) PROVE IsInjective(t) /\ Head(s) \notin Range(t)
  <2>1. ASSUME NEW i \in 1..(n - 1), NEW j \in 1..(n - 1), t[i] = t[j] PROVE i = j
    <3>1. i + 1 = j + 1
      BY <1>1, <1>2, <1>5, <2>1 DEF IsInjective
    <3>2. QED
      BY <1>2, <3>1
  <2>2. Head(s) \notin Range(t)
    BY <1>1, <1>2, <1>5 DEF IsInjective, Range
  <2>3. QED
    BY <1>1, <2>1, <2>2 DEF IsInjective
<1>6. QED
  BY <1>1, <1>4, <1>5 DEF t

LEMMA RangeOfFront ==
  ASSUME NEW S, NEW s \in Seq(S), s # << >>
  PROVE  /\ Front(s) \in Seq(S) /\ Last(s) \in S
         /\ Range(s) = Range(Front(s)) \union {Last(s)}
<1> DEFINE t == Front(s)
           n == Len(s)
<1>1. /\ t \in Seq(S) /\ n \in Nat /\ n >= 1
      /\ DOMAIN s = 1..n /\ DOMAIN t = 1..(n - 1)
      /\ \A i \in 1..(n - 1) : t[i] = s[i]
      /\ Last(s) = s[n]
  BY DEF Front, Last
<1> HIDE DEF t, n
<1>2. /\ \A i \in 1..n : i = n \/ i \in 1..(n - 1)
      /\ \A i \in 1..(n - 1) : i \in 1..n
      /\ n \in 1..n
  <2>1. n \in Nat /\ n >= 1
    BY <1>1
  <2>2. QED
    BY <2>1
<1>3. Last(s) \in S
  BY <1>1, <1>2
<1>4. Range(s) = Range(t) \union {Last(s)}
  <2>1. ASSUME NEW x \in Range(s) PROVE x \in Range(t) \union {Last(s)}
    BY <1>1, <1>2 DEF Range
  <2>2. ASSUME NEW x \in Range(t) \union {Last(s)} PROVE x \in Range(s)
    BY <1>1, <1>2 DEF Range
  <2>3. QED
    BY <2>1, <2>2
<1>5. QED
  BY <1>1, <1>3, <1>4 DEF t

-----------------------------------------------------------------------------
(* What a POST does to the collector.                                      *)
LEMMA PostEffect ==
  ASSUME TypeOK, NEW e \in Event, PostAccepted(e) \/ PostFailed(e)
  PROVE  /\ stored' \in [Event -> 0..2]
         /\ unanswered \subseteq unanswered' /\ unanswered' \subseteq Event
         /\ \A d \in Event : /\ d # e => stored'[d] = stored[d]
                             /\ stored[d] > 0 => stored'[d] > 0
         /\ PostAccepted(e) => stored'[e] > 0 /\ (stored[e] = 0 => stored'[e] = 1)
         /\ PostFailed(e) => stored'[e] = stored[e] \/ e \in unanswered'
BY DEF TypeOK, PostAccepted, PostFailed, Ingested, server

(* The first start of the agent.                                           *)
LEMMA SinkInvInit == Init => SinkInv
<1> SUFFICES ASSUME Init PROVE SinkInv
  OBVIOUS
<1> USE SinkAssumption, RangeOfEmpty DEF Init
<1>1. tail \in BOOLEAN /\ glued \in BOOLEAN /\ halted \in BOOLEAN /\ ~tail /\ ~glued /\ ~halted
  BY Zenon
<1>2. TypeOK
  BY <1>1 DEF TypeOK
<1>3. ModeOK /\ TailOK /\ AppendOK /\ DrainOK /\ SafeOK
  BY <1>1 DEF ModeOK, TailOK, AppendOK, DrainOK, SafeOK, Draining
<1>4. OnePlace /\ PendingOK
  BY DEF OnePlace, PendingOK
<1>5. QED
  BY <1>2, <1>3, <1>4 DEF SinkInv

(* A run drains what the file holds.                                       *)
LEMMA StartKeepsInv == SinkInv /\ Start => SinkInv'
<1> SUFFICES ASSUME SinkInv, Start PROVE SinkInv'
  OBVIOUS
<1> USE SinkAssumption, RangeOfEmpty DEF SinkInv, server
<1>1. /\ pc = "down" /\ kept' = << >> /\ current = NoEvent
      /\ UNCHANGED <<mode, file, tail, current, fresh, server, spooled,
                     glued, halted, faults, crashes>>
      /\ \/ pc' = "drain" /\ rest' = file /\ mode = "spool"
         \/ pc' = "run" /\ rest' = << >> /\ file = << >>
  BY DEF Start, TypeOK, ModeOK
<1>2. TypeOK'
  BY <1>1 DEF TypeOK
<1>3. ModeOK' /\ TailOK' /\ AppendOK'
  BY <1>1 DEF ModeOK, TailOK, AppendOK, Draining, TypeOK
<1>4. DrainOK' /\ SafeOK'
  BY <1>1 DEF DrainOK, SafeOK, Safe, Draining
<1>5. OnePlace' /\ PendingOK'
  BY <1>1 DEF OnePlace, PendingOK, Pending, Undisturbed, Draining
<1>6. QED
  BY <1>2, <1>3, <1>4, <1>5

(* A line is sent, or sent in vain and kept.                               *)
LEMMA DrainLineKeepsInv ==
  ASSUME SinkInv, NEW e \in Event, DrainDelivered(e) \/ DrainRetained(e)
  PROVE  SinkInv'
<1> USE SinkAssumption DEF SinkInv
<1>1. /\ pc = "drain" /\ rest # << >> /\ Head(rest) = e /\ rest' = Tail(rest)
      /\ PostAccepted(e) \/ PostFailed(e)
      /\ UNCHANGED <<mode, pc, file, tail, current, fresh, spooled,
                     glued, halted, faults, crashes>>
  BY DEF DrainDelivered, DrainRetained, DrainNext
<1>2. /\ stored' \in [Event -> 0..2] /\ stored \in [Event -> 0..2]
      /\ unanswered \subseteq unanswered' /\ unanswered' \subseteq Event
      /\ \A d \in Event : /\ d # e => stored'[d] = stored[d]
                          /\ stored[d] > 0 => stored'[d] > 0
  BY <1>1, PostEffect DEF TypeOK
<1>3. \/ kept' = kept /\ stored'[e] > 0 /\ (stored[e] = 0 => stored'[e] = 1)
      \/ /\ kept' = Append(kept, e)
         /\ stored'[e] = stored[e] \/ e \in unanswered'
  BY <1>1, PostEffect DEF DrainDelivered, DrainRetained
<1>4. /\ Tail(rest) \in Seq(Line)
      /\ Range(rest) = Range(rest') \union {e}
      /\ IsInjective(rest) => IsInjective(rest') /\ e \notin Range(rest')
  BY <1>1, RangeOfTail DEF TypeOK
<1>5. /\ Append(kept, e) \in Seq(Event)
      /\ Range(Append(kept, e)) = Range(kept) \union {e}
      /\ IsInjective(kept) /\ e \notin Range(kept) => IsInjective(Append(kept, e))
  BY RangeOfAppend DEF TypeOK
<1>6. TypeOK'
  BY <1>1, <1>2, <1>3, <1>4, <1>5 DEF TypeOK
<1>7. ModeOK' /\ TailOK' /\ AppendOK'
  BY <1>1 DEF ModeOK, TailOK, AppendOK, Draining
<1>8. DrainOK'
  BY <1>1, <1>2, <1>3, <1>4, <1>5 DEF DrainOK, Draining
<1>9. SafeOK'
  <2>1. spooled \subseteq Event
    BY DEF TypeOK
  <2>2. QED
    BY <1>1, <1>2, <2>1 DEF SafeOK, Safe
<1>10. OnePlace'
  <2> SUFFICES ASSUME Undisturbed PROVE OnePlace'
    BY <1>1 DEF OnePlace, Undisturbed
  <2>1. /\ IsInjective(file) /\ IsInjective(rest) /\ IsInjective(kept)
        /\ Range(rest) \union Range(kept) \subseteq Range(file)
        /\ Range(rest) \intersect Range(kept) = {}
        /\ fresh \intersect Range(file) = {}
    BY DEF OnePlace
  <2>2. /\ IsInjective(rest') /\ IsInjective(kept')
        /\ Range(rest') \union Range(kept') \subseteq Range(file)
        /\ Range(rest') \intersect Range(kept') = {}
    BY <1>3, <1>4, <1>5, <2>1
  <2>3. QED
    BY <1>1, <2>1, <2>2 DEF OnePlace
<1>11. PendingOK'
  <2> SUFFICES ASSUME Undisturbed, NEW d \in Event, d \notin unanswered'
               PROVE  stored'[d] <= 1 /\ (d \in Pending' => stored'[d] = 0)
    BY <1>1 DEF PendingOK, Undisturbed
  <2>1. d \notin unanswered
    BY <1>2
  <2>2. stored[d] <= 1 /\ (d \in Pending => stored[d] = 0)
    BY <2>1 DEF PendingOK
  <2>3. /\ Pending = fresh \union {current} \union Range(rest) \union Range(kept)
        /\ Pending' = fresh \union {current} \union Range(rest') \union Range(kept')
    BY <1>1 DEF Pending, Draining
  <2>4. CASE d # e
    BY <1>2, <1>3, <1>4, <1>5, <2>2, <2>3, <2>4
  <2>5. CASE d = e
    <3>1. stored[e] = 0 /\ e \in Range(file)
      BY <1>4, <2>2, <2>3, <2>5 DEF OnePlace
    <3>2. e \notin fresh /\ e \notin Range(rest') /\ e \notin Range(kept)
      BY <1>4, <3>1 DEF OnePlace
    <3>3. e # current
      BY <1>1 DEF TypeOK
    <3>4. QED
      BY <1>3, <2>3, <2>5, <3>1, <3>2, <3>3
  <2>6. QED
    BY <2>4, <2>5
<1>12. QED
  BY <1>6, <1>7, <1>8, <1>9, <1>10, <1>11

(* Once a file operation has failed or the process was killed, the parts   *)
(* about an undisturbed agent are void.                                    *)
LEMMA DisturbedIsVoid ==
  ASSUME ~(crashes' = 0 /\ faults' = 0)
  PROVE  OnePlace' /\ PendingOK'
BY DEF OnePlace, PendingOK, Undisturbed

(* A fault counts.                                                         *)
LEMMA FaultCounts ==
  ASSUME TypeOK, Fault
  PROVE  faults' \in 0..MaxFaults /\ faults' > 0 /\ faults' # 0
BY SinkAssumption DEF TypeOK, Fault

(* A line that does not parse is left out, one that cannot be read ends    *)
(* the loop.                                                               *)
LEMMA BadLineKeepsInv == SinkInv /\ (DrainCorrupt \/ DrainHalted) => SinkInv'
<1> USE SinkAssumption, RangeOfEmpty DEF SinkInv, server
<1>1. ASSUME SinkInv, DrainCorrupt PROVE SinkInv'
  <2> USE <1>1
  <2>1. /\ pc = "drain" /\ rest # << >> /\ Head(rest) = Junk /\ rest' = Tail(rest)
        /\ UNCHANGED <<mode, pc, file, tail, current, fresh, spooled,
                       glued, halted, faults, crashes, server, kept>>
    BY DEF DrainCorrupt, DrainNext
  <2>2. /\ rest' \in Seq(Line)
        /\ Range(rest) = Range(rest') \union {Junk}
        /\ IsInjective(rest) => IsInjective(rest')
    BY <2>1, RangeOfTail DEF TypeOK
  <2>3. TypeOK'
    BY <2>1, <2>2 DEF TypeOK
  <2>4. ModeOK' /\ TailOK' /\ AppendOK' /\ SafeOK'
    BY <2>1 DEF ModeOK, TailOK, AppendOK, SafeOK, Safe, Draining
  <2>5. DrainOK'
    BY <2>1, <2>2 DEF DrainOK, Draining
  <2>6. OnePlace'
    BY <2>1, <2>2 DEF OnePlace, Undisturbed
  <2>7. PendingOK'
    BY <2>1, <2>2 DEF PendingOK, Pending, Undisturbed, Draining
  <2>8. QED
    BY <2>3, <2>4, <2>5, <2>6, <2>7
<1>2. ASSUME SinkInv, DrainHalted PROVE SinkInv'
  <2> USE <1>2
  <2>1. /\ pc = "drain" /\ rest' = << >> /\ halted'
        /\ UNCHANGED <<mode, pc, file, tail, kept, current, fresh, server, spooled,
                       glued, crashes>>
        /\ faults' \in 0..MaxFaults /\ faults' > 0 /\ faults' # 0
    BY FaultCounts DEF DrainHalted
  <2>2. halted' \in BOOLEAN
    BY Zenon DEF DrainHalted
  <2>3. TypeOK'
    BY <2>1, <2>2 DEF TypeOK
  <2>4. ModeOK' /\ TailOK' /\ AppendOK' /\ SafeOK' /\ DrainOK'
    BY <2>1 DEF ModeOK, TailOK, AppendOK, SafeOK, DrainOK, Draining
  <2>5. OnePlace' /\ PendingOK'
    BY <2>1, DisturbedIsVoid
  <2>6. QED
    BY <2>3, <2>4, <2>5
<1>3. QED
  BY <1>1, <1>2

(* The drain comes to its end: what it kept becomes the file, and nothing  *)
(* else was left to send.                                                  *)
LEMMA SwapKeepsInv == SinkInv /\ (DrainEnd \/ Swap) => SinkInv'
<1> USE SinkAssumption, RangeOfEmpty DEF SinkInv, server
<1>1. ASSUME SinkInv, DrainEnd PROVE SinkInv'
  <2> USE <1>1 DEF DrainEnd
  <2>1. TypeOK'
    BY DEF TypeOK
  <2>2. ModeOK' /\ TailOK' /\ AppendOK' /\ SafeOK' /\ DrainOK'
    BY DEF ModeOK, TailOK, AppendOK, SafeOK, Safe, DrainOK, Draining, TypeOK
  <2>3. OnePlace' /\ PendingOK'
    BY DEF OnePlace, PendingOK, Pending, Undisturbed, Draining
  <2>4. QED
    BY <2>1, <2>2, <2>3
<1>2. ASSUME SinkInv, Swap PROVE SinkInv'
  <2> USE <1>2
  <2>1. /\ pc = "swap" /\ pc' = "run" /\ file' = kept /\ ~tail' /\ kept' = << >>
        /\ rest = << >> /\ current = NoEvent
        /\ UNCHANGED <<mode, rest, current, fresh, server, spooled,
                       glued, halted, faults, crashes>>
    BY DEF Swap, ModeOK, TypeOK
  <2>2. tail' \in BOOLEAN
    BY Zenon DEF Swap
  <2>3. kept \in Seq(Line) /\ << >> \in Seq(Event)
    BY DEF TypeOK, Line
  <2>4. TypeOK'
    BY <2>1, <2>2, <2>3 DEF TypeOK
  <2>5. ModeOK' /\ TailOK' /\ AppendOK' /\ DrainOK'
    BY <2>1 DEF ModeOK, TailOK, AppendOK, DrainOK, Draining
  <2>6. SafeOK'
    <3>1. spooled \subseteq Event
      BY DEF TypeOK
    <3>2. QED
      BY <2>1, <3>1 DEF SafeOK, Safe, DrainOK, Draining
  <2>7. OnePlace'
    BY <2>1 DEF OnePlace, Undisturbed
  <2>8. PendingOK'
    BY <2>1 DEF PendingOK, Pending, Undisturbed, Draining
  <2>9. QED
    BY <2>4, <2>5, <2>6, <2>7, <2>8
<1>3. QED
  BY <1>1, <1>2

(* A drain that is given up leaves the file as it was.                     *)
LEMMA DrainFailedKeepsInv == SinkInv /\ DrainFailed => SinkInv'
<1> SUFFICES ASSUME SinkInv, DrainFailed PROVE SinkInv'
  OBVIOUS
<1> USE SinkAssumption DEF SinkInv, server
<1>1. /\ pc \in {"drain", "swap"} /\ pc' = "run" /\ rest' = << >> /\ kept' = << >>
      /\ UNCHANGED <<mode, file, tail, current, fresh, server, spooled,
                     glued, halted, crashes>>
      /\ faults' \in 0..MaxFaults /\ faults' > 0 /\ faults' # 0
  BY FaultCounts DEF DrainFailed
<1>2. TypeOK'
  BY <1>1 DEF TypeOK
<1>3. ModeOK' /\ TailOK' /\ AppendOK' /\ SafeOK' /\ DrainOK'
  BY <1>1 DEF ModeOK, TailOK, AppendOK, SafeOK, Safe, DrainOK, Draining
<1>4. OnePlace' /\ PendingOK'
  BY <1>1, DisturbedIsVoid
<1>5. QED
  BY <1>2, <1>3, <1>4

(* An event is observed once.                                              *)
LEMMA ObserveKeepsInv ==
  ASSUME SinkInv, NEW e \in Event, Observe(e)
  PROVE  SinkInv'
<1> USE SinkAssumption DEF SinkInv, server
<1>1. /\ pc = "run" /\ e \in fresh /\ fresh' = fresh \ {e} /\ current = NoEvent
      /\ \/ pc' = "run" /\ current' = current /\ mode = "stdout"
         \/ pc' = "post" /\ current' = e
      /\ UNCHANGED <<mode, file, tail, rest, kept, server, spooled,
                     glued, halted, faults, crashes>>
  BY DEF Observe, TypeOK
<1>2. TypeOK'
  BY <1>1 DEF TypeOK
<1>3. ModeOK' /\ TailOK' /\ AppendOK' /\ SafeOK' /\ DrainOK'
  BY <1>1 DEF ModeOK, TailOK, AppendOK, SafeOK, Safe, DrainOK, Draining
<1>4. OnePlace'
  BY <1>1 DEF OnePlace, Undisturbed
<1>5. PendingOK'
  BY <1>1 DEF PendingOK, Pending, Undisturbed, Draining
<1>6. QED
  BY <1>2, <1>3, <1>4, <1>5

(* The first POST of an event.                                             *)
LEMMA SendKeepsInv == SinkInv /\ (SendDelivered \/ SendFailed) => SinkInv'
<1> SUFFICES ASSUME SinkInv, SendDelivered \/ SendFailed PROVE SinkInv'
  OBVIOUS
<1> USE SinkAssumption DEF SinkInv
<1> DEFINE e == current
<1>1. /\ pc = "post" /\ e \in Event
      /\ PostAccepted(e) \/ PostFailed(e)
      /\ UNCHANGED <<mode, file, tail, rest, kept, fresh, spooled,
                     glued, halted, faults, crashes>>
      /\ \/ pc' = "run" /\ current' = NoEvent
         \/ pc' = "append" /\ current' = current /\ mode = "spool" /\ PostFailed(e)
  BY DEF SendDelivered, SendFailed, TypeOK
<1>2. /\ stored' \in [Event -> 0..2] /\ stored \in [Event -> 0..2]
      /\ unanswered \subseteq unanswered' /\ unanswered' \subseteq Event
      /\ \A d \in Event : /\ d # e => stored'[d] = stored[d]
                          /\ stored[d] > 0 => stored'[d] > 0
      /\ PostAccepted(e) => stored'[e] > 0 /\ (stored[e] = 0 => stored'[e] = 1)
      /\ PostFailed(e) => stored'[e] = stored[e] \/ e \in unanswered'
  BY <1>1, PostEffect DEF TypeOK
<1>3. TypeOK'
  BY <1>1, <1>2 DEF TypeOK
<1>4. ModeOK' /\ TailOK' /\ AppendOK' /\ DrainOK'
  BY <1>1 DEF ModeOK, TailOK, AppendOK, DrainOK, Draining, TypeOK
<1>5. SafeOK'
  <2>1. spooled \subseteq Event
    BY DEF TypeOK
  <2>2. QED
    BY <1>1, <1>2, <2>1 DEF SafeOK, Safe
<1>6. OnePlace'
  BY <1>1 DEF OnePlace, Undisturbed
<1>7. PendingOK'
  <2> SUFFICES ASSUME Undisturbed, NEW d \in Event, d \notin unanswered'
               PROVE  stored'[d] <= 1 /\ (d \in Pending' => stored'[d] = 0)
    BY <1>1 DEF PendingOK, Undisturbed
  <2>1. stored[d] <= 1 /\ (d \in Pending => stored[d] = 0)
    BY <1>2 DEF PendingOK
  <2>2. /\ Pending = fresh \union {e} \union Range(file)
        /\ Pending' = fresh \union {current'} \union Range(file)
        /\ e \notin fresh \union Range(file)
    BY <1>1 DEF Pending, Draining, AppendOK, OnePlace
  <2>3. CASE d # e
    BY <1>1, <1>2, <2>1, <2>2, <2>3
  <2>4. CASE d = e
    BY <1>1, <1>2, <2>1, <2>2, <2>4
  <2>5. QED
    BY <2>3, <2>4
<1>8. QED
  BY <1>3, <1>4, <1>5, <1>6, <1>7

(* What is written goes behind the lines of the file, unless the last one  *)
(* is open.                                                                *)
LEMMA WrittenIsAppended ==
  ASSUME TypeOK, NEW line \in Line
  PROVE  /\ Written(line) \in Seq(Line) /\ Written(line) # << >>
         /\ ~tail => /\ Written(line) = Append(file, line)
                     /\ Last(Written(line)) = line
                     /\ Range(Written(line)) = Range(file) \union {line}
<1>1. CASE ~tail
  BY <1>1, RangeOfAppend DEF Written, TypeOK
<1>2. CASE tail
  <2>1. Front(file) \in Seq(Line) /\ Junk \in Line
    BY <1>2, RangeOfFront DEF TypeOK, Line
  <2>2. Append(Front(file), Junk) \in Seq(Line) /\ Append(Front(file), Junk) # << >>
    BY <2>1, RangeOfAppend
  <2>3. QED
    BY <1>2, <2>2 DEF Written
<1>3. QED
  BY <1>1, <1>2

(* The line of an event, and then its newline.                             *)
LEMMA AppendKeepsInv == SinkInv /\ (AppendLine \/ AppendNewline) => SinkInv'
<1> USE SinkAssumption DEF SinkInv, server
<1>1. ASSUME SinkInv, AppendLine PROVE SinkInv'
  <2> USE <1>1
  <2>1. /\ pc = "append" /\ pc' = "newline" /\ file' = Written(current) /\ tail'
        /\ glued' <=> glued \/ tail
        /\ UNCHANGED <<mode, rest, kept, current, fresh, server, spooled, halted,
                       faults, crashes>>
    BY DEF AppendLine
  <2>2. tail' \in BOOLEAN /\ glued' \in BOOLEAN
    BY Zenon DEF AppendLine
  <2>3. /\ current \in Event /\ mode = "spool"
        /\ file' \in Seq(Line) /\ file' # << >>
        /\ ~tail => /\ file' = Append(file, current) /\ Last(file') = current
                    /\ Range(file') = Range(file) \union {current}
    BY <2>1, WrittenIsAppended DEF TypeOK, ModeOK, Line
  <2>4. TypeOK'
    BY <2>1, <2>2, <2>3 DEF TypeOK
  <2>5. ModeOK' /\ TailOK' /\ AppendOK' /\ DrainOK'
    BY <2>1, <2>3 DEF ModeOK, TailOK, AppendOK, DrainOK, Draining
  <2>6. SafeOK'
    BY <2>1, <2>3 DEF SafeOK, Safe
  <2>7. ASSUME Undisturbed
        PROVE  /\ Range(file') = Range(file) \union {current}
               /\ IsInjective(file') /\ current \notin fresh
    <3>1. ~tail /\ current \notin Range(file) /\ IsInjective(file)
      BY <2>1, <2>7 DEF TailOK, OnePlace, Undisturbed
    <3>2. file \in Seq(Line) /\ current \in Line /\ current \notin fresh
      BY <2>3 DEF AppendOK, TypeOK, Line
    <3>3. IsInjective(Append(file, current))
      BY <3>1, <3>2, RangeOfAppend
    <3>4. QED
      BY <2>3, <3>1, <3>2, <3>3
  <2>8. OnePlace'
    BY <2>1, <2>7 DEF OnePlace, Undisturbed
  <2>9. PendingOK'
    BY <2>1, <2>7 DEF PendingOK, Pending, Undisturbed, Draining
  <2>10. QED
    BY <2>4, <2>5, <2>6, <2>8, <2>9
<1>2. ASSUME SinkInv, AppendNewline PROVE SinkInv'
  <2> USE <1>2
  <2>1. /\ pc = "newline" /\ pc' = "run" /\ ~tail' /\ current' = NoEvent
        /\ current \in Event /\ mode = "spool"
        /\ spooled' = spooled \union {current}
        /\ UNCHANGED <<mode, file, rest, kept, fresh, server,
                       glued, halted, faults, crashes>>
    BY DEF AppendNewline, TypeOK, ModeOK
  <2>2. tail' \in BOOLEAN
    BY Zenon DEF AppendNewline
  <2>3. TypeOK'
    BY <2>1, <2>2 DEF TypeOK
  <2>4. ModeOK' /\ TailOK' /\ AppendOK' /\ DrainOK'
    BY <2>1 DEF ModeOK, TailOK, AppendOK, DrainOK, Draining, TypeOK
  <2>5. SafeOK'
    <3>1. ~glued => current \in Range(file)
      <4>1. file \in Seq(Line) /\ file # << >>
        BY <2>1 DEF AppendOK, TypeOK
      <4>2. Range(file) = Range(Front(file)) \union {Last(file)}
        BY <4>1, RangeOfFront
      <4>3. QED
        BY <2>1, <4>2 DEF AppendOK
    <3>2. QED
      BY <2>1, <3>1 DEF SafeOK, Safe
  <2>6. OnePlace' /\ PendingOK'
    BY <2>1 DEF OnePlace, PendingOK, Pending, Undisturbed, Draining
  <2>7. QED
    BY <2>3, <2>4, <2>5, <2>6
<1>3. QED
  BY <1>1, <1>2

(* An append that fails: the event is dropped, and perhaps an open line is *)
(* left behind.                                                            *)
LEMMA AppendFailedKeepsInv == SinkInv /\ AppendFailed => SinkInv'
<1> SUFFICES ASSUME SinkInv, AppendFailed PROVE SinkInv'
  OBVIOUS
<1> USE SinkAssumption DEF SinkInv, server
<1>1. /\ pc \in {"append", "newline"} /\ pc' = "run" /\ current' = NoEvent
      /\ mode = "spool"
      /\ UNCHANGED <<mode, rest, kept, fresh, server, spooled, halted, crashes>>
      /\ faults' \in 0..MaxFaults /\ faults' > 0 /\ faults' # 0
  BY FaultCounts DEF AppendFailed, ModeOK
<1>2. \/ UNCHANGED <<file, tail, glued>>
      \/ file' = Written(Junk) /\ tail' = TRUE /\ glued' = (glued \/ tail)
  BY DEF AppendFailed
<1>3. tail' \in BOOLEAN /\ glued' \in BOOLEAN
  <2>1. tail \in BOOLEAN /\ glued \in BOOLEAN
    BY DEF TypeOK
  <2>2. QED
    BY <1>2, <2>1, Zenon
<1>4. /\ file' \in Seq(Line) /\ (tail' => file' # << >>)
      /\ (glued => glued') /\ (~glued' => Range(file) \subseteq Range(file'))
  <2>1. CASE UNCHANGED <<file, tail, glued>>
    BY <2>1 DEF TypeOK
  <2>2. CASE file' = Written(Junk) /\ tail' = TRUE /\ glued' = (glued \/ tail)
    BY <2>2, WrittenIsAppended DEF Line
  <2>3. QED
    BY <1>2, <2>1, <2>2
<1>5. TypeOK'
  BY <1>1, <1>3, <1>4 DEF TypeOK
<1>6. ModeOK' /\ TailOK' /\ AppendOK' /\ DrainOK'
  BY <1>1 DEF ModeOK, TailOK, AppendOK, DrainOK, Draining, TypeOK
<1>7. SafeOK'
  BY <1>1, <1>4 DEF SafeOK, Safe
<1>8. OnePlace' /\ PendingOK'
  BY <1>1, DisturbedIsVoid
<1>9. QED
  BY <1>5, <1>6, <1>7, <1>8

(* The agent ends.                                                         *)
LEMMA ExitKeepsInv == SinkInv /\ Exit => SinkInv'
<1> SUFFICES ASSUME SinkInv, Exit PROVE SinkInv'
  OBVIOUS
<1> USE SinkAssumption, RangeOfEmpty DEF SinkInv, server, Exit, Stop
<1>1. TypeOK'
  BY DEF TypeOK
<1>2. ModeOK' /\ TailOK' /\ AppendOK' /\ DrainOK' /\ SafeOK'
  BY DEF ModeOK, TailOK, AppendOK, DrainOK, Draining, SafeOK, Safe, TypeOK
<1>3. OnePlace' /\ PendingOK'
  BY DEF OnePlace, PendingOK, Pending, Undisturbed, Draining
<1>4. QED
  BY <1>1, <1>2, <1>3

(* The agent is killed: at most the line that was being appended is lost,  *)
(* which is not spooled yet.                                               *)
LEMMA CrashKeepsInv == SinkInv /\ Crash => SinkInv'
<1> SUFFICES ASSUME SinkInv, Crash PROVE SinkInv'
  OBVIOUS
<1> USE SinkAssumption, RangeOfEmpty DEF SinkInv, server
<1>1. /\ pc' = "down" /\ rest' = << >> /\ kept' = << >> /\ current' = NoEvent
      /\ crashes' \in 0..MaxCrashes /\ crashes' # 0
      /\ UNCHANGED <<mode, fresh, server, spooled, glued, halted, faults>>
  BY DEF Crash, Stop, TypeOK
<1>2. \/ UNCHANGED <<file, tail>>
      \/ pc = "newline" /\ file' = Append(Front(file), Junk) /\ tail' = TRUE
      \/ pc = "newline" /\ file' = Front(file) /\ tail' = FALSE
  BY DEF Crash
<1>3. tail' \in BOOLEAN
  <2>1. tail \in BOOLEAN
    BY DEF TypeOK
  <2>2. QED
    BY <1>2, <2>1, Zenon
<1>4. /\ file' \in Seq(Line) /\ (tail' => file' # << >>)
      /\ mode # "spool" => file' = << >>
      /\ ~glued => Range(file) \subseteq Range(file') \union {current}
  <2>1. CASE UNCHANGED <<file, tail>>
    BY <2>1 DEF TypeOK, ModeOK
  <2>2. CASE pc = "newline"
    <3>1. /\ Front(file) \in Seq(Line) /\ Junk \in Line /\ mode = "spool"
          /\ Range(file) = Range(Front(file)) \union {Last(file)}
          /\ ~glued => Last(file) = current
      BY <2>2, RangeOfFront DEF TypeOK, AppendOK, ModeOK, Line
    <3>2. /\ Append(Front(file), Junk) \in Seq(Line)
          /\ Append(Front(file), Junk) # << >>
          /\ Range(Front(file)) \subseteq Range(Append(Front(file), Junk))
      BY <3>1, RangeOfAppend
    <3>3. QED
      BY <1>2, <2>1, <3>1, <3>2
  <2>3. QED
    BY <1>2, <2>1, <2>2
<1>5. TypeOK'
  BY <1>1, <1>3, <1>4 DEF TypeOK
<1>6. ModeOK' /\ TailOK' /\ AppendOK' /\ DrainOK'
  BY <1>1, <1>4 DEF ModeOK, TailOK, AppendOK, DrainOK, Draining, TypeOK
<1>7. SafeOK'
  BY <1>1, <1>4 DEF SafeOK, Safe, AppendOK
<1>8. OnePlace' /\ PendingOK'
  BY <1>1, DisturbedIsVoid
<1>9. QED
  BY <1>5, <1>6, <1>7, <1>8

(* Every step keeps the invariant.                                         *)
LEMMA SinkInvNext == SinkInv /\ [Next]_vars => SinkInv'
<1>1. SinkInv /\ UNCHANGED vars => SinkInv'
  BY DEF SinkInv, vars, server, TypeOK, ModeOK, TailOK, AppendOK, DrainOK, SafeOK, Safe,
         OnePlace, PendingOK, Pending, Undisturbed, Draining
<1>2. QED
  BY <1>1, StartKeepsInv, DrainLineKeepsInv, BadLineKeepsInv, SwapKeepsInv,
     DrainFailedKeepsInv, ObserveKeepsInv, SendKeepsInv, AppendKeepsInv,
     AppendFailedKeepsInv, ExitKeepsInv, CrashKeepsInv
     DEF Next, AgentStep

(* The invariant holds throughout.                                         *)
LEMMA SinkInvariant == Spec => []SinkInv
BY SinkInvInit, SinkInvNext, PTL DEF Spec

-----------------------------------------------------------------------------
(* The agent and its spool keep their types.                               *)
THEOREM SinkTypes == Spec => []TypeOK
<1>1. SinkInv => TypeOK
  BY DEF SinkInv
<1>2. QED
  BY <1>1, SinkInvariant, PTL

(* A spooled event is with the collector or a line of the file, unless a   *)
(* line was appended to an open one or a drain could not read on (spool.rs,*)
(* append and drain).                                                      *)
THEOREM SinkSpooledIsSafe == Spec => []SpooledIsSafe
<1>1. SinkInv => SpooledIsSafe
  BY DEF SinkInv, SafeOK, TailOK, SpooledIsSafe
<1>2. QED
  BY <1>1, SinkInvariant, PTL

(* An event is stored twice only after an answer that did not arrive, a    *)
(* crash or a fault (spool.rs, drain).                                     *)
THEOREM SinkRepeats == Spec => []RepeatedOnlyIfDisturbed
<1>1. SinkInv => RepeatedOnlyIfDisturbed
  BY SinkAssumption
     DEF SinkInv, TypeOK, PendingOK, Undisturbed, RepeatedOnlyIfDisturbed
<1>2. QED
  BY <1>1, SinkInvariant, PTL

=============================================================================
