-------------------------- MODULE StreamUsageProofs --------------------------
(***************************************************************************)
(* Proofs about StreamUsage, for any streams, number of chunks, time to    *)
(* live and lag: the usage found in a stream that is not interrupted, and  *)
(* whose chunks can be joined, is recorded once its terminal chunk has     *)
(* been handled, and recorded whole.                                       *)
(*                                                                         *)
(* The properties speak of events; the invariant must say where the chunks *)
(* are before there is one: in the map, but for the chunk whose handler    *)
(* waits for streamMu, or in the handler that took them out (Accounted).   *)
(* That no other handler expires them meanwhile is the arithmetic of Timely: *)
(* a stream whose handler waits was silent for at most TTL - MaxLag before *)
(* the handler read the clock, and the wait is at most MaxLag.             *)
(***************************************************************************)
EXTENDS StreamUsage, TLAPS

Kept(s) == IF streamUsage[s] = Null THEN {} ELSE streamUsage[s].chunks

HasEvent(s) == \E e \in recorded : e.stream = s

\* Chunks are numbered in order, and the latest counts if it carries usage.
Numbered ==
    \A s \in Streams :
        /\ \A n \in delivered[s] : n <= handler[s].n
        /\ handler[s].pc # "idle" => handler[s].n > 0
        /\ handler[s].pc = "lock" =>
             (handler[s].n \in delivered[s] <=> HasInterceptedUsage(handler[s].kind))
        /\ handler[s].n = 0 => streamUsage[s] = Null
        /\ \A e \in recorded : e.stream = s => e.last <= handler[s].n

\* How old the readings of the clock are.
Timely ==
    \A s \in Streams :
        /\ handler[s].now <= clock
        /\ handler[s].pc = "lock" => clock - handler[s].now <= MaxLag
        /\ handler[s].pc = "record" => streamUsage[s] = Null
        /\ handler[s].pc = "idle" /\ streamUsage[s] # Null =>
             streamUsage[s].updatedAt = handler[s].now
        /\ handler[s].pc = "lock" /\ streamUsage[s] # Null =>
             \/ handler[s].now - streamUsage[s].updatedAt <= TTL - MaxLag
             \/ s \in interrupted

Silent(s) == clock - handler[s].now > TTL - MaxLag

\* A stream of which the properties promise something.
Regular(s) == s \notin interrupted /\ Joins(s, delivered[s])

\* Where the chunks of such a stream are while it has no event.
Accounted ==
    \A s \in Streams :
        Regular(s) /\ ~HasEvent(s) =>
            /\ handler[s].pc = "idle" => Kept(s) = delivered[s] \/ Silent(s)
            /\ handler[s].pc = "lock" => Kept(s) = delivered[s] \ {handler[s].n}
            /\ handler[s].pc = "record" => handler[s].chunks = delivered[s]

SInv ==
    /\ TypeOK
    /\ Numbered
    /\ Timely
    /\ Accounted
    /\ RecordedWhole
    /\ TerminalCounted

-----------------------------------------------------------------------------
(* Types.                                                                  *)

LEMMA EntryNotNull == Null \notin Entry /\ Null \notin Nat
<1>1. Entry \subseteq [chunks : SUBSET Nat, updatedAt : Nat]
  BY StreamUsageAssumption DEF Entry
<1> QED
  BY <1>1, StreamUsageAssumption

\* The entry with this chunk, and the chunks it holds.
LEMMA UpdatedEntry ==
    ASSUME TypeOK, NEW s \in Streams, handler[s].n \in 1 .. MaxChunks
    PROVE  /\ Updated(s) \in Entry \cup {Null}
           /\ Updated(s) # Null =>
                /\ Updated(s).updatedAt = handler[s].now
                /\ Updated(s).chunks =
                     Kept(s) \cup (IF HasInterceptedUsage(handler[s].kind)
                                   THEN {handler[s].n} ELSE {})
           /\ Updated(s) = Null =>
                /\ streamUsage[s] = Null
                /\ ~HasInterceptedUsage(handler[s].kind)
<1>1. /\ streamUsage[s] \in Entry \cup {Null}
      /\ handler[s].now \in Nat
      /\ handler[s].n \in 1 .. MaxChunks
  BY DEF TypeOK, Handler
<1>2. CASE HasInterceptedUsage(handler[s].kind)
  <2>1. Updated(s) = [chunks |-> Kept(s) \cup {handler[s].n}, updatedAt |-> handler[s].now]
    BY <1>2 DEF Updated, Kept
  <2>2. Kept(s) \subseteq 1 .. MaxChunks
    BY <1>1 DEF Kept, Entry
  <2>3. Updated(s) \in Entry
    BY <1>1, <2>1, <2>2 DEF Entry
  <2> QED
    BY <1>2, <2>1, <2>3, EntryNotNull
<1>3. CASE ~HasInterceptedUsage(handler[s].kind) /\ streamUsage[s] = Null
  BY <1>3 DEF Updated
<1>4. CASE ~HasInterceptedUsage(handler[s].kind) /\ streamUsage[s] # Null
  <2>1. Updated(s) = [streamUsage[s] EXCEPT !.updatedAt = handler[s].now]
    BY <1>4 DEF Updated
  <2>2. streamUsage[s] \in Entry
    BY <1>1, <1>4
  <2>3. Updated(s) \in Entry /\ Updated(s).updatedAt = handler[s].now
        /\ Updated(s).chunks = streamUsage[s].chunks
    BY <1>1, <2>1, <2>2 DEF Entry
  <2> QED
    BY <1>4, <2>3, EntryNotNull DEF Kept
<1> QED
  BY <1>2, <1>3, <1>4

LEMMA StreamInit == Init => SInv
<1> SUFFICES ASSUME Init PROVE SInv
  OBVIOUS
<1>1. TypeOK
  <2>1. 0 \in 0 .. MaxChunks /\ "plain" \in Kinds
    BY StreamUsageAssumption DEF Kinds
  <2>2. [pc |-> "idle", n |-> 0, kind |-> "plain", now |-> 0, chunks |-> {}] \in Handler
    BY <2>1 DEF Handler
  <2>3. handler \in [Streams -> Handler]
    BY <2>2 DEF Init
  <2> QED
    BY <2>3 DEF Init, TypeOK
<1>2. Numbered /\ Timely /\ Accounted
  BY DEF Init, Numbered, Timely, Accounted, HasEvent, Kept
<1>3. RecordedWhole /\ TerminalCounted
  BY DEF Init, RecordedWhole, TerminalCounted
<1> QED
  BY <1>1, <1>2, <1>3 DEF SInv

LEMMA StreamTyped == TypeOK /\ Numbered /\ [Next]_vars => TypeOK'
<1> SUFFICES ASSUME TypeOK, Numbered, [Next]_vars PROVE TypeOK'
  OBVIOUS
<1> USE DEF TypeOK
<1>1. CASE UNCHANGED vars
  BY <1>1 DEF vars
<1>2. CASE Tick
  BY <1>2 DEF Tick
<1>3. ASSUME NEW s \in Streams, Enter(s) PROVE TypeOK'
  <2>1. handler[s].n + 1 \in 1 .. MaxChunks
    BY <1>3, StreamUsageAssumption DEF Enter, Handler
  <2>2. PICK kind \in Kinds :
          /\ handler' = [handler EXCEPT ![s] =
                [pc |-> "lock", n |-> handler[s].n + 1, kind |-> kind,
                 now |-> clock, chunks |-> {}]]
          /\ delivered' = IF HasInterceptedUsage(kind)
                          THEN [delivered EXCEPT ![s] = @ \cup {handler[s].n + 1}]
                          ELSE delivered
    BY <1>3 DEF Enter
  <2>3. handler' \in [Streams -> Handler]
    BY <2>1, <2>2 DEF Handler
  <2>4. delivered' \in [Streams -> SUBSET (1 .. MaxChunks)]
    BY <2>1, <2>2
  <2>5. interrupted' \subseteq Streams
    BY <1>3 DEF Enter
  <2> QED
    BY <1>3, <2>3, <2>4, <2>5 DEF Enter
<1>4. ASSUME NEW s \in Streams, Section(s) PROVE TypeOK'
  <2>1. handler[s].n \in 1 .. MaxChunks
    BY <1>4 DEF Section, Numbered, Handler
  <2>2. streamUsage' \in [Streams -> Entry \cup {Null}]
    BY <1>4, <2>1, UpdatedEntry DEF Section
  <2>3. ToRecord(s) => Updated(s).chunks \in SUBSET (1 .. MaxChunks)
    BY <2>1, UpdatedEntry DEF ToRecord, Entry
  <2>4. handler' \in [Streams -> Handler]
    <3>1. CASE ToRecord(s)
      <4>1. [handler[s] EXCEPT !.pc = "record", !.chunks = Updated(s).chunks] \in Handler
        BY <2>3, <3>1 DEF Handler
      <4>2. handler' = [handler EXCEPT ![s] =
              [handler[s] EXCEPT !.pc = "record", !.chunks = Updated(s).chunks]]
        BY <1>4, <3>1 DEF Section
      <4> QED
        BY <4>1, <4>2
    <3>2. CASE ~ToRecord(s)
      BY <1>4, <3>2 DEF Section, Handler
    <3> QED
      BY <3>1, <3>2
  <2> QED
    BY <1>4, <2>2, <2>4 DEF Section
<1>5. ASSUME NEW s \in Streams, Record(s) \/ RecordFails(s) PROVE TypeOK'
  <2>1. handler' = [handler EXCEPT ![s] = [handler[s] EXCEPT !.pc = "idle", !.chunks = {}]]
    BY <1>5 DEF Record, RecordFails
  <2>2. [handler[s] EXCEPT !.pc = "idle", !.chunks = {}] \in Handler
    BY DEF Handler
  <2>3. handler' \in [Streams -> Handler]
    BY <2>1, <2>2
  <2>4. handler[s].pc = "record" => handler[s].n \in 1 .. MaxChunks
    BY DEF Numbered, Handler
  <2>5. handler[s].chunks \in SUBSET (1 .. MaxChunks)
    BY DEF Handler
  <2>6. recorded' \subseteq [stream : Streams, chunks : SUBSET (1 .. MaxChunks),
                             last : 1 .. MaxChunks]
    BY <1>5, <2>4, <2>5 DEF Record, RecordFails
  <2>7. interrupted' \subseteq Streams /\ clock' = clock /\ streamUsage' = streamUsage
        /\ delivered' = delivered
    BY <1>5 DEF Record, RecordFails
  <2> QED
    BY <2>3, <2>6, <2>7
<1>6. CASE Reconfigure
  BY <1>6 DEF Reconfigure
<1>7. ASSUME NEW s \in Streams, ObserveFails(s) PROVE TypeOK'
  <2>1. /\ UNCHANGED <<clock, streamUsage, delivered, interrupted, recorded>>
        /\ handler' = [handler EXCEPT ![s] =
              [handler[s] EXCEPT !.n = handler[s].n + 1, !.kind = "plain",
                 !.now = IF Started(s) THEN handler[s].now ELSE clock]]
    BY <1>7 DEF ObserveFails
  <2>2. handler[s].n + 1 \in 0 .. MaxChunks /\ "plain" \in Kinds
    BY <1>7, StreamUsageAssumption DEF ObserveFails, Handler, Kinds
  <2>3. \A n \in Nat : [handler[s] EXCEPT !.n = handler[s].n + 1, !.kind = "plain",
                        !.now = n] \in Handler
    BY <2>2 DEF Handler
  <2>4. (IF Started(s) THEN handler[s].now ELSE clock) \in Nat
    BY DEF Handler
  <2>5. handler' \in [Streams -> Handler]
    BY <2>1, <2>3, <2>4
  <2> QED
    BY <2>1, <2>5
<1> QED
  BY <1>1, <1>2, <1>3, <1>4, <1>5, <1>6, <1>7 DEF Next

-----------------------------------------------------------------------------
(* The invariant.                                                          *)

\* A chunk arrives.
LEMMA EnterKeeps ==
    ASSUME SInv, TypeOK', NEW s \in Streams, Enter(s)
    PROVE  SInv'
<1> USE DEF SInv
<1>1. PICK kind \in Kinds :
        /\ handler' = [handler EXCEPT ![s] =
              [pc |-> "lock", n |-> handler[s].n + 1, kind |-> kind,
               now |-> clock, chunks |-> {}]]
        /\ delivered' = IF HasInterceptedUsage(kind)
                        THEN [delivered EXCEPT ![s] = @ \cup {handler[s].n + 1}]
                        ELSE delivered
  BY DEF Enter
<1>2. /\ handler[s].pc = "idle" /\ handler[s].n \in Nat /\ handler[s].now \in Nat
      /\ UNCHANGED <<clock, streamUsage, recorded>>
      /\ interrupted \subseteq interrupted'
      /\ clock \in Nat
  BY StreamUsageAssumption DEF Enter, TypeOK, Handler
<1>3. /\ handler'[s].pc = "lock" /\ handler'[s].n = handler[s].n + 1
      /\ handler'[s].kind = kind /\ handler'[s].now = clock
  BY <1>1 DEF TypeOK
<1>4. \A t \in Streams : t # s =>
        /\ handler'[t] = handler[t] /\ delivered'[t] = delivered[t]
        /\ t \in interrupted' => t \in interrupted
  BY <1>1 DEF TypeOK, Enter
<1>5. delivered'[s] = delivered[s] \cup (IF HasInterceptedUsage(kind)
                                         THEN {handler'[s].n} ELSE {})
  BY <1>1, <1>3 DEF TypeOK
<1>6. \A n \in delivered[s] : n \in Nat /\ n <= handler[s].n
  BY DEF TypeOK, Numbered
<1>7. s \notin interrupted' => ~Started(s) \/ ~Silent(s)
  BY DEF Enter, Silent
<1>8. Numbered'
  <2> SUFFICES ASSUME NEW t \in Streams
               PROVE  /\ \A n \in delivered'[t] : n <= handler'[t].n
                      /\ handler'[t].pc # "idle" => handler'[t].n > 0
                      /\ handler'[t].pc = "lock" =>
                           (handler'[t].n \in delivered'[t]
                              <=> HasInterceptedUsage(handler'[t].kind))
                      /\ handler'[t].n = 0 => streamUsage[t] = Null
                      /\ \A e \in recorded : e.stream = t => e.last <= handler'[t].n
    BY <1>2 DEF Numbered, HasInterceptedUsage
  <2>1. CASE t # s
    BY <1>4, <2>1 DEF Numbered
  <2>2. CASE t = s
    <3>1. \A e \in recorded : e.stream = s => e.last \in Nat /\ e.last <= handler[s].n
      BY DEF Numbered, TypeOK
    <3> QED
      BY <1>2, <1>3, <1>5, <1>6, <2>2, <3>1
  <2> QED
    BY <2>1, <2>2
<1>9. Timely'
  <2> SUFFICES ASSUME NEW t \in Streams
               PROVE  /\ handler'[t].now <= clock
                      /\ handler'[t].pc = "lock" => clock - handler'[t].now <= MaxLag
                      /\ handler'[t].pc = "record" => streamUsage[t] = Null
                      /\ handler'[t].pc = "idle" /\ streamUsage[t] # Null =>
                           streamUsage[t].updatedAt = handler'[t].now
                      /\ handler'[t].pc = "lock" /\ streamUsage[t] # Null =>
                           \/ handler'[t].now - streamUsage[t].updatedAt <= TTL - MaxLag
                           \/ t \in interrupted'
    BY <1>2 DEF Timely
  <2>1. CASE t # s
    BY <1>2, <1>4, <2>1 DEF Timely
  <2>2. CASE t = s
    <3>1. streamUsage[s] # Null => streamUsage[s].updatedAt = handler[s].now /\ Started(s)
      BY <1>2 DEF Timely, Numbered, Started
    <3>2. MaxLag \in Nat /\ TTL \in Nat
      BY StreamUsageAssumption
    <3> QED
      BY <1>2, <1>3, <1>7, <2>2, <3>1, <3>2 DEF Silent
  <2> QED
    BY <2>1, <2>2
<1>10. Accounted'
  <2> SUFFICES ASSUME NEW t \in Streams, Regular(t)', ~HasEvent(t)
               PROVE  /\ handler'[t].pc = "idle" => Kept(t) = delivered'[t] \/ Silent(t)'
                      /\ handler'[t].pc = "lock" => Kept(t) = delivered'[t] \ {handler'[t].n}
                      /\ handler'[t].pc = "record" => handler'[t].chunks = delivered'[t]
    BY <1>2 DEF Accounted, HasEvent, Kept
  <2>0. Regular(t) /\ t \notin interrupted'
    <3>1. delivered[t] \subseteq delivered'[t]
      BY <1>4, <1>5
    <3> QED
      BY <1>2, <3>1 DEF Regular, Joins
  <2>1. CASE t # s
    BY <1>2, <1>4, <2>0, <2>1 DEF Accounted, Silent
  <2>2. CASE t = s
    <3>1. Kept(s) = delivered[s]
      <4>1. CASE Started(s)
        BY <1>2, <1>7, <2>0, <2>2, <4>1 DEF Accounted
      <4>2. CASE ~Started(s)
        BY <1>2, <1>6, <4>2 DEF Started, Numbered, Kept, TypeOK
      <4> QED
        BY <4>1, <4>2
    <3>2. handler'[s].n \notin delivered[s]
      BY <1>2, <1>3, <1>6
    <3> QED
      BY <1>3, <1>5, <2>2, <3>1, <3>2
  <2> QED
    BY <2>1, <2>2
<1>11. RecordedWhole'
  <2> SUFFICES ASSUME NEW e \in recorded
               PROVE  {n \in delivered'[e.stream] : n <= e.last}
                        = {n \in delivered[e.stream] : n <= e.last}
    BY <1>2 DEF RecordedWhole
  <2>1. e.stream \in Streams /\ e.last \in Nat
    BY DEF TypeOK
  <2>2. CASE e.stream = s
    <3>1. e.last <= handler[s].n
      BY <2>2 DEF Numbered
    <3>2. ~(handler'[s].n <= e.last)
      BY <1>2, <1>3, <2>1, <3>1
    <3> QED
      BY <1>5, <2>2, <3>2
  <2> QED
    BY <1>4, <2>1, <2>2
<1>12. TerminalCounted'
  BY <1>2, <1>3, <1>4 DEF TerminalCounted, HasTerminalStreamUsage
<1> QED
  BY <1>8, <1>9, <1>10, <1>11, <1>12

\* A chunk that no handler looks at.
LEMMA ObserveFailsKeeps ==
    ASSUME SInv, TypeOK', NEW s \in Streams, ObserveFails(s)
    PROVE  SInv'
<1> USE DEF SInv
<1>1. /\ handler[s].pc = "idle" /\ handler[s].n \in Nat /\ handler[s].now \in Nat
      /\ clock \in Nat
      /\ UNCHANGED <<clock, streamUsage, delivered, interrupted, recorded>>
  BY StreamUsageAssumption DEF ObserveFails, TypeOK, Handler
<1>2. /\ handler'[s].pc = "idle" /\ handler'[s].n = handler[s].n + 1
      /\ handler'[s].kind = "plain"
      /\ handler'[s].now = IF Started(s) THEN handler[s].now ELSE clock
      /\ \A t \in Streams : t # s => handler'[t] = handler[t]
  BY <1>1 DEF ObserveFails, TypeOK, Handler
<1>3. ~Started(s) => streamUsage[s] = Null /\ delivered[s] = {}
  <2> SUFFICES ASSUME handler[s].n = 0
               PROVE  streamUsage[s] = Null /\ delivered[s] = {}
    BY <1>1 DEF Started
  <2>1. \A n \in delivered[s] : n \in 1 .. MaxChunks /\ n <= 0
    BY DEF TypeOK, Numbered
  <2> QED
    BY <2>1 DEF Numbered
<1>4. Numbered'
  <2> SUFFICES ASSUME NEW t \in Streams
               PROVE  /\ \A n \in delivered[t] : n <= handler'[t].n
                      /\ handler'[t].pc # "idle" => handler'[t].n > 0
                      /\ handler'[t].pc = "lock" =>
                           (handler'[t].n \in delivered[t]
                              <=> HasInterceptedUsage(handler'[t].kind))
                      /\ handler'[t].n = 0 => streamUsage[t] = Null
                      /\ \A e \in recorded : e.stream = t => e.last <= handler'[t].n
    BY <1>1 DEF Numbered, HasInterceptedUsage
  <2>1. CASE t # s
    BY <1>2, <2>1 DEF Numbered
  <2>2. CASE t = s
    <3>1. /\ \A n \in delivered[s] : n \in Nat /\ n <= handler[s].n
          /\ \A e \in recorded : e.stream = s => e.last \in Nat /\ e.last <= handler[s].n
      BY DEF Numbered, TypeOK
    <3> QED
      BY <1>1, <1>2, <2>2, <3>1
  <2> QED
    BY <2>1, <2>2
<1>5. Timely'
  BY <1>1, <1>2, <1>3 DEF Timely
<1>6. Accounted'
  <2> SUFFICES ASSUME NEW t \in Streams, Regular(t), ~HasEvent(t)
               PROVE  /\ handler'[t].pc = "idle" => Kept(t) = delivered[t] \/ Silent(t)'
                      /\ handler'[t].pc = "lock" => Kept(t) = delivered[t] \ {handler'[t].n}
                      /\ handler'[t].pc = "record" => handler'[t].chunks = delivered[t]
    BY <1>1 DEF Accounted, HasEvent, Kept, Regular, Joins
  <2>1. CASE t # s
    BY <1>1, <1>2, <2>1 DEF Accounted, Silent
  <2>2. CASE t = s /\ Started(s)
    BY <1>1, <1>2, <2>2 DEF Accounted, Silent
  <2>3. CASE t = s /\ ~Started(s)
    BY <1>2, <1>3, <2>3 DEF Kept
  <2> QED
    BY <2>1, <2>2, <2>3
<1>7. RecordedWhole' /\ TerminalCounted'
  BY <1>1, <1>2 DEF RecordedWhole, TerminalCounted, HasTerminalStreamUsage, Joins
<1> QED
  BY <1>4, <1>5, <1>6, <1>7

\* The section under streamMu.
LEMMA SectionKeeps ==
    ASSUME SInv, TypeOK', NEW s \in Streams, Section(s)
    PROVE  SInv'
<1> USE DEF SInv
<1> DEFINE Chunk == IF HasInterceptedUsage(handler[s].kind) THEN {handler[s].n} ELSE {}
<1>1. /\ handler[s].pc = "lock" /\ handler[s].n \in 1 .. MaxChunks
      /\ handler[s].now \in Nat /\ clock \in Nat
      /\ UNCHANGED <<clock, delivered, interrupted, recorded>>
  BY DEF Section, Numbered, TypeOK, Handler
<1>2. /\ handler'[s].pc = (IF ToRecord(s) THEN "record" ELSE "idle")
      /\ handler'[s].n = handler[s].n /\ handler'[s].kind = handler[s].kind
      /\ handler'[s].now = handler[s].now
      /\ ToRecord(s) => handler'[s].chunks = Updated(s).chunks
      /\ \A t \in Streams : t # s => handler'[t] = handler[t]
  BY DEF Section, TypeOK, Handler
<1>3. streamUsage'[s] = IF HasTerminalStreamUsage(handler[s].kind) THEN Null ELSE Updated(s)
  BY DEF Section
<1>4. \A t \in Streams : t # s =>
        \/ streamUsage'[t] = streamUsage[t]
        \/ streamUsage'[t] = Null /\ Expired(t, handler[s].now)
  BY DEF Section
<1>5. /\ Updated(s) # Null =>
           /\ Updated(s).updatedAt = handler[s].now
           /\ Updated(s).chunks = Kept(s) \cup Chunk
      /\ Updated(s) = Null => streamUsage[s] = Null /\ Chunk = {}
  BY <1>1, UpdatedEntry
<1>6. Numbered'
  <2> SUFFICES ASSUME NEW t \in Streams
               PROVE  /\ \A n \in delivered[t] : n <= handler'[t].n
                      /\ handler'[t].pc # "idle" => handler'[t].n > 0
                      /\ handler'[t].pc = "lock" =>
                           (handler'[t].n \in delivered[t]
                              <=> HasInterceptedUsage(handler'[t].kind))
                      /\ handler'[t].n = 0 => streamUsage'[t] = Null
                      /\ \A e \in recorded : e.stream = t => e.last <= handler'[t].n
    BY <1>1 DEF Numbered, HasInterceptedUsage
  <2>1. CASE t # s
    BY <1>2, <1>4, <2>1 DEF Numbered
  <2>2. CASE t = s
    BY <1>1, <1>2, <2>2 DEF Numbered
  <2> QED
    BY <2>1, <2>2
<1>7. Timely'
  <2> SUFFICES ASSUME NEW t \in Streams
               PROVE  /\ handler'[t].now <= clock
                      /\ handler'[t].pc = "lock" => clock - handler'[t].now <= MaxLag
                      /\ handler'[t].pc = "record" => streamUsage'[t] = Null
                      /\ handler'[t].pc = "idle" /\ streamUsage'[t] # Null =>
                           streamUsage'[t].updatedAt = handler'[t].now
                      /\ handler'[t].pc = "lock" /\ streamUsage'[t] # Null =>
                           \/ handler'[t].now - streamUsage'[t].updatedAt <= TTL - MaxLag
                           \/ t \in interrupted
    BY <1>1 DEF Timely
  <2>1. CASE t # s
    BY <1>2, <1>4, <2>1 DEF Timely
  <2>2. CASE t = s
    BY <1>2, <1>3, <1>5, <2>2 DEF Timely, ToRecord
  <2> QED
    BY <2>1, <2>2
<1>8. \A t \in Streams : t # s /\ Regular(t) =>
        \/ streamUsage'[t] = streamUsage[t]
        \/ streamUsage'[t] = Null /\ handler[t].pc = "idle" /\ Silent(t)
        \/ handler[t].pc = "record"
  <2> SUFFICES ASSUME NEW t \in Streams, t \notin interrupted, t # s,
                      streamUsage[t] # Null, streamUsage'[t] = Null,
                      Expired(t, handler[s].now), handler[t].pc # "record"
               PROVE  handler[t].pc = "idle" /\ Silent(t)
    BY <1>4 DEF Expired, Regular
  <2>1. /\ streamUsage[t].updatedAt \in Nat /\ handler[t].now \in Nat
        /\ handler[t].pc \in {"idle", "lock"}
        /\ TTL \in Nat /\ MaxLag \in Nat
    BY StreamUsageAssumption DEF TypeOK, Entry, Handler
  <2>2. handler[s].now - streamUsage[t].updatedAt > TTL /\ handler[s].now <= clock
    BY DEF Expired, Timely
  <2>3. handler[t].pc # "lock"
    BY <1>1, <2>1, <2>2 DEF Timely
  <2>4. streamUsage[t].updatedAt = handler[t].now
    BY <2>1, <2>3 DEF Timely
  <2> QED
    BY <1>1, <2>1, <2>2, <2>3, <2>4 DEF Silent
<1>9. Regular(s) /\ ~HasEvent(s) => Kept(s) \cup Chunk = delivered[s]
  BY <1>1 DEF Accounted, Numbered
<1>10. Accounted'
  <2> SUFFICES ASSUME NEW t \in Streams, Regular(t), ~HasEvent(t)
               PROVE  /\ handler'[t].pc = "idle" => Kept(t)' = delivered[t] \/ Silent(t)'
                      /\ handler'[t].pc = "lock" => Kept(t)' = delivered[t] \ {handler'[t].n}
                      /\ handler'[t].pc = "record" => handler'[t].chunks = delivered[t]
    BY <1>1 DEF Accounted, HasEvent, Regular, Joins
  <2>1. CASE t # s
    BY <1>1, <1>2, <1>8, <2>1 DEF Accounted, Silent, Kept
  <2>2. CASE t = s /\ ToRecord(s)
    BY <1>2, <1>5, <1>9, <2>2 DEF ToRecord
  <2>3. CASE t = s /\ ~ToRecord(s)
    <3>1. Kept(s)' = delivered[s]
      BY <1>3, <1>5, <1>9, <2>3 DEF ToRecord, Kept
    <3> QED
      BY <1>2, <2>3, <3>1
  <2> QED
    BY <2>1, <2>2, <2>3
<1>11. RecordedWhole'
  BY <1>1 DEF RecordedWhole, Joins
<1>12. TerminalCounted'
  <2> SUFFICES ASSUME NEW t \in Streams, Regular(t), handler'[t].pc = "idle",
                      HasTerminalStreamUsage(handler'[t].kind), delivered[t] # {}
               PROVE  HasEvent(t)
    BY <1>1 DEF TerminalCounted, HasTerminalStreamUsage, HasEvent, Regular, Joins
  <2>1. CASE t # s
    BY <1>2, <2>1 DEF TerminalCounted, HasEvent, Regular
  <2>2. CASE t = s
    <3>1. Updated(s) = Null
      BY <1>2, <2>2 DEF ToRecord
    <3>2. Kept(s) \cup Chunk = {}
      BY <1>5, <3>1 DEF Kept
    <3> QED
      BY <1>9, <2>2, <3>2
  <2> QED
    BY <2>1, <2>2
<1> QED
  BY <1>6, <1>7, <1>10, <1>11, <1>12

\* The usage is recorded, or the Store fails.
LEMMA RecordKeeps ==
    ASSUME SInv, TypeOK', NEW s \in Streams, Record(s) \/ RecordFails(s)
    PROVE  SInv'
<1> USE DEF SInv
<1>1. /\ handler[s].pc = "record" /\ handler'[s].pc = "idle"
      /\ handler'[s].n = handler[s].n /\ handler'[s].kind = handler[s].kind
      /\ handler'[s].now = handler[s].now
      /\ \A t \in Streams : t # s => handler'[t] = handler[t]
      /\ UNCHANGED <<clock, streamUsage, delivered>>
      /\ recorded \subseteq recorded' /\ interrupted \subseteq interrupted'
  BY DEF Record, RecordFails, TypeOK, Handler
<1>2. s \in interrupted' \/ HasEvent(s)' \/ ~Joins(s, handler[s].chunks)
  <2>1. CASE Record(s) /\ HasEvent(s)
    BY <1>1, <2>1 DEF HasEvent
  <2>2. CASE Record(s) /\ ~HasEvent(s) /\ Joins(s, handler[s].chunks)
    <3> DEFINE new == [stream |-> s, chunks |-> handler[s].chunks, last |-> handler[s].n]
    <3>1. new \in recorded' /\ new.stream = s
      BY <2>2 DEF Record, HasEvent
    <3> QED
      BY <3>1 DEF HasEvent
  <2>3. CASE RecordFails(s)
    BY <2>3 DEF RecordFails
  <2> QED
    BY <2>1, <2>2, <2>3
<1>3. \A e \in recorded' \ recorded :
        /\ e.stream = s /\ e.chunks = handler[s].chunks /\ e.last = handler[s].n
        /\ ~HasEvent(s) /\ interrupted' = interrupted
  BY DEF Record, RecordFails, HasEvent
<1>4. Numbered'
  <2>1. handler[s].n <= handler[s].n
    BY StreamUsageAssumption DEF TypeOK, Handler
  <2>2. \A t \in Streams : \A e \in recorded' : e.stream = t => e.last <= handler'[t].n
    BY <1>1, <1>3, <2>1 DEF Numbered
  <2> QED
    BY <1>1, <2>2 DEF Numbered, HasInterceptedUsage
<1>5. Timely'
  BY <1>1 DEF Timely
<1>6. Accounted'
  <2> SUFFICES ASSUME NEW t \in Streams, Regular(t)', ~HasEvent(t)'
               PROVE  /\ handler'[t].pc = "idle" => Kept(t)' = delivered[t] \/ Silent(t)'
                      /\ handler'[t].pc = "lock" => Kept(t)' = delivered[t] \ {handler'[t].n}
                      /\ handler'[t].pc = "record" => handler'[t].chunks = delivered[t]
    BY <1>1 DEF Accounted
  <2>1. Regular(t) /\ ~HasEvent(t) /\ t \notin interrupted'
    BY <1>1 DEF HasEvent, Regular, Joins
  <2>2. t # s
    BY <1>1, <1>2, <2>1 DEF Accounted, Regular
  <2> QED
    BY <1>1, <2>1, <2>2 DEF Accounted, Kept, Silent
<1>7. RecordedWhole'
  <2> SUFFICES ASSUME NEW e \in recorded', e.stream \notin interrupted',
                      Joins(e.stream, {n \in delivered[e.stream] : n <= e.last})
               PROVE  e.chunks = {n \in delivered[e.stream] : n <= e.last}
    BY <1>1 DEF RecordedWhole, Joins
  <2>1. CASE e \in recorded
    BY <1>1, <2>1 DEF RecordedWhole
  <2>2. CASE e \notin recorded
    <3>1. /\ e.stream = s /\ e.chunks = handler[s].chunks /\ e.last = handler[s].n
          /\ ~HasEvent(s) /\ s \notin interrupted
      BY <1>3, <2>2
    <3>2. delivered[s] = {n \in delivered[s] : n <= handler[s].n}
      BY DEF Numbered
    <3>3. Regular(s)
      BY <3>1, <3>2 DEF Regular
    <3> QED
      BY <1>1, <3>1, <3>2, <3>3 DEF Accounted
  <2> QED
    BY <2>1, <2>2
<1>8. TerminalCounted'
  <2> SUFFICES ASSUME NEW t \in Streams, t \notin interrupted', Joins(t, delivered[t]),
                      handler'[t].pc = "idle",
                      HasTerminalStreamUsage(handler'[t].kind), delivered[t] # {}
               PROVE  HasEvent(t)'
    BY <1>1 DEF TerminalCounted, HasTerminalStreamUsage, HasEvent, Joins
  <2>1. CASE t = s
    <3>1. Regular(s)
      BY <1>1, <2>1 DEF Regular
    <3>2. ~HasEvent(s)' => ~HasEvent(s)
      BY <1>1 DEF HasEvent
    <3> QED
      BY <1>1, <1>2, <2>1, <3>1, <3>2 DEF Accounted
  <2>2. CASE t # s
    BY <1>1, <2>2 DEF TerminalCounted, HasEvent
  <2> QED
    BY <2>1, <2>2
<1> QED
  BY <1>4, <1>5, <1>6, <1>7, <1>8

\* Every step keeps the invariant.
LEMMA StreamStep == SInv /\ [Next]_vars => SInv'
<1> SUFFICES ASSUME SInv, [Next]_vars PROVE SInv'
  OBVIOUS
<1>0. TypeOK'
  BY StreamTyped DEF SInv
<1>1. CASE UNCHANGED vars
  BY <1>0, <1>1 DEF vars, SInv, Numbered, Timely, Accounted, Kept, Silent, HasEvent,
                   RecordedWhole, TerminalCounted, HasInterceptedUsage,
                   HasTerminalStreamUsage, Regular, Joins
<1>2. CASE Tick
  <2>1. clock' = clock + 1 /\ clock \in Nat /\ UNCHANGED <<streamUsage, handler,
          delivered, interrupted, recorded>>
    BY <1>2 DEF Tick, SInv, TypeOK
  <2>2. \A s \in Streams : handler[s].now \in Nat
    BY DEF SInv, TypeOK, Handler
  <2>3. Timely'
    BY <1>2, <2>1, <2>2, StreamUsageAssumption DEF Tick, SInv, Timely
  <2>4. \A s \in Streams : Silent(s) => Silent(s)'
    BY <2>1, <2>2, StreamUsageAssumption DEF Silent
  <2>5. Accounted'
    BY <2>1, <2>4 DEF SInv, Accounted, Kept, HasEvent, Regular, Joins
  <2>6. Numbered' /\ RecordedWhole' /\ TerminalCounted'
    BY <2>1 DEF SInv, Numbered, RecordedWhole, TerminalCounted, HasInterceptedUsage,
                HasTerminalStreamUsage, Joins
  <2> QED
    BY <1>0, <2>3, <2>5, <2>6 DEF SInv
<1>3. ASSUME NEW s \in Streams, Enter(s) PROVE SInv'
  BY <1>0, <1>3, EnterKeeps
<1>4. ASSUME NEW s \in Streams, Section(s) PROVE SInv'
  BY <1>0, <1>4, SectionKeeps
<1>5. ASSUME NEW s \in Streams, Record(s) \/ RecordFails(s) PROVE SInv'
  BY <1>0, <1>5, RecordKeeps
<1>6. CASE Reconfigure
  <2>1. /\ \A s \in Streams : streamUsage'[s] = Null
        /\ UNCHANGED <<clock, handler, delivered, recorded>>
        /\ interrupted \subseteq interrupted'
        /\ \A s \in Streams \ interrupted' : ~(handler[s].n > 0)
    BY <1>6 DEF Reconfigure, Started
  <2>2. Numbered' /\ Timely'
    BY <2>1 DEF SInv, Numbered, Timely, HasInterceptedUsage
  <2>3. \A s \in Streams \ interrupted' : handler[s].pc = "idle" /\ delivered[s] = {}
    <3> SUFFICES ASSUME NEW s \in Streams \ interrupted'
                 PROVE  handler[s].pc = "idle" /\ delivered[s] = {}
      OBVIOUS
    <3>1. handler[s].n = 0
      BY <2>1 DEF SInv, TypeOK, Handler
    <3>2. \A n \in delivered[s] : n \in 1 .. MaxChunks /\ n <= 0
      BY <3>1 DEF SInv, TypeOK, Numbered
    <3>3. handler[s].pc = "idle"
      BY <3>1 DEF SInv, Numbered
    <3> QED
      BY <3>2, <3>3
  <2>4. Accounted'
    BY <2>1, <2>3 DEF Accounted, Kept, Regular
  <2>5. RecordedWhole' /\ TerminalCounted'
    BY <2>1, <2>3 DEF SInv, RecordedWhole, TerminalCounted, HasTerminalStreamUsage, Joins
  <2> QED
    BY <1>0, <2>2, <2>4, <2>5 DEF SInv
<1>7. ASSUME NEW s \in Streams, ObserveFails(s) PROVE SInv'
  BY <1>0, <1>7, ObserveFailsKeeps
<1> QED
  BY <1>1, <1>2, <1>3, <1>4, <1>5, <1>6, <1>7 DEF Next

LEMMA StreamInvariant == Spec => []SInv
BY StreamInit, StreamStep, PTL DEF Spec

\* The clock, the map, the handlers and the events stay within their types
\* (TypeOK).
THEOREM TypeCorrect == Spec => []TypeOK
<1>1. SInv => TypeOK
  BY DEF SInv
<1> QED
  BY <1>1, StreamInvariant, PTL

\* No chunk in which a handler found usage is missing from what is recorded for
\* an uninterrupted stream whose chunks can be joined, whatever other streams'
\* handlers expire meanwhile and whichever handlers fail (runtime.go:184-239).
THEOREM StreamsRecordedWhole == Spec => []RecordedWhole
<1>1. SInv => RecordedWhole
  BY DEF SInv
<1> QED
  BY <1>1, StreamInvariant, PTL

\* The terminal chunk of such a stream leaves an event behind if any usage was
\* found in the stream (runtime.go:221-238, 265-268).
THEOREM TerminalChunkRecords == Spec => []TerminalCounted
<1>1. SInv => TerminalCounted
  BY DEF SInv
<1> QED
  BY <1>1, StreamInvariant, PTL
=============================================================================
