---------------------------- MODULE StreamUsage ----------------------------
(***************************************************************************)
(* The stream-chunk interceptor of the plugin runtime.  The upstream       *)
(* reports the usage of a streamed response in pieces; the interceptor     *)
(* keeps the chunks that carry some in Runtime.streamUsage, under a key    *)
(* made of the request ID and the downstream key, until a terminal chunk   *)
(* lets it record them all at once.  The chunks of one stream are handled  *)
(* one after another, those of different streams concurrently.             *)
(*                                                                         *)
(* The map is shared by all handlers under streamMu, but a handler reads   *)
(* the clock before it gets there, and any handler throws away the entries *)
(* of other streams that have been silent for longer than the time to      *)
(* live.  Reconfiguring the plugin empties the map.                        *)
(***************************************************************************)
EXTENDS Integers

CONSTANTS
    Streams,       \* streamed responses with a request ID and a key
    Bare,          \* those sent as bare JSON documents, without "data:"
    MaxChunks,     \* bound on the chunks of one stream
    TTL,           \* interceptedStreamStateTTL
    MaxTime,       \* bound on the clock
    MaxLag,        \* bound on the time from a handler's start to its lock
    Null

ASSUME StreamUsageAssumption ==
    /\ Bare \subseteq Streams
    /\ MaxChunks \in Nat
    /\ TTL \in Nat
    /\ MaxTime \in Nat
    /\ MaxLag \in Nat
    /\ Null \notin Nat
    /\ Null \notin [chunks : SUBSET Nat, updatedAt : Nat]

\* What usageconv finds in a chunk: nothing; usage, as in message_start;
\* usage that ends the stream; a usage object that ends it with all zeros.
Kinds == {"plain", "opening", "final", "zero"}

HasInterceptedUsage(kind) == kind \in {"opening", "final"}

HasTerminalStreamUsage(kind) == kind \in {"final", "zero"}

VARIABLES
    clock,         \* time.Now()
    streamUsage,   \* Runtime.streamUsage: the chunks kept, by number
    handler,       \* the handler of each stream's latest chunk
    delivered,     \* history: the chunks of each stream whose handler looked
                   \* at them and found usage
    interrupted,   \* history: streams that were silent for long, or lived
                   \* through a reconfiguration
    recorded       \* the usage events of streams: which chunks they are from

vars == <<clock, streamUsage, handler, delivered, interrupted, recorded>>

Entry == [chunks : SUBSET (1 .. MaxChunks), updatedAt : Nat]

Handler ==
    [pc     : {"idle", "lock", "record"},
     n      : 0 .. MaxChunks,            \* the number of the chunk
     kind   : Kinds,
     now    : Nat,                       \* time.Now() of the handler
     chunks : SUBSET (1 .. MaxChunks)]   \* state.chunks, after the unlock

TypeOK ==
    /\ clock \in Nat
    /\ streamUsage \in [Streams -> Entry \cup {Null}]
    /\ handler \in [Streams -> Handler]
    /\ delivered \in [Streams -> SUBSET (1 .. MaxChunks)]
    /\ interrupted \subseteq Streams
    /\ recorded \subseteq [stream : Streams, chunks : SUBSET (1 .. MaxChunks),
                           last : 1 .. MaxChunks]

Init ==
    /\ clock = 0
    /\ streamUsage = [s \in Streams |-> Null]
    /\ handler = [s \in Streams |-> [pc |-> "idle", n |-> 0, kind |-> "plain",
                                     now |-> 0, chunks |-> {}]]
    /\ delivered = [s \in Streams |-> {}]
    /\ interrupted = {}
    /\ recorded = {}

-----------------------------------------------------------------------------
Tick ==
    /\ clock < MaxTime
    /\ \A s \in Streams :
          handler[s].pc = "lock" => clock - handler[s].now < MaxLag
    /\ clock' = clock + 1
    /\ UNCHANGED <<streamUsage, handler, delivered, interrupted, recorded>>

Started(s) == handler[s].n > 0

\* A chunk arrives; the handler reads the clock, observes the weekly boundary
\* (see QuotaCycle), looks for usage in the chunk and waits for streamMu.
Enter(s) ==
    /\ handler[s].pc = "idle"
    /\ handler[s].n < MaxChunks
    /\ \E kind \in Kinds :
         /\ handler' = [handler EXCEPT ![s] =
                [pc |-> "lock", n |-> @.n + 1, kind |-> kind,
                 now |-> clock, chunks |-> {}]]
         /\ delivered' = IF HasInterceptedUsage(kind)
                         THEN [delivered EXCEPT ![s] = @ \cup {handler[s].n + 1}]
                         ELSE delivered
    /\ interrupted' = IF Started(s) /\ clock - handler[s].now > TTL - MaxLag
                      THEN interrupted \cup {s} ELSE interrupted
    /\ UNCHANGED <<clock, streamUsage, recorded>>

\* The Store returns an error when the boundary is observed: the handler is
\* gone before it has looked at its chunk.
ObserveFails(s) ==
    /\ handler[s].pc = "idle"
    /\ handler[s].n < MaxChunks
    /\ handler' = [handler EXCEPT ![s] =
            [@ EXCEPT !.n = handler[s].n + 1, !.kind = "plain",
                      !.now = IF Started(s) THEN handler[s].now ELSE clock]]
    /\ UNCHANGED <<clock, streamUsage, delivered, interrupted, recorded>>

Expired(s, now) == streamUsage[s] # Null /\ now - streamUsage[s].updatedAt > TTL

\* Mutated form: a chunk without usage does not keep its stream alive.
Updated_Mutant(s) ==
    LET h == handler[s]
        old == IF streamUsage[s] = Null THEN {} ELSE streamUsage[s].chunks
    IN  IF HasInterceptedUsage(h.kind)
        THEN [chunks |-> old \cup {h.n}, updatedAt |-> h.now]
        ELSE streamUsage[s]

\* Mutated form: chunks are numbered from zero.
Updated_NumberMutant(s) ==
    LET h == handler[s]
        old == IF streamUsage[s] = Null THEN {} ELSE streamUsage[s].chunks
    IN  IF HasInterceptedUsage(h.kind)
        THEN [chunks |-> old \cup {h.n - 1}, updatedAt |-> h.now]
        ELSE streamUsage[s]

\* The stream's entry with this chunk.
Updated(s) ==
    LET h == handler[s]
        old == IF streamUsage[s] = Null THEN {} ELSE streamUsage[s].chunks
    IN  IF HasInterceptedUsage(h.kind)
        THEN [chunks |-> old \cup {h.n}, updatedAt |-> h.now]
        ELSE IF streamUsage[s] = Null THEN Null
             ELSE [streamUsage[s] EXCEPT !.updatedAt = h.now]

\* Mutated form: the terminal chunk is taken for one that leaves no usage.
ToRecord_Mutant(s) == streamUsage[s] # Null /\ HasTerminalStreamUsage(handler[s].kind)

\* The chunk is terminal and the stream has reported usage.
ToRecord(s) == HasTerminalStreamUsage(handler[s].kind) /\ Updated(s) # Null

\* The section under streamMu: expire the others, keep this chunk, and take
\* the whole entry out if the chunk is terminal.
Section(s) ==
    /\ handler[s].pc = "lock"
    /\ streamUsage' =
         [t \in Streams |->
             IF t = s
             THEN IF HasTerminalStreamUsage(handler[s].kind) THEN Null ELSE Updated(s)
             ELSE IF Expired(t, handler[s].now) THEN Null ELSE streamUsage[t]]
    /\ handler' =
         IF ToRecord(s)
         THEN [handler EXCEPT ![s].pc = "record", ![s].chunks = Updated(s).chunks]
         ELSE [handler EXCEPT ![s].pc = "idle"]
    /\ UNCHANGED <<clock, delivered, interrupted, recorded>>

\* The chunks joined by line feeds parse: several bare documents are neither
\* one document nor lines of "data:".
Joins(s, chunks) == s \in Bare => \A m, n \in chunks : m = n

\* recordInterceptedUsage on the joined chunks, which does nothing if they do
\* not parse; RecordUsage finds an earlier event of the same request.
Record(s) ==
    /\ handler[s].pc = "record"
    /\ recorded' = IF \/ ~Joins(s, handler[s].chunks)
                      \/ \E e \in recorded : e.stream = s
                   THEN recorded
                   ELSE recorded \cup {[stream |-> s, chunks |-> handler[s].chunks,
                                        last |-> handler[s].n]}
    /\ handler' = [handler EXCEPT ![s].pc = "idle", ![s].chunks = {}]
    /\ UNCHANGED <<clock, streamUsage, delivered, interrupted>>

\* The Store returns an error: the chunks are already out of the map.
RecordFails(s) ==
    /\ handler[s].pc = "record"
    /\ handler' = [handler EXCEPT ![s].pc = "idle", ![s].chunks = {}]
    /\ interrupted' = interrupted \cup {s}
    /\ UNCHANGED <<clock, streamUsage, delivered, recorded>>

\* configure, which a handler that has its snapshot does not notice.
Reconfigure ==
    /\ streamUsage' = [s \in Streams |-> Null]
    /\ interrupted' = interrupted \cup {s \in Streams : Started(s)}
    /\ UNCHANGED <<clock, handler, delivered, recorded>>

Next ==
    \/ Tick
    \/ \E s \in Streams :
         Enter(s) \/ ObserveFails(s) \/ Section(s) \/ Record(s) \/ RecordFails(s)
    \/ Reconfigure

Spec == Init /\ [][Next]_vars

-----------------------------------------------------------------------------
(* Properties.                                                             *)

\* The usage recorded for a stream is made of every chunk up to the terminal
\* one in which a handler found some, whichever other handlers failed, unless
\* the plugin was reconfigured, recording failed, the stream paused for longer
\* than the time to live less the time a handler may take to its lock, or
\* several bare documents report (runtime.go:184-239).
RecordedWhole ==
    \A e \in recorded :
        LET reports == {n \in delivered[e.stream] : n <= e.last}
        IN  \/ e.stream \in interrupted
            \/ ~Joins(e.stream, reports)
            \/ e.chunks = reports

\* And it is recorded: once the terminal chunk of such a stream has been
\* handled, whatever usage was found in the stream is in an event.
TerminalCounted ==
    \A s \in Streams \ interrupted :
        (/\ handler[s].pc = "idle"
         /\ HasTerminalStreamUsage(handler[s].kind)
         /\ delivered[s] # {}
         /\ Joins(s, delivered[s]))
        => \E e \in recorded : e.stream = s
=============================================================================
