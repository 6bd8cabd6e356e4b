---------------------------- MODULE UsageConvert ----------------------------
(***************************************************************************)
(* From what an upstream reports to what is added to monthly_usage: the    *)
(* operators of internal/usage and the breakdown RecordUsage makes.        *)
(*                                                                         *)
(* A JSON document is kept as the usage objects found in it, by the place  *)
(* they stand in, and the places that carry a finish reason.  A body is a  *)
(* sequence of documents, each on a line of its own that starts with       *)
(* "data:" (framed) or not; lines that carry no document are left out.     *)
(***************************************************************************)
EXTENDS Integers, Sequences, FiniteSetsExt, Functions

Counters == {"input", "prompt", "output", "completion", "total", "cacheRead",
             "cacheCreation", "inputCached", "promptCached", "outputReasoning",
             "completionReasoning"}

NoUsage == [c \in Counters |-> 0]

\* Where a document may hold usage, in either spelling of usageMetadata.
Places == {"usage", "message", "response", "metadata", "responseMetadata"}

\* json.Valid holds of a body that is one bare document; otherwise only
\* framed lines are looked at.
responseJSONCandidates(body) ==
    IF Len(body) = 1 /\ ~body[1].framed THEN {body[1]}
    ELSE {body[i] : i \in {j \in DOMAIN body : body[j].framed}}

\* The usage objects that are not all zeros (hasResponseUsage).
Reported(body) ==
    (UNION {Range(doc.at) : doc \in responseJSONCandidates(body)}) \ {NoUsage}

HasInterceptedUsage(body) == Reported(body) # {}

\* Mutated form: a report of zeros does not end the stream.
HasTerminalStreamUsage_Mutant(body) ==
    \E doc \in responseJSONCandidates(body) :
        \E place \in DOMAIN doc.at :
            doc.at[place] # NoUsage /\ (place \in {"usage", "response"} \/ doc.finish # {})

\* A usage object ends the stream, whatever it says; Gemini's metadata only
\* beside a finish reason.
HasTerminalStreamUsage(body) ==
    \E doc \in responseJSONCandidates(body) :
        \/ {"usage", "response"} \cap DOMAIN doc.at # {}
        \/ "metadata" \in DOMAIN doc.at /\ "top" \in doc.finish
        \/ "responseMetadata" \in DOMAIN doc.at /\ "response" \in doc.finish

\* Counter by counter the largest report: neither order nor repetition matters.
mergeResponseUsage(reports) ==
    [c \in Counters |-> Max({r[c] : r \in reports} \cup {0})]

OrElse(a, b) == IF a = 0 THEN b ELSE a

\* The total when the upstream sends none.
SumOf(e) == e.input + e.output + e.reasoning + e.cacheRead + e.cacheCreation

\* The event made of a body that reports usage.
FromInterceptedResponse(body) ==
    LET u == mergeResponseUsage(Reported(body))
        e == [input         |-> OrElse(u["input"], u["prompt"]),
              output        |-> OrElse(u["output"], u["completion"]),
              cached        |-> OrElse(u["inputCached"], u["promptCached"]),
              reasoning     |-> OrElse(u["outputReasoning"], u["completionReasoning"]),
              cacheRead     |-> u["cacheRead"],
              cacheCreation |-> u["cacheCreation"],
              total         |-> u["total"]]
    IN  [e EXCEPT !.total = OrElse(@, SumOf(e))]

\* The event made of the host's usage record, whose detail has its fields.
FromCPA(detail) == [detail EXCEPT !.total = OrElse(@, SumOf(detail))]

\* Mutated form: cached prompt tokens stay in the input column as well.
Columns_Mutant(e) ==
    [input |-> e.input, output |-> e.output,
     cacheRead |-> IF e.cacheRead = 0 /\ e.cacheCreation = 0 THEN e.cached ELSE e.cacheRead,
     cacheWrite |-> e.cacheCreation, total |-> OrElse(e.total, SumOf(e))]

\* RecordUsage: what the upsert of monthly_usage adds.  Cached tokens that
\* are part of the input move to a column of their own.
Columns(e) ==
    LET style == e.cacheRead = 0 /\ e.cacheCreation = 0
        read  == IF style THEN e.cached ELSE e.cacheRead
    IN  [input      |-> IF style /\ e.input >= read THEN e.input - read ELSE e.input,
         output     |-> e.output,
         cacheRead  |-> read,
         cacheWrite |-> e.cacheCreation,
         total      |-> OrElse(e.total, SumOf(e))]
=============================================================================
