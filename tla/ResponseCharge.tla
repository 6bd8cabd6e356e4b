--------------------------- MODULE ResponseCharge ---------------------------
(***************************************************************************)
(* One request from its credentials to the columns it is charged to.  The  *)
(* authentication finds a key among the accepted sources; the upstream     *)
(* answers in the format of its provider, as one body or in chunks; the    *)
(* response interceptors find the key again, in the headers alone, and     *)
(* turn what the response reports into an event; the host's usage callback *)
(* brings its own record of the same response, under the principal.  The   *)
(* plugin may be reconfigured at any time.                                 *)
(*                                                                         *)
(* The response is accounted for within a day and on one Store (UsageLedger*)
(* and StreamUsage are about the rest).                                    *)
(***************************************************************************)
EXTENDS KeyExtraction, UsageConvert

CONSTANTS
    RawConfigs,    \* the YAML the host may pass to configure
    Requests,      \* the key at each place of the requests
    Responses      \* the responses of the upstreams

\* A YAML string: its name, and whether it is spelled oddly.
Spelling == [name : STRING, odd : BOOLEAN]

ASSUME ResponseChargeAssumption ==
    /\ RawConfigs \subseteq
         [sources : {Null} \cup Seq(Spelling), access : {Null} \cup Spelling,
          days : {Null} \cup Int, dottedDays : {Null} \cup Int,
          period : {Null} \cup Spelling, metric : {Null} \cup Spelling]
    /\ \E raw \in RawConfigs : Load(raw) # Null
    /\ Null \notin Responses

\* What is assumed of upstreams: only Claude writes its cache and tells no
\* reasoning, OpenAI's reasoning is part of its output, only chat upstreams
\* repeat, output does not shrink, and some tokens are used.
ASSUME UpstreamsReport ==
    \A r \in Responses :
        /\ r \in [format : {"chat", "responses", "claude", "gemini", "gemini_cli"},
                  fresh : Nat, read : Nat, write : Nat, output : Nat,
                  reasoning : Nat, opening : Nat, repeats : BOOLEAN,
                  sent : {"whole", "framed", "bare", "batched"}, tagged : BOOLEAN]
        /\ r.write > 0 => r.format = "claude"
        /\ r.reasoning > 0 => r.format # "claude"
        /\ r.format \in {"chat", "responses"} => r.reasoning <= r.output
        /\ r.repeats => r.format = "chat"
        /\ r.opening <= r.output
        /\ r.fresh + r.read + r.write + r.output + r.reasoning > 0

-----------------------------------------------------------------------------
(* What upstreams send (external).  A response tells the tokens it used:   *)
(* fresh, cache reads, cache writes and output, some of it for reasoning;  *)
(* in Claude's first event output stands at `opening`.                     *)

OpenAIChat(r) ==
    [NoUsage EXCEPT !["prompt"] = r.fresh + r.read, !["promptCached"] = r.read,
                    !["completion"] = r.output,
                    !["completionReasoning"] = r.reasoning,
                    !["total"] = r.fresh + r.read + r.output]

OpenAIResponses(r) ==
    [NoUsage EXCEPT !["input"] = r.fresh + r.read, !["inputCached"] = r.read,
                    !["output"] = r.output, !["outputReasoning"] = r.reasoning,
                    !["total"] = r.fresh + r.read + r.output]

Claude(r, output) ==
    [NoUsage EXCEPT !["input"] = r.fresh, !["cacheRead"] = r.read,
                    !["cacheCreation"] = r.write, !["output"] = output]

\* geminiResponseUsage: candidates do not include thoughts.
Gemini(r, output) ==
    [NoUsage EXCEPT !["input"] = r.fresh + r.read, !["inputCached"] = r.read,
                    !["output"] = output, !["outputReasoning"] = r.reasoning,
                    !["total"] = r.fresh + r.read + r.reasoning + output]

Doc(framed, at, finish) == [framed |-> framed, at |-> at, finish |-> finish]

At(place, usage) == [p \in {place} |-> usage]

\* The documents of a stream, as <<where usage stands, finish reasons>>.
Events(r) ==
    CASE r.format = "chat" ->
            IF r.repeats
            THEN <<<<At("usage", OpenAIChat([r EXCEPT !.output = r.opening])), {}>>,
                   <<At("usage", OpenAIChat(r)), {}>>>>
            ELSE <<<<<<>>, {}>>, <<At("usage", OpenAIChat(r)), {}>>>>
      [] r.format = "responses" ->
            <<<<<<>>, {}>>, <<At("response", OpenAIResponses(r)), {}>>>>
      [] r.format = "claude" ->
            <<<<At("message", Claude(r, r.opening)), {}>>,
              <<At("usage", [NoUsage EXCEPT !["output"] = r.output]), {}>>>>
      [] r.format = "gemini" ->
            <<<<At("metadata", Gemini(r, r.opening)), {}>>,
              <<At("metadata", Gemini(r, r.output)), {"top"}>>>>
      [] r.format = "gemini_cli" ->
            <<<<At("responseMetadata", Gemini(r, r.opening)), {}>>,
              <<At("responseMetadata", Gemini(r, r.output)), {"response"}>>>>

WholeBody(r) ==
    Doc(FALSE,
        CASE r.format = "chat" -> At("usage", OpenAIChat(r))
          [] r.format = "responses" -> At("usage", OpenAIResponses(r))
          [] r.format = "claude" -> At("usage", Claude(r, r.output))
          [] r.format = "gemini" -> At("metadata", Gemini(r, r.output))
          [] r.format = "gemini_cli" -> At("responseMetadata", Gemini(r, r.output)),
        {"top"})

\* The bodies the interceptors are called with: the whole response, a chunk
\* for each event, with or without its "data:", or one chunk for all.
Bodies(r) ==
    LET docs(framed) == [i \in 1 .. 2 |-> Doc(framed, Events(r)[i][1], Events(r)[i][2])]
    IN  CASE r.sent = "whole"   -> <<<<WholeBody(r)>>>>
          [] r.sent = "framed"  -> <<<<docs(TRUE)[1]>>, <<docs(TRUE)[2]>>>>
          [] r.sent = "bare"    -> <<<<docs(FALSE)[1]>>, <<docs(FALSE)[2]>>>>
          [] r.sent = "batched" -> <<docs(TRUE)>>

\* pluginapi.UsageDetail of the host's record: the same report, read by the
\* host itself.
Detail(r) ==
    LET claude == r.format = "claude"
        gemini == r.format \in {"gemini", "gemini_cli"}
    IN  [input         |-> IF claude THEN r.fresh ELSE r.fresh + r.read,
         output        |-> r.output,
         cached        |-> IF claude THEN 0 ELSE r.read,
         reasoning     |-> IF claude THEN 0 ELSE r.reasoning,
         cacheRead     |-> IF claude THEN r.read ELSE 0,
         cacheCreation |-> IF claude THEN r.write ELSE 0,
         total         |-> IF claude THEN 0
                           ELSE r.fresh + r.read + r.output
                                  + (IF gemini THEN r.reasoning ELSE 0)]

-----------------------------------------------------------------------------
VARIABLES
    cfg,           \* Runtime.cfg
    call,          \* the request: its keys, principal and response
    streamUsage,   \* the chunks kept for the response, joined
    remembered,    \* usage_events: the keys it was recorded under
    charges,       \* what was added to monthly_usage, in order
    calm           \* history: what no reconfiguration or interruption touched

vars == <<cfg, call, streamUsage, remembered, charges, calm>>

KeyValues == UNION {{request[s] : s \in Sources} : request \in Requests}

Config == {Load(raw) : raw \in RawConfigs} \ {Null}

Charge == [key : KeyValues,
           columns : [{"input", "output", "cacheRead", "cacheWrite", "total"} -> Nat]]

Call == [pc        : {"idle", "refused", "upstream", "response", "done"},
         request   : Requests,
         principal : KeyValues \cup {Null},
         response  : Responses \cup {Null},
         chunk     : 1 .. 2,              \* the body that comes next
         callback  : BOOLEAN]             \* it has been delivered

TypeOK ==
    /\ cfg \in Config
    /\ call \in Call
    /\ IF call.response = Null THEN streamUsage = <<>>
       ELSE streamUsage \in Seq(UNION {Range(b) : b \in Range(Bodies(call.response))})
    /\ remembered \subseteq KeyValues
    /\ charges \in Seq(Charge)
    /\ calm \subseteq {"sources", "response"}

Init ==
    /\ cfg \in Config
    /\ call \in [pc : {"idle"}, request : Requests, principal : {Null},
                 response : {Null}, chunk : {1}, callback : {FALSE}]
    /\ streamUsage = <<>>
    /\ remembered = {}
    /\ charges = <<>>
    /\ calm = {"sources", "response"}

-----------------------------------------------------------------------------
\* configure: an error leaves everything as it was.
Configure ==
    \E raw \in RawConfigs :
        /\ Load(raw) # Null
        /\ cfg' = Load(raw)
        /\ streamUsage' = <<>>
        /\ calm' = IF call.pc = "idle" THEN calm
                   ELSE calm \ ({"response"} \cup
                          (IF cfg'.sources # cfg.sources THEN {"sources"} ELSE {}))
        /\ UNCHANGED <<call, remembered, charges>>

\* frontendAuth: the principal is the key that was found, if it may pass.
Authenticate ==
    /\ call.pc = "idle"
    /\ LET key == ExtractAPIKey(call.request, cfg.sources)
       IN  \/ /\ key # Null
              /\ call' = [call EXCEPT !.pc = "upstream", !.principal = key]
           \/ call' = [call EXCEPT !.pc = "refused"]
    /\ UNCHANGED <<cfg, streamUsage, remembered, charges, calm>>

Answer ==
    /\ call.pc = "upstream"
    /\ \E r \in Responses : call' = [call EXCEPT !.pc = "response", !.response = r]
    /\ UNCHANGED <<cfg, streamUsage, remembered, charges, calm>>

\* RecordUsage, unless the request is remembered under this key, then
\* PruneUsageEvents: a retention of no days forgets it at once.
Record(key, event) ==
    LET tagged == call.response.tagged
        known == tagged /\ key \in remembered
    IN  /\ charges' = IF known THEN charges
                      ELSE Append(charges, [key |-> key, columns |-> Columns(event)])
        /\ remembered' = IF cfg.retention <= 0 THEN {}
                         ELSE IF tagged THEN remembered \cup {key} ELSE remembered

\* recordInterceptedUsage.
recordInterceptedUsage(body) ==
    LET key == ExtractAPIKey(WithoutQuery(call.request), cfg.sources)
    IN  IF call.response.tagged /\ key # Null /\ HasInterceptedUsage(body)
        THEN Record(key, FromInterceptedResponse(body))
        ELSE UNCHANGED <<remembered, charges>>

\* The next body of the response, and whether it is the last.
Body == Bodies(call.response)[call.chunk]

PassOn ==
    call' = IF call.chunk = Len(Bodies(call.response))
            THEN [call EXCEPT !.pc = "done"] ELSE [call EXCEPT !.chunk = @ + 1]

interceptResponse ==
    /\ call.pc = "response"
    /\ call.response.sent = "whole"
    /\ recordInterceptedUsage(Body)
    /\ PassOn
    /\ UNCHANGED <<cfg, streamUsage, calm>>

\* The kept chunks, joined by line feeds, make one body: they are kept as one.
interceptStreamChunk ==
    LET known == /\ call.response.tagged
                 /\ ExtractAPIKey(WithoutQuery(call.request), cfg.sources) # Null
        kept == IF HasInterceptedUsage(Body) THEN streamUsage \o Body ELSE streamUsage
        terminal == HasTerminalStreamUsage(Body)
    IN  /\ call.pc = "response"
        /\ call.response.sent # "whole"
        /\ streamUsage' = IF ~known THEN streamUsage
                          ELSE IF terminal THEN <<>> ELSE kept
        /\ IF known /\ terminal /\ kept # <<>>
           THEN recordInterceptedUsage(kept)
           ELSE UNCHANGED <<remembered, charges>>
        /\ PassOn
        /\ UNCHANGED <<cfg, calm>>

\* The client or the upstream hangs up.
Interrupt ==
    /\ call.pc = "response"
    /\ call' = [call EXCEPT !.pc = "done"]
    /\ calm' = calm \ {"response"}
    /\ UNCHANGED <<cfg, streamUsage, remembered, charges>>

\* handleUsage, delivered at most once, during the response or after it.
handleUsage ==
    /\ call.pc \in {"response", "done"}
    /\ ~call.callback
    /\ call' = [call EXCEPT !.callback = TRUE]
    /\ Record(call.principal, FromCPA(Detail(call.response)))
    /\ UNCHANGED <<cfg, streamUsage, calm>>

Next ==
    \/ Configure \/ Authenticate \/ Answer \/ interceptResponse
    \/ interceptStreamChunk \/ Interrupt \/ handleUsage

Spec == Init /\ [][Next]_vars

-----------------------------------------------------------------------------
(* Properties.                                                             *)

\* "so successful requests can always be attributed to the correct downstream
\* key": as long as the accepted sources stay the same, the interceptors and
\* the authentication find one key, whatever other keys the request carries
\* and however the sources are spelled (config.go:239, runtime.go:261).
SameKeyAttributed ==
    "sources" \in calm => \A i \in DOMAIN charges : charges[i].key = call.principal

\* "Records are deduplicated by downstream key and upstream request ID if the
\* queued callback also arrives": whatever retention is configured, in either
\* spelling, the two deliveries and repeated reports charge a request once.
ChargedOnce == "sources" \in calm => Len(charges) <= 1

\* What the response says it used, by column.  Gemini's thoughts count in the
\* total and in no other column.
Used(r) ==
    LET gemini == r.format \in {"gemini", "gemini_cli"}
    IN  [input |-> r.fresh, output |-> r.output, cacheRead |-> r.read,
         cacheWrite |-> r.write,
         total |-> r.fresh + r.read + r.write + r.output
                     + (IF gemini THEN r.reasoning ELSE 0)]

\* Every provider's format is charged by what it means, to the same columns
\* whichever delivery is counted; an upstream that repeats its report in every
\* chunk is charged at most what it used (convert.go:72, store.go:463,
\* runtime.go:225).
ChargedAsUsed ==
    "response" \in calm =>
        \A i \in DOMAIN charges :
            LET used == Used(call.response)
                c == charges[i].columns
            IN  /\ \A column \in DOMAIN used : c[column] <= used[column]
                /\ ~call.response.repeats => c = used

\* "Successful response accounting still works on stock CPA": a response with
\* a request ID that ran to its end is charged by its interceptors alone, also
\* when its last report is all zeros.  Left out are streams in which several
\* bare documents report usage: joined they are neither a document nor lines
\* with "data:" (runtime.go:235, convert.go:255).
ChargedWithoutCallback ==
    LET r == call.response
        reports == {i \in 1 .. 2 : HasInterceptedUsage(<<Doc(TRUE, Events(r)[i][1], {})>>)}
    IN  call.pc = "done" /\ {"sources", "response"} \subseteq calm /\ r.tagged
          /\ ~(r.sent = "bare" /\ ~r.repeats /\ Cardinality(reports) > 1)
            => charges # <<>>
=============================================================================
