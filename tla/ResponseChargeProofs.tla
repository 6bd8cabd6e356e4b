------------------------ MODULE ResponseChargeProofs ------------------------
(***************************************************************************)
(* What a request is charged, for every configuration, request and         *)
(* response: the key is the one that was authenticated, the two deliveries *)
(* charge it once, and by what the response says it used.                  *)
(*                                                                         *)
(* The first half is about the operators the model is made of: what Load   *)
(* lets pass, that an accepted list finds the same key with the query and  *)
(* without it, that merged reports of a response are its whole report in   *)
(* every format, and that the interceptors' event is then the host's.  The *)
(* second half is the invariant: how far the request has come (Control),   *)
(* what it was charged (Books), and what is kept of its stream (Stream).   *)
(***************************************************************************)
EXTENDS ResponseCharge, FiniteSetTheorems, SequenceTheorems, WellFoundedInduction,
        TLAPS

-----------------------------------------------------------------------------
(* Configurations and keys. *)

\* A configuration that Load accepted.
Loaded(c) ==
    /\ DOMAIN c.sources \subseteq Nat
    /\ \A source \in Range(c.sources) : ~QuerySource(source)
    /\ c.sources # <<>>
    /\ c.retention \in Int /\ c.retention > 0

\* Load returns such configurations only.
LEMMA LoadIsLoaded ==
    ASSUME NEW c \in Config
    PROVE  Loaded(c)
<1>1. PICK raw \in RawConfigs : c = Load(raw) /\ Load(raw) # Null
  BY DEF Config
<1>. DEFINE sources == Given(raw.sources, defaultAcceptedSources)
            access  == Given(raw.access, Word("deny"))
            period  == Normal(Given(raw.period, Word("monthly")))
            metric  == Normal(Given(raw.metric, Word("output_tokens")))
            loaded == [sources   |-> IF sources = <<>> THEN defaultAcceptedSources ELSE sources,
                       access    |-> IF access = Word("") THEN "deny" ELSE Normal(access),
                       retention |-> Retention(raw),
                       period    |-> IF period = "" THEN "monthly" ELSE period,
                       metric    |-> IF metric = "" THEN "output_tokens" ELSE metric]
<1>2. c = loaded /\ Valid(loaded)
  <2>1. Load(raw) = IF Valid(loaded) THEN loaded ELSE Null
    BY DEF Load
  <2>. QED BY <1>1, <2>1
<1>3. c.sources = IF sources = <<>> THEN defaultAcceptedSources ELSE sources
  BY <1>2
<1>4. c.retention = Retention(raw)
  BY <1>2
<1>. HIDE DEF loaded
<1>5. DOMAIN defaultAcceptedSources \subseteq Nat /\ defaultAcceptedSources # <<>>
  BY DEF defaultAcceptedSources
<1>6. raw.sources \in {Null} \cup Seq(Spelling)
  BY ResponseChargeAssumption
<1>7. DOMAIN c.sources \subseteq Nat /\ c.sources # <<>>
  BY <1>3, <1>5, <1>6 DEF Given
<1>8. \A source \in Range(c.sources) : ~QuerySource(source)
  BY <1>2 DEF Valid
<1>9. c.retention \in Int /\ c.retention > 0
  <2>1. Days(raw) \in Int
    BY ResponseChargeAssumption DEF Days, Given, DefaultRetentionDays
  <2>. QED BY <1>4, <2>1 DEF Retention, DefaultRetentionDays
<1>. QED BY <1>7, <1>8, <1>9 DEF Loaded

\* The first of several positions is one of them.
LEMMA Smallest ==
    ASSUME NEW S \in SUBSET Nat, S # {}
    PROVE  Min(S) \in S
<1>1. PICK m \in S : \A y \in S : <<y, m>> \notin OpToRel(<, Nat)
  BY NatLessThanWellFounded, WFMin
<1>2. \A y \in S : m <= y
  <2>. TAKE y \in S
  <2>1. ~(y < m)
    BY <1>1 DEF OpToRel
  <2>. QED BY <2>1
<1>. QED BY <1>2 DEF Min

\* The key that is found is one of the request's.
LEMMA KeyIsThere ==
    ASSUME NEW request \in Requests, NEW c \in Config
    PROVE  ExtractAPIKey(request, c.sources) \in KeyValues \cup {Null}
<1>. DEFINE F == Found(request, c.sources)
<1>1. CASE F = {}
  BY <1>1 DEF ExtractAPIKey
<1>2. CASE F # {}
  <2>1. Listed(c.sources) = c.sources /\ DOMAIN c.sources \subseteq Nat
    BY LoadIsLoaded DEF Loaded, Listed
  <2>2. F \in SUBSET Nat
    BY <2>1 DEF Found
  <2>3. Min(F) \in F
    BY <1>2, <2>2, Smallest
  <2>. DEFINE source == Normal(Listed(c.sources)[Min(F)])
  <2>4. source \in Sources
    BY <2>3 DEF Found
  <2>5. ExtractAPIKey(request, c.sources) = request[source]
    BY <1>2 DEF ExtractAPIKey
  <2>. QED BY <2>4, <2>5 DEF KeyValues
<1>. QED BY <1>1, <1>2

\* The interceptors, which see no query, find the key that the authentication
\* found: no list that Load accepts has a query source.
LEMMA SameKeyFound ==
    ASSUME NEW request \in Requests, NEW c \in Config
    PROVE  ExtractAPIKey(WithoutQuery(request), c.sources) = ExtractAPIKey(request, c.sources)
<1>1. Listed(c.sources) = c.sources /\ DOMAIN c.sources \subseteq Nat
  BY LoadIsLoaded DEF Loaded, Listed
<1>2. \A i \in DOMAIN c.sources : Normal(c.sources[i]) \notin QuerySources
  BY LoadIsLoaded DEF Loaded, Range, QuerySource, QuerySources
<1>3. \A i \in DOMAIN c.sources :
        Normal(c.sources[i]) \in Sources =>
          WithoutQuery(request)[Normal(c.sources[i])] = request[Normal(c.sources[i])]
  BY <1>2 DEF WithoutQuery
<1>. DEFINE F == Found(request, c.sources)
<1>4. Found(WithoutQuery(request), c.sources) = F
  BY <1>1, <1>3 DEF Found
<1>5. CASE F = {}
  BY <1>4, <1>5 DEF ExtractAPIKey
<1>6. CASE F # {}
  <2>1. F \in SUBSET Nat /\ F \subseteq DOMAIN c.sources
    BY <1>1 DEF Found
  <2>2. Min(F) \in F
    BY <1>6, <2>1, Smallest
  <2>3. Normal(c.sources[Min(F)]) \in Sources
    BY <2>2, <1>1 DEF Found
  <2>. QED BY <1>1, <1>3, <1>4, <1>6, <2>1, <2>2, <2>3 DEF ExtractAPIKey
<1>. QED BY <1>5, <1>6

-----------------------------------------------------------------------------
(* Reports of usage and what becomes of them. *)

\* Usage as a function of the counters.
Usage == [Counters -> Nat]

\* What upstreams report is usage.
LEMMA UsageIsTyped ==
    ASSUME NEW r \in Responses, NEW output \in Nat
    PROVE  /\ NoUsage \in Usage
           /\ OpenAIChat([r EXCEPT !.output = output]) \in Usage
           /\ OpenAIChat(r) \in Usage
           /\ OpenAIResponses(r) \in Usage
           /\ Claude(r, output) \in Usage
           /\ [NoUsage EXCEPT !["output"] = output] \in Usage
           /\ Gemini(r, output) \in Usage
<1>1. NoUsage \in Usage
  BY DEF NoUsage, Usage
<1>2. \A u \in Usage, c \in Counters, n \in Nat : [u EXCEPT ![c] = n] \in Usage
  BY DEF Usage
<1>3. /\ r.fresh \in Nat /\ r.read \in Nat /\ r.write \in Nat
      /\ r.output \in Nat /\ r.reasoning \in Nat
  BY UpstreamsReport
<1>4. /\ r.fresh + r.read \in Nat
      /\ r.fresh + r.read + r.output \in Nat
      /\ r.fresh + r.read + output \in Nat
      /\ r.fresh + r.read + r.reasoning + output \in Nat
  BY <1>3
<1>5. OpenAIChat(r) \in Usage
  BY <1>1, <1>2, <1>3, <1>4 DEF OpenAIChat, Counters
<1>6. OpenAIResponses(r) \in Usage
  BY <1>1, <1>2, <1>3, <1>4 DEF OpenAIResponses, Counters
<1>7. Claude(r, output) \in Usage
  BY <1>1, <1>2, <1>3, <1>4 DEF Claude, Counters
<1>8. Gemini(r, output) \in Usage
  BY <1>1, <1>2, <1>3, <1>4 DEF Gemini, Counters
<1>9. [NoUsage EXCEPT !["output"] = output] \in Usage
  BY <1>1, <1>2 DEF Counters
<1>10. OpenAIChat([r EXCEPT !.output = output]) \in Usage
  <2>. DEFINE q == [r EXCEPT !.output = output]
  <2>1. q.fresh = r.fresh /\ q.read = r.read /\ q.output = output /\ q.reasoning = r.reasoning
    BY UpstreamsReport
  <2>. HIDE DEF q
  <2>2. OpenAIChat(q) \in Usage
    BY <1>1, <1>2, <1>3, <1>4, <2>1 DEF OpenAIChat, Counters
  <2>. QED BY <2>2 DEF q
<1>. QED BY <1>1, <1>5, <1>6, <1>7, <1>8, <1>9, <1>10

\* The largest of at most two numbers and zero.
LEMMA Largest ==
    ASSUME NEW a \in Nat, NEW b \in Nat, NEW S \in SUBSET {a, b, 0}, 0 \in S
    PROVE  Max(S) \in S /\ \A y \in S : y <= Max(S)
<1>1. \E m \in S : \A y \in S : m >= y
  OBVIOUS
<1>2. Max(S) \in S /\ \A y \in S : Max(S) >= y
  BY <1>1 DEF Max
<1>. QED BY <1>2

\* Merging any of two reports gives usage; merging both gives, counter by
\* counter, the larger one, whether or not reports of zeros are left out.
LEMMA Merged ==
    ASSUME NEW u \in Usage, NEW v \in Usage, NEW R \in SUBSET {u, v}
    PROVE  /\ mergeResponseUsage(R) \in Usage
           /\ R = {u, v} \ {NoUsage} =>
                \A c \in Counters :
                    mergeResponseUsage(R)[c] = IF u[c] >= v[c] THEN u[c] ELSE v[c]
<1>1. ASSUME NEW c \in Counters
      PROVE  LET m == Max({r[c] : r \in R} \cup {0})
             IN  /\ m \in Nat
                 /\ R = {u, v} \ {NoUsage} => m = IF u[c] >= v[c] THEN u[c] ELSE v[c]
  <2>. DEFINE S == {r[c] : r \in R} \cup {0}
  <2>1. u[c] \in Nat /\ v[c] \in Nat
    BY DEF Usage
  <2>2. S \in SUBSET {u[c], v[c], 0} /\ 0 \in S
    OBVIOUS
  <2>3. Max(S) \in S /\ \A y \in S : y <= Max(S)
    BY <2>1, <2>2, Largest
  <2>4. R = {u, v} \ {NoUsage} => (u[c] \in S \/ u[c] = 0) /\ (v[c] \in S \/ v[c] = 0)
    BY DEF NoUsage
  <2>. HIDE DEF S
  <2>5. Max(S) \in {u[c], v[c], 0}
    BY <2>2, <2>3
  <2>6. R = {u, v} \ {NoUsage} => Max(S) = IF u[c] >= v[c] THEN u[c] ELSE v[c]
    BY <2>1, <2>2, <2>3, <2>4, <2>5
  <2>. QED BY <2>1, <2>5, <2>6 DEF S
<1>2. mergeResponseUsage(R) = [c \in Counters |-> Max({r[c] : r \in R} \cup {0})]
  BY DEF mergeResponseUsage
<1>. QED BY <1>1, <1>2 DEF Usage

\* The event made of merged usage.
EventOf(u) ==
    LET e == [input         |-> OrElse(u["input"], u["prompt"]),
              output        |-> OrElse(u["output"], u["completion"]),
              cached        |-> OrElse(u["inputCached"], u["promptCached"]),
              reasoning     |-> OrElse(u["outputReasoning"], u["completionReasoning"]),
              cacheRead     |-> u["cacheRead"],
              cacheCreation |-> u["cacheCreation"],
              total         |-> u["total"]]
    IN  [e EXCEPT !.total = OrElse(@, SumOf(e))]

Event == [input : Nat, output : Nat, cached : Nat, reasoning : Nat,
          cacheRead : Nat, cacheCreation : Nat, total : Nat]

\* An interceptor makes its event of the merged reports of a body.
LEMMA EventOfBody ==
    ASSUME NEW body
    PROVE  FromInterceptedResponse(body) = EventOf(mergeResponseUsage(Reported(body)))
BY DEF FromInterceptedResponse, EventOf

\* What an event made of usage says.
LEMMA EventFields ==
    ASSUME NEW u \in Usage
    PROVE  LET e == EventOf(u)
               sum == OrElse(u["input"], u["prompt"]) + OrElse(u["output"], u["completion"])
                      + OrElse(u["outputReasoning"], u["completionReasoning"])
                      + u["cacheRead"] + u["cacheCreation"]
           IN  /\ e \in Event
               /\ e.input = OrElse(u["input"], u["prompt"])
               /\ e.output = OrElse(u["output"], u["completion"])
               /\ e.cached = OrElse(u["inputCached"], u["promptCached"])
               /\ e.reasoning = OrElse(u["outputReasoning"], u["completionReasoning"])
               /\ e.cacheRead = u["cacheRead"]
               /\ e.cacheCreation = u["cacheCreation"]
               /\ e.total = OrElse(u["total"], sum)
<1>1. \A c \in Counters : u[c] \in Nat
  BY DEF Usage
<1>. DEFINE e == [input         |-> OrElse(u["input"], u["prompt"]),
                  output        |-> OrElse(u["output"], u["completion"]),
                  cached        |-> OrElse(u["inputCached"], u["promptCached"]),
                  reasoning     |-> OrElse(u["outputReasoning"], u["completionReasoning"]),
                  cacheRead     |-> u["cacheRead"],
                  cacheCreation |-> u["cacheCreation"],
                  total         |-> u["total"]]
<1>2. \A a, b \in Nat : OrElse(a, b) \in Nat
  BY DEF OrElse
<1>3. e \in Event
  BY <1>1, <1>2 DEF Counters, Event
<1>4. SumOf(e) = e.input + e.output + e.reasoning + e.cacheRead + e.cacheCreation
  BY DEF SumOf
<1>5. EventOf(u) = [e EXCEPT !.total = OrElse(@, SumOf(e))]
  BY DEF EventOf
<1>6. OrElse(e.total, SumOf(e)) \in Nat
  <2>. HIDE DEF e
  <2>1. SumOf(e) \in Nat
    BY <1>3, <1>4 DEF Event
  <2>. QED BY <1>2, <1>3, <2>1 DEF Event
<1>7. EventOf(u) \in Event
  <2>. HIDE DEF e
  <2>. QED BY <1>3, <1>5, <1>6 DEF Event
<1>. QED BY <1>4, <1>5, <1>7

\* No column of an event is negative.
LEMMA ColumnsAreTyped ==
    ASSUME NEW e \in Event
    PROVE  Columns(e) \in [{"input", "output", "cacheRead", "cacheWrite", "total"} -> Nat]
<1>1. /\ e.input \in Nat /\ e.output \in Nat /\ e.cached \in Nat
      /\ e.cacheRead \in Nat /\ e.cacheCreation \in Nat
      /\ OrElse(e.total, SumOf(e)) \in Nat
  BY DEF Event, OrElse, SumOf
<1>2. \A x, y \in Nat : x >= y => x - y \in Nat
  OBVIOUS
<1>. QED BY <1>1, <1>2 DEF Columns

-----------------------------------------------------------------------------
(* What the documents of a response report. *)

\* The usage of the first document, of the second, and of the whole response.
First(r) ==
    CASE r.format = "chat" ->
            IF r.repeats THEN OpenAIChat([r EXCEPT !.output = r.opening]) ELSE NoUsage
      [] r.format = "responses" -> NoUsage
      [] r.format = "claude" -> Claude(r, r.opening)
      [] r.format \in {"gemini", "gemini_cli"} -> Gemini(r, r.opening)

Second(r) ==
    CASE r.format = "chat" -> OpenAIChat(r)
      [] r.format = "responses" -> OpenAIResponses(r)
      [] r.format = "claude" -> [NoUsage EXCEPT !["output"] = r.output]
      [] r.format \in {"gemini", "gemini_cli"} -> Gemini(r, r.output)

Report(r) ==
    CASE r.format = "chat" -> OpenAIChat(r)
      [] r.format = "responses" -> OpenAIResponses(r)
      [] r.format = "claude" -> Claude(r, r.output)
      [] r.format \in {"gemini", "gemini_cli"} -> Gemini(r, r.output)

\* Every response has one of the formats.
LEMMA Formats ==
    ASSUME NEW r \in Responses
    PROVE  r.format \in {"chat", "responses", "claude", "gemini", "gemini_cli"}
BY UpstreamsReport

\* They are usage.
LEMMA ReportsAreUsage ==
    ASSUME NEW r \in Responses
    PROVE  First(r) \in Usage /\ Second(r) \in Usage /\ Report(r) \in Usage
<1>1. r.output \in Nat /\ r.opening \in Nat
  BY UpstreamsReport
<1>2. NoUsage \in Usage /\ OpenAIChat(r) \in Usage /\ OpenAIResponses(r) \in Usage
  BY <1>1, UsageIsTyped
<1>3. \A output \in Nat :
        /\ OpenAIChat([r EXCEPT !.output = output]) \in Usage
        /\ Claude(r, output) \in Usage
        /\ [NoUsage EXCEPT !["output"] = output] \in Usage
        /\ Gemini(r, output) \in Usage
  BY UsageIsTyped
<1>4. First(r) \in Usage
  BY <1>1, <1>2, <1>3, Formats DEF First
<1>5. Second(r) \in Usage
  BY <1>1, <1>2, <1>3, Formats DEF Second
<1>6. Report(r) \in Usage
  BY <1>1, <1>2, <1>3, Formats DEF Report
<1>. QED BY <1>4, <1>5, <1>6

\* The last report and the first one together are the whole report.
LEMMA LargerIsWhole ==
    ASSUME NEW r \in Responses
    PROVE  \A c \in Counters :
               Report(r)[c] = IF First(r)[c] >= Second(r)[c] THEN First(r)[c] ELSE Second(r)[c]
<1>1. /\ r.fresh \in Nat /\ r.read \in Nat /\ r.write \in Nat /\ r.output \in Nat
      /\ r.reasoning \in Nat /\ r.opening \in Nat /\ r.opening <= r.output
  BY UpstreamsReport
<1>2. CASE r.format = "chat"
  <2>. DEFINE q == [r EXCEPT !.output = r.opening]
  <2>1. q.fresh = r.fresh /\ q.read = r.read /\ q.output = r.opening /\ q.reasoning = r.reasoning
    BY UpstreamsReport
  <2>. HIDE DEF q
  <2>2. First(r) = (IF r.repeats THEN OpenAIChat(q) ELSE NoUsage)
          /\ Second(r) = OpenAIChat(r) /\ Report(r) = OpenAIChat(r)
    BY <1>2 DEF First, Second, Report, q
  <2>. QED BY <1>1, <2>1, <2>2 DEF OpenAIChat, NoUsage, Counters
<1>3. CASE r.format = "responses"
  <2>1. First(r) = NoUsage /\ Second(r) = OpenAIResponses(r) /\ Report(r) = OpenAIResponses(r)
    BY <1>3 DEF First, Second, Report
  <2>. QED BY <1>1, <2>1 DEF OpenAIResponses, NoUsage, Counters
<1>4. CASE r.format = "claude"
  <2>1. /\ First(r) = Claude(r, r.opening) /\ Report(r) = Claude(r, r.output)
        /\ Second(r) = [NoUsage EXCEPT !["output"] = r.output]
    BY <1>4 DEF First, Second, Report
  <2>. QED BY <1>1, <2>1 DEF Claude, NoUsage, Counters
<1>5. CASE r.format \in {"gemini", "gemini_cli"}
  <2>1. /\ First(r) = Gemini(r, r.opening) /\ Report(r) = Gemini(r, r.output)
        /\ Second(r) = Gemini(r, r.output)
    BY <1>5 DEF First, Second, Report
  <2>. QED BY <1>1, <2>1 DEF Gemini, NoUsage, Counters
<1>. QED BY <1>2, <1>3, <1>4, <1>5, Formats

\* The two documents of a stream.
One(r, framed) == Doc(framed, Events(r)[1][1], Events(r)[1][2])

Two(r, framed) == Doc(framed, Events(r)[2][1], Events(r)[2][2])

\* The bodies a response comes in.
LEMMA BodiesAre ==
    ASSUME NEW r \in Responses
    PROVE  /\ r.sent \in {"whole", "framed", "bare", "batched"}
           /\ r.sent = "whole" => Bodies(r) = <<<<WholeBody(r)>>>>
           /\ r.sent = "framed" => Bodies(r) = <<<<One(r, TRUE)>>, <<Two(r, TRUE)>>>>
           /\ r.sent = "bare" => Bodies(r) = <<<<One(r, FALSE)>>, <<Two(r, FALSE)>>>>
           /\ r.sent = "batched" => Bodies(r) = <<<<One(r, TRUE), Two(r, TRUE)>>>>
<1>. DEFINE docs(framed) == [i \in 1 .. 2 |-> Doc(framed, Events(r)[i][1], Events(r)[i][2])]
<1>1. \A framed : /\ docs(framed)[1] = One(r, framed) /\ docs(framed)[2] = Two(r, framed)
                  /\ docs(framed) = <<One(r, framed), Two(r, framed)>>
  BY DEF One, Two
<1>2. Bodies(r) = CASE r.sent = "whole"   -> <<<<WholeBody(r)>>>>
                    [] r.sent = "framed"  -> <<<<docs(TRUE)[1]>>, <<docs(TRUE)[2]>>>>
                    [] r.sent = "bare"    -> <<<<docs(FALSE)[1]>>, <<docs(FALSE)[2]>>>>
                    [] r.sent = "batched" -> <<docs(TRUE)>>
  BY DEF Bodies
<1>. HIDE DEF docs
<1>3. r.sent \in {"whole", "framed", "bare", "batched"}
  BY UpstreamsReport
<1>. QED BY <1>1, <1>2, <1>3

\* Where each document's usage stands.
LEMMA Placed ==
    ASSUME NEW r \in Responses, NEW framed
    PROVE  /\ Range(One(r, framed).at) \ {NoUsage} = {First(r)} \ {NoUsage}
           /\ Range(Two(r, framed).at) = {Second(r)}
           /\ Range(WholeBody(r).at) = {Report(r)}
           /\ One(r, framed).framed = framed /\ Two(r, framed).framed = framed
           /\ WholeBody(r).framed = FALSE
<1>1. \A place, u : Range(At(place, u)) = {u}
  BY DEF Range, At
<1>2. Range(<<>>) = {}
  BY DEF Range
<1>3. /\ One(r, framed).framed = framed /\ Two(r, framed).framed = framed
      /\ WholeBody(r).framed = FALSE
  BY DEF One, Two, WholeBody, Doc
<1>4. One(r, framed).at = Events(r)[1][1] /\ Two(r, framed).at = Events(r)[2][1]
  BY DEF One, Two, Doc
<1>5. Range(WholeBody(r).at) = {Report(r)}
  BY <1>1, Formats DEF WholeBody, Doc, Report
<1>6. Range(Events(r)[2][1]) = {Second(r)}
  BY <1>1, Formats DEF Events, Second
<1>7. Range(Events(r)[1][1]) \ {NoUsage} = {First(r)} \ {NoUsage}
  BY <1>1, <1>2, Formats DEF Events, First
<1>. QED BY <1>3, <1>4, <1>5, <1>6, <1>7

\* The documents of a body that count.
LEMMA Candidates ==
    ASSUME NEW d, NEW e, NEW framed \in BOOLEAN, d.framed = framed, e.framed = framed
    PROVE  /\ responseJSONCandidates(<<d>>) = {d}
           /\ responseJSONCandidates(<<d, e>>) = IF framed THEN {d, e} ELSE {}
<1>1. responseJSONCandidates(<<d>>) = {d}
  <2>. DEFINE body == <<d>>
  <2>1. Len(body) = 1 /\ DOMAIN body = {1} /\ body[1] = d
    OBVIOUS
  <2>. HIDE DEF body
  <2>2. responseJSONCandidates(body) = {d}
    BY <2>1 DEF responseJSONCandidates
  <2>. QED BY <2>2 DEF body
<1>2. responseJSONCandidates(<<d, e>>) = IF framed THEN {d, e} ELSE {}
  <2>. DEFINE body == <<d, e>>
  <2>1. Len(body) = 2 /\ DOMAIN body = {1, 2} /\ body[1] = d /\ body[2] = e
    OBVIOUS
  <2>. HIDE DEF body
  <2>2. responseJSONCandidates(body) = IF framed THEN {d, e} ELSE {}
    BY <2>1 DEF responseJSONCandidates
  <2>. QED BY <2>2 DEF body
<1>. QED BY <1>1, <1>2

\* The reports of a body, from the documents that count.
LEMMA ReportedIn ==
    ASSUME NEW body, NEW d, NEW e
    PROVE  /\ responseJSONCandidates(body) = {} => Reported(body) = {}
           /\ responseJSONCandidates(body) = {d} => Reported(body) = Range(d.at) \ {NoUsage}
           /\ responseJSONCandidates(body) = {d, e} =>
                Reported(body) = (Range(d.at) \ {NoUsage}) \cup (Range(e.at) \ {NoUsage})
<1>. DEFINE C == responseJSONCandidates(body)
            at(doc) == Range(doc.at)
            all == UNION {at(doc) : doc \in C}
<1>1. Reported(body) = all \ {NoUsage}
  BY DEF Reported
<1>. HIDE DEF C, at
<1>3. C = {d} => all = at(d)
  OBVIOUS
<1>4. C = {d, e} => all = at(d) \cup at(e)
  OBVIOUS
<1>8. C = {} => all = {}
  OBVIOUS
<1>. HIDE DEF all
<1>2. C = {} => Reported(body) = {}
  BY <1>1, <1>8
<1>5. C = {d} => Reported(body) = at(d) \ {NoUsage}
  BY <1>1, <1>3
<1>6. C = {d, e} => Reported(body) = (at(d) \cup at(e)) \ {NoUsage}
  BY <1>1, <1>4
<1>7. C = {d, e} => Reported(body) = (at(d) \ {NoUsage}) \cup (at(e) \ {NoUsage})
  BY <1>6
<1>. QED BY <1>2, <1>5, <1>7 DEF C, at

\* The reports of each document, of both, and of the whole body.
LEMMA ReportedBy ==
    ASSUME NEW r \in Responses, NEW framed \in BOOLEAN
    PROVE  LET d == One(r, framed)
               e == Two(r, framed)
           IN  /\ Reported(<<d>>) = {First(r)} \ {NoUsage}
               /\ Reported(<<e>>) = {Second(r)} \ {NoUsage}
               /\ Reported(<<d, e>>) =
                    IF framed THEN {First(r), Second(r)} \ {NoUsage} ELSE {}
               /\ Reported(<<WholeBody(r)>>) = {Report(r)} \ {NoUsage}
<1>. DEFINE d == One(r, framed)
            e == Two(r, framed)
            w == WholeBody(r)
<1>1. /\ Range(d.at) \ {NoUsage} = {First(r)} \ {NoUsage}
      /\ Range(e.at) = {Second(r)} /\ Range(w.at) = {Report(r)}
      /\ d.framed = framed /\ e.framed = framed /\ w.framed = FALSE
  BY Placed
<1>. HIDE DEF d, e, w
<1>2. /\ responseJSONCandidates(<<d>>) = {d} /\ responseJSONCandidates(<<e>>) = {e}
      /\ responseJSONCandidates(<<d, e>>) = IF framed THEN {d, e} ELSE {}
  BY <1>1, Candidates
<1>3. responseJSONCandidates(<<w>>) = {w}
  BY <1>1, Candidates
<1>4. Reported(<<d>>) = {First(r)} \ {NoUsage} /\ Reported(<<e>>) = {Second(r)} \ {NoUsage}
  BY <1>1, <1>2, ReportedIn
<1>5. Reported(<<w>>) = {Report(r)} \ {NoUsage}
  BY <1>1, <1>3, ReportedIn
<1>6. Reported(<<d, e>>) = IF framed THEN {First(r), Second(r)} \ {NoUsage} ELSE {}
  <2>1. CASE framed
    <3>1. Reported(<<d, e>>) = (Range(d.at) \ {NoUsage}) \cup (Range(e.at) \ {NoUsage})
      BY <1>2, <2>1, ReportedIn
    <3>. QED BY <1>1, <2>1, <3>1
  <2>2. CASE ~framed
    BY <1>2, <2>2, ReportedIn
  <2>. QED BY <2>1, <2>2
<1>. QED BY <1>4, <1>5, <1>6 DEF d, e, w

\* The second document always ends the stream, the first one if it repeats.
LEMMA Terminal ==
    ASSUME NEW r \in Responses, NEW framed \in BOOLEAN
    PROVE  /\ HasTerminalStreamUsage(<<One(r, framed)>>) <=> r.repeats
           /\ HasTerminalStreamUsage(<<Two(r, framed)>>)
           /\ framed => HasTerminalStreamUsage(<<One(r, framed), Two(r, framed)>>)
<1>. DEFINE d == One(r, framed)
            e == Two(r, framed)
            Closes(doc) == \/ {"usage", "response"} \cap DOMAIN doc.at # {}
                           \/ "metadata" \in DOMAIN doc.at /\ "top" \in doc.finish
                           \/ "responseMetadata" \in DOMAIN doc.at /\ "response" \in doc.finish
<1>1. d.framed = framed /\ e.framed = framed
  BY Placed
<1>2. /\ responseJSONCandidates(<<d>>) = {d} /\ responseJSONCandidates(<<e>>) = {e}
      /\ framed => responseJSONCandidates(<<d, e>>) = {d, e}
  BY <1>1, Candidates
<1>3. /\ d.at = Events(r)[1][1] /\ d.finish = Events(r)[1][2]
      /\ e.at = Events(r)[2][1] /\ e.finish = Events(r)[2][2]
  BY DEF One, Two, Doc
<1>4. \A place, u : DOMAIN At(place, u) = {place}
  BY DEF At
<1>5. DOMAIN <<>> = {}
  OBVIOUS
<1>6. r.repeats => r.format = "chat"
  BY UpstreamsReport
<1>. HIDE DEF d, e
<1>7. Closes(d) <=> r.repeats
  <2>1. CASE r.format = "chat"
    <3>1. CASE r.repeats
      <4>1. d.at = At("usage", OpenAIChat([r EXCEPT !.output = r.opening]))
        BY <1>3, <2>1, <3>1 DEF Events
      <4>2. DOMAIN d.at = {"usage"}
        BY <1>4, <4>1
      <4>3. Closes(d)
        BY <4>2
      <4>. QED BY <3>1, <4>3
    <3>2. CASE ~r.repeats
      <4>1. d.at = <<>>
        BY <1>3, <2>1, <3>2 DEF Events
      <4>. QED BY <1>5, <3>2, <4>1
    <3>. QED BY <3>1, <3>2
  <2>2. CASE r.format = "responses"
    <3>1. DOMAIN d.at = {}
      BY <1>3, <1>5, <2>2 DEF Events
    <3>. QED BY <1>6, <2>2, <3>1
  <2>3. CASE r.format = "claude"
    <3>1. DOMAIN d.at = {"message"}
      BY <1>3, <1>4, <2>3 DEF Events
    <3>. QED BY <1>6, <2>3, <3>1
  <2>4. CASE r.format = "gemini"
    <3>1. d.at = At("metadata", Gemini(r, r.opening)) /\ d.finish = {}
      BY <1>3, <2>4 DEF Events
    <3>2. DOMAIN d.at = {"metadata"}
      BY <1>4, <3>1
    <3>. QED BY <1>6, <2>4, <3>1, <3>2
  <2>5. CASE r.format = "gemini_cli"
    <3>1. d.at = At("responseMetadata", Gemini(r, r.opening)) /\ d.finish = {}
      BY <1>3, <2>5 DEF Events
    <3>2. DOMAIN d.at = {"responseMetadata"}
      BY <1>4, <3>1
    <3>. QED BY <1>6, <2>5, <3>1, <3>2
  <2>. QED BY <2>1, <2>2, <2>3, <2>4, <2>5, Formats
<1>8. Closes(e)
  <2>1. \/ DOMAIN e.at = {"usage"}
        \/ DOMAIN e.at = {"response"}
        \/ DOMAIN e.at = {"metadata"} /\ e.finish = {"top"}
        \/ DOMAIN e.at = {"responseMetadata"} /\ e.finish = {"response"}
    <3>1. CASE r.format = "chat"
      <4>1. e.at = At("usage", OpenAIChat(r))
        BY <1>3, <3>1 DEF Events
      <4>. QED BY <1>4, <4>1
    <3>2. CASE r.format = "claude"
      <4>1. e.at = At("usage", [NoUsage EXCEPT !["output"] = r.output])
        BY <1>3, <3>2 DEF Events
      <4>. QED BY <1>4, <4>1
    <3>3. CASE r.format = "responses"
      <4>1. e.at = At("response", OpenAIResponses(r))
        BY <1>3, <3>3 DEF Events
      <4>. QED BY <1>4, <4>1
    <3>4. CASE r.format = "gemini"
      <4>1. e.at = At("metadata", Gemini(r, r.output)) /\ e.finish = {"top"}
        BY <1>3, <3>4 DEF Events
      <4>. QED BY <1>4, <4>1
    <3>5. CASE r.format = "gemini_cli"
      <4>1. e.at = At("responseMetadata", Gemini(r, r.output)) /\ e.finish = {"response"}
        BY <1>3, <3>5 DEF Events
      <4>. QED BY <1>4, <4>1
    <3>. QED BY <3>1, <3>2, <3>3, <3>4, <3>5, Formats
  <2>. QED BY <2>1
<1>. HIDE DEF Closes
<1>9. \A body : HasTerminalStreamUsage(body) <=> \E doc \in responseJSONCandidates(body) : Closes(doc)
  BY DEF HasTerminalStreamUsage, Closes
<1>. QED BY <1>2, <1>7, <1>8, <1>9 DEF d, e

\* Charged by what the response says it used.
AsUsed(r, c) ==
    /\ \A column \in DOMAIN Used(r) : c[column] <= Used(r)[column]
    /\ ~r.repeats => c = Used(r)

\* What a response used is charged as used.
LEMMA UsedIsNat ==
    ASSUME NEW r \in Responses
    PROVE  /\ AsUsed(r, Used(r))
           /\ Used(r) \in [input : Nat, output : Nat, cacheRead : Nat, cacheWrite : Nat,
                           total : Nat]
           /\ DOMAIN Used(r) = {"input", "output", "cacheRead", "cacheWrite", "total"}
<1>1. /\ r.fresh \in Nat /\ r.read \in Nat /\ r.write \in Nat /\ r.output \in Nat
      /\ r.reasoning \in Nat
  BY UpstreamsReport
<1>2. /\ Used(r) \in [input : Nat, output : Nat, cacheRead : Nat, cacheWrite : Nat,
                      total : Nat]
      /\ DOMAIN Used(r) = {"input", "output", "cacheRead", "cacheWrite", "total"}
  BY <1>1 DEF Used
<1>. QED BY <1>2 DEF AsUsed

\* The host's record is charged as used.
LEMMA HostChargesAsUsed ==
    ASSUME NEW r \in Responses
    PROVE  FromCPA(Detail(r)) \in Event /\ Columns(FromCPA(Detail(r))) = Used(r)
<1>1. /\ r.fresh \in Nat /\ r.read \in Nat /\ r.write \in Nat /\ r.output \in Nat
      /\ r.reasoning \in Nat /\ (r.write > 0 => r.format = "claude")
      /\ (r.format = "claude" => ~(r.reasoning > 0))
      /\ (r.format \in {"chat", "responses"} => r.reasoning <= r.output)
  BY UpstreamsReport
<1>. DEFINE d == Detail(r)
            f == FromCPA(d)
<1>2. d \in Event
  BY <1>1 DEF Detail, Event
<1>3. f = [d EXCEPT !.total = OrElse(@, SumOf(d))]
  BY DEF FromCPA
<1>4. \A e \in Event :
        /\ SumOf(e) = e.input + e.output + e.reasoning + e.cacheRead + e.cacheCreation
        /\ SumOf(e) \in Nat
  BY DEF SumOf, Event
<1>5. /\ f \in Event
      /\ f.input = d.input /\ f.output = d.output /\ f.cached = d.cached
      /\ f.reasoning = d.reasoning
      /\ f.cacheRead = d.cacheRead /\ f.cacheCreation = d.cacheCreation
      /\ f.total = OrElse(d.total, SumOf(d))
  BY <1>2, <1>3, <1>4 DEF Event, OrElse
<1>6. SumOf(f) = SumOf(d)
  BY <1>2, <1>4, <1>5
<1>. HIDE DEF f
<1>7. ASSUME r.format = "claude"
      PROVE  Columns(f) = Used(r)
  <2>1. /\ d.input = r.fresh /\ d.output = r.output /\ d.cached = 0 /\ d.reasoning = 0
        /\ d.cacheRead = r.read /\ d.cacheCreation = r.write /\ d.total = 0
    BY <1>7 DEF Detail
  <2>. DEFINE sum == r.fresh + r.read + r.write + r.output
  <2>2. SumOf(d) = sum
    BY <1>1, <1>2, <1>4, <2>1
  <2>3. OrElse(f.total, SumOf(f)) = sum
    BY <1>5, <1>6, <2>1, <2>2 DEF OrElse
  <2>4. Columns(f) = [input |-> r.fresh, output |-> r.output, cacheRead |-> r.read,
                      cacheWrite |-> r.write, total |-> sum]
    BY <1>1, <1>5, <2>1, <2>3 DEF Columns
  <2>5. Used(r) = [input |-> r.fresh, output |-> r.output, cacheRead |-> r.read,
                   cacheWrite |-> r.write, total |-> sum]
    BY <1>1, <1>7 DEF Used
  <2>. QED BY <2>4, <2>5
<1>8. ASSUME r.format # "claude"
      PROVE  Columns(f) = Used(r)
  <2>. DEFINE more == IF r.format \in {"gemini", "gemini_cli"} THEN r.reasoning ELSE 0
              sum == r.fresh + r.read + r.output + more
  <2>1. /\ d.input = r.fresh + r.read /\ d.output = r.output /\ d.cached = r.read
        /\ d.reasoning = r.reasoning /\ d.cacheRead = 0 /\ d.cacheCreation = 0
        /\ d.total = sum
    BY <1>1, <1>8 DEF Detail
  <2>2. r.write = 0 /\ sum \in Nat
    BY <1>1, <1>8
  <2>3. Used(r) = [input |-> r.fresh, output |-> r.output, cacheRead |-> r.read,
                   cacheWrite |-> 0, total |-> sum]
    BY <1>1, <2>2 DEF Used
  <2>4. SumOf(d) = r.fresh + r.read + r.output + r.reasoning
    BY <1>1, <1>2, <1>4, <2>1
  <2>5. sum = 0 => SumOf(d) = 0
    BY <1>1, <1>8, <2>4, Formats
  <2>. HIDE DEF sum
  <2>6. OrElse(f.total, SumOf(f)) = sum
    BY <1>5, <1>6, <2>1, <2>5 DEF OrElse
  <2>7. Columns(f) = [input |-> r.fresh, output |-> r.output, cacheRead |-> r.read,
                      cacheWrite |-> 0, total |-> sum]
    BY <1>1, <1>5, <2>1, <2>6 DEF Columns
  <2>. QED BY <2>3, <2>7
<1>. QED BY <1>5, <1>7, <1>8 DEF f

\* The interceptors and the host make the same event of a whole report.
LEMMA SameEvent ==
    ASSUME NEW r \in Responses
    PROVE  EventOf(Report(r)) = FromCPA(Detail(r))
<1>. DEFINE u == Report(r)
            e == [input         |-> OrElse(u["input"], u["prompt"]),
                  output        |-> OrElse(u["output"], u["completion"]),
                  cached        |-> OrElse(u["inputCached"], u["promptCached"]),
                  reasoning     |-> OrElse(u["outputReasoning"], u["completionReasoning"]),
                  cacheRead     |-> u["cacheRead"],
                  cacheCreation |-> u["cacheCreation"],
                  total         |-> u["total"]]
<1>1. r.fresh \in Nat /\ r.read \in Nat /\ r.output \in Nat /\ r.reasoning \in Nat
  BY UpstreamsReport
<1>2. CASE r.format = "chat"
  <2>1. u = OpenAIChat(r)
    BY <1>2 DEF Report
  <2>2. /\ u["prompt"] = r.fresh + r.read /\ u["promptCached"] = r.read
        /\ u["completion"] = r.output /\ u["completionReasoning"] = r.reasoning
        /\ u["total"] = r.fresh + r.read + r.output
        /\ u["input"] = 0 /\ u["inputCached"] = 0 /\ u["output"] = 0
        /\ u["outputReasoning"] = 0 /\ u["cacheRead"] = 0 /\ u["cacheCreation"] = 0
    BY <2>1 DEF OpenAIChat, NoUsage, Counters
  <2>. QED BY <1>1, <1>2, <2>2 DEF EventOf, FromCPA, Detail, OrElse
<1>3. CASE r.format = "responses"
  <2>1. u = OpenAIResponses(r)
    BY <1>3 DEF Report
  <2>2. /\ u["input"] = r.fresh + r.read /\ u["inputCached"] = r.read
        /\ u["output"] = r.output /\ u["outputReasoning"] = r.reasoning
        /\ u["total"] = r.fresh + r.read + r.output
        /\ u["prompt"] = 0 /\ u["promptCached"] = 0 /\ u["completion"] = 0
        /\ u["completionReasoning"] = 0 /\ u["cacheRead"] = 0 /\ u["cacheCreation"] = 0
    BY <2>1 DEF OpenAIResponses, NoUsage, Counters
  <2>. QED BY <1>1, <1>3, <2>2 DEF EventOf, FromCPA, Detail, OrElse
<1>4. CASE r.format = "claude"
  <2>1. u = Claude(r, r.output)
    BY <1>4 DEF Report
  <2>2. /\ u["input"] = r.fresh /\ u["output"] = r.output /\ u["cacheRead"] = r.read
        /\ u["cacheCreation"] = r.write /\ u["prompt"] = 0 /\ u["completion"] = 0
        /\ u["total"] = 0 /\ u["inputCached"] = 0 /\ u["promptCached"] = 0
        /\ u["outputReasoning"] = 0 /\ u["completionReasoning"] = 0
    BY <2>1 DEF Claude, NoUsage, Counters
  <2>. QED BY <1>1, <1>4, <2>2 DEF EventOf, FromCPA, Detail, OrElse
<1>5. CASE r.format \in {"gemini", "gemini_cli"}
  <2>1. u = Gemini(r, r.output)
    BY <1>5 DEF Report
  <2>2. /\ u["input"] = r.fresh + r.read /\ u["inputCached"] = r.read
        /\ u["output"] = r.output /\ u["outputReasoning"] = r.reasoning
        /\ u["total"] = r.fresh + r.read + r.reasoning + r.output
        /\ u["prompt"] = 0 /\ u["promptCached"] = 0 /\ u["completion"] = 0
        /\ u["completionReasoning"] = 0 /\ u["cacheRead"] = 0 /\ u["cacheCreation"] = 0
    BY <2>1 DEF Gemini, NoUsage, Counters
  <2>. QED BY <1>1, <1>5, <2>2 DEF EventOf, FromCPA, Detail, OrElse
<1>. QED BY <1>2, <1>3, <1>4, <1>5, Formats

\* An upstream that repeats its report is charged at most what it used.
LEMMA RepeatedIsChargedLess ==
    ASSUME NEW r \in Responses, r.repeats
    PROVE  AsUsed(r, Columns(EventOf(First(r))))
<1>1. /\ r.fresh \in Nat /\ r.read \in Nat /\ r.output \in Nat /\ r.write = 0
      /\ r.reasoning \in Nat /\ r.opening \in Nat /\ r.opening <= r.output
      /\ r.format = "chat" /\ r.reasoning <= r.output
  BY UpstreamsReport
<1>. DEFINE q == [r EXCEPT !.output = r.opening]
            u == First(r)
            e == EventOf(u)
<1>2. q.fresh = r.fresh /\ q.read = r.read /\ q.output = r.opening /\ q.reasoning = r.reasoning
  BY UpstreamsReport
<1>3. u = OpenAIChat(q)
  BY <1>1 DEF First
<1>. HIDE DEF q
<1>4. /\ u["prompt"] = r.fresh + r.read /\ u["promptCached"] = r.read
      /\ u["completion"] = r.opening /\ u["completionReasoning"] = r.reasoning
      /\ u["total"] = r.fresh + r.read + r.opening
      /\ u["input"] = 0 /\ u["inputCached"] = 0 /\ u["output"] = 0
      /\ u["outputReasoning"] = 0 /\ u["cacheRead"] = 0 /\ u["cacheCreation"] = 0
  BY <1>2, <1>3 DEF OpenAIChat, NoUsage, Counters
<1>. HIDE DEF u
<1>5. u \in Usage
  BY ReportsAreUsage DEF u
<1>. DEFINE sum == r.fresh + r.read + r.opening + r.reasoning
<1>6. /\ e \in Event
      /\ e.input = r.fresh + r.read /\ e.output = r.opening /\ e.cached = r.read
      /\ e.reasoning = r.reasoning /\ e.cacheRead = 0 /\ e.cacheCreation = 0
      /\ e.total = OrElse(r.fresh + r.read + r.opening, sum)
  BY <1>1, <1>4, <1>5, EventFields DEF OrElse
<1>. HIDE DEF e
<1>7. SumOf(e) = sum
  BY <1>1, <1>6 DEF SumOf
<1>8. OrElse(e.total, SumOf(e)) <= r.fresh + r.read + r.output
  BY <1>1, <1>6, <1>7 DEF OrElse
<1>9. Columns(e) = [input |-> r.fresh, output |-> r.opening, cacheRead |-> r.read,
                    cacheWrite |-> 0, total |-> OrElse(e.total, SumOf(e))]
  BY <1>1, <1>6 DEF Columns
<1>10. Used(r) = [input |-> r.fresh, output |-> r.output, cacheRead |-> r.read,
                  cacheWrite |-> 0, total |-> r.fresh + r.read + r.output]
  BY <1>1 DEF Used
<1>11. AsUsed(r, Columns(e))
  BY <1>1, <1>8, <1>9, <1>10 DEF AsUsed
<1>. QED BY <1>11 DEF e, u

\* What is accounted for of a stream or a whole body is charged as used: the
\* first document alone if upstreams repeat, else all that was reported.
LEMMA BodyIsChargedAsUsed ==
    ASSUME NEW r \in Responses, NEW body,
           \/ Reported(body) = {Report(r)} \ {NoUsage}
           \/ Reported(body) = {First(r), Second(r)} \ {NoUsage}
           \/ r.repeats /\ Reported(body) = {First(r)} \ {NoUsage}
    PROVE  AsUsed(r, Columns(FromInterceptedResponse(body)))
<1>. DEFINE m == mergeResponseUsage(Reported(body))
<1>1. First(r) \in Usage /\ Second(r) \in Usage /\ Report(r) \in Usage
  BY ReportsAreUsage
<1>2. \A u, v \in Usage : u = v <=> \A c \in Counters : u[c] = v[c]
  BY DEF Usage
<1>3. \A u, v \in Usage : \A R \in SUBSET {u, v} : mergeResponseUsage(R) \in Usage
  BY Merged
<1>4. AsUsed(r, Columns(EventOf(Report(r))))
  BY SameEvent, HostChargesAsUsed, UsedIsNat
<1>5. CASE Reported(body) = {Report(r)} \ {NoUsage}
  <2>1. \A c \in Counters : m[c] = Report(r)[c]
    <3>1. Reported(body) \in SUBSET {Report(r), Report(r)}
            /\ Reported(body) = {Report(r), Report(r)} \ {NoUsage}
      BY <1>5
    <3>2. \A c \in Counters :
            m[c] = IF Report(r)[c] >= Report(r)[c] THEN Report(r)[c] ELSE Report(r)[c]
      BY <1>1, <3>1, Merged
    <3>. QED BY <3>2
  <2>2. m \in Usage
    BY <1>1, <1>3, <1>5
  <2>3. m = Report(r)
    BY <1>1, <1>2, <2>1, <2>2
  <2>. QED BY <1>4, <2>3, EventOfBody
<1>6. CASE Reported(body) = {First(r), Second(r)} \ {NoUsage}
  <2>1. \A c \in Counters : m[c] = Report(r)[c]
    BY <1>1, <1>6, Merged, LargerIsWhole
  <2>2. m \in Usage
    BY <1>1, <1>3, <1>6
  <2>3. m = Report(r)
    BY <1>1, <1>2, <2>1, <2>2
  <2>. QED BY <1>4, <2>3, EventOfBody
<1>7. CASE r.repeats /\ Reported(body) = {First(r)} \ {NoUsage}
  <2>1. \A c \in Counters : m[c] = First(r)[c]
    <3>1. Reported(body) \in SUBSET {First(r), First(r)}
            /\ Reported(body) = {First(r), First(r)} \ {NoUsage}
      BY <1>7
    <3>2. \A c \in Counters :
            m[c] = IF First(r)[c] >= First(r)[c] THEN First(r)[c] ELSE First(r)[c]
      BY <1>1, <3>1, Merged
    <3>. QED BY <3>2
  <2>2. m \in Usage
    BY <1>1, <1>3, <1>7
  <2>3. m = First(r)
    BY <1>1, <1>2, <2>1, <2>2
  <2>. QED BY <1>7, <2>3, EventOfBody, RepeatedIsChargedLess
<1>. QED BY <1>5, <1>6, <1>7

\* Whatever documents of a response are looked at, the event is an event.
LEMMA BodyIsEvent ==
    ASSUME NEW r \in Responses, NEW body,
           Reported(body) \in SUBSET {First(r), Second(r)}
             \/ Reported(body) \in SUBSET {Report(r)}
    PROVE  FromInterceptedResponse(body) \in Event
<1>1. First(r) \in Usage /\ Second(r) \in Usage /\ Report(r) \in Usage
  BY ReportsAreUsage
<1>2. \A u, v \in Usage : \A R \in SUBSET {u, v} : mergeResponseUsage(R) \in Usage
  BY Merged
<1>3. mergeResponseUsage(Reported(body)) \in Usage
  BY <1>1, <1>2
<1>4. \A u \in Usage : EventOf(u) \in Event
  BY EventFields
<1>. QED BY <1>3, <1>4, EventOfBody

-----------------------------------------------------------------------------
(* The invariant. *)

Key == ExtractAPIKey(call.request, cfg.sources)

Answered == call.pc \in {"response", "done"}

\* How far the request has come, and what it has by then.
Control ==
    /\ cfg \in Config
    /\ call \in Call
    /\ calm \subseteq {"sources", "response"}
    /\ "response" \in calm => "sources" \in calm
    /\ call.pc \in {"idle", "refused", "upstream"} =>
         call.response = Null /\ call.chunk = 1 /\ charges = <<>> /\ remembered = {}
    /\ call.pc \in {"idle", "refused"} \/ call.principal # Null
    /\ "sources" \in calm /\ call.pc \notin {"idle", "refused"} => Key = call.principal
    /\ Answered => call.response \in Responses
    /\ call.pc = "response" => call.chunk <= Len(Bodies(call.response))

\* What was charged, and what is remembered of it.
Books ==
    /\ remembered \subseteq KeyValues
    /\ charges \in Seq(Charge)
    /\ remembered # {} => charges # <<>>
    /\ "sources" \in calm =>
         /\ remembered \subseteq {call.principal}
         /\ \A i \in DOMAIN charges : charges[i].key = call.principal
         /\ Len(charges) <= 1
         /\ charges # <<>> =>
              IF call.response.tagged THEN call.principal \in remembered ELSE call.callback
    /\ "response" \in calm =>
         \A i \in DOMAIN charges : AsUsed(call.response, charges[i].columns)

Documents(r) == UNION {Range(b) : b \in Range(Bodies(r))}

\* What is kept of a stream: its first document, from then to the second one,
\* if it reports usage without ending the stream.
Stream ==
    /\ IF call.response = Null THEN streamUsage = <<>>
       ELSE streamUsage \in Seq(Documents(call.response))
    /\ "response" \in calm /\ call.pc = "response" /\ call.response.sent # "whole" =>
         LET body == Bodies(call.response)[1]
         IN  streamUsage = IF /\ call.chunk = 2 /\ call.response.tagged
                              /\ ~call.response.repeats /\ HasInterceptedUsage(body)
                           THEN body ELSE <<>>

IInv == Control /\ Books /\ Stream /\ ChargedWithoutCallback

\* The invariant holds before the request is authenticated.
LEMMA Initially == Init => IInv
<1>. SUFFICES ASSUME Init PROVE IInv
  OBVIOUS
<1>1. /\ call.pc = "idle" /\ call.response = Null /\ call.chunk = 1 /\ call.callback = FALSE
      /\ call.request \in Requests /\ call.principal = Null /\ call \in Call
  <2>1. call \in [pc : {"idle"}, request : Requests, principal : {Null},
                  response : {Null}, chunk : {1}, callback : {FALSE}]
    BY DEF Init
  <2>2. 1 \in 1 .. 2 /\ FALSE \in BOOLEAN
    OBVIOUS
  <2>3. call \in Call
    BY <2>1, <2>2 DEF Call
  <2>. QED BY <2>1, <2>3
<1>2. Control
  BY <1>1 DEF Init, Control, Answered
<1>3. Books
  BY <1>1 DEF Init, Books
<1>4. Stream
  BY <1>1 DEF Init, Stream
<1>5. ChargedWithoutCallback
  BY <1>1 DEF ChargedWithoutCallback
<1>. QED BY <1>2, <1>3, <1>4, <1>5 DEF IInv

\* The key that the interceptors find.
LEMMA InterceptedKey ==
    ASSUME Control
    PROVE  LET key == ExtractAPIKey(WithoutQuery(call.request), cfg.sources)
           IN  key = Key /\ key \in KeyValues \cup {Null}
<1>1. call.request \in Requests /\ cfg \in Config
  BY DEF Control, Call
<1>. QED BY <1>1, SameKeyFound, KeyIsThere DEF Key

\* What recording an event under a key makes of the books.
LEMMA Recorded ==
    ASSUME Control, Books, Answered, NEW key \in KeyValues, NEW event \in Event,
           Record(key, event)
    PROVE  /\ remembered' \subseteq KeyValues
           /\ charges' \in Seq(Charge)
           /\ charges' # <<>>
           /\ "sources" \in calm /\ key = call.principal /\ (charges # <<>> => call.response.tagged) =>
                /\ remembered' \subseteq {key}
                /\ \A i \in DOMAIN charges' : charges'[i].key = key
                /\ Len(charges') <= 1
                /\ call.response.tagged => key \in remembered'
           /\ \A i \in DOMAIN charges' :
                \/ i \in DOMAIN charges /\ charges'[i] = charges[i]
                \/ charges'[i].columns = Columns(event)
<1>. DEFINE charge == [key |-> key, columns |-> Columns(event)]
            known == call.response.tagged /\ key \in remembered
<1>1. charge \in Charge
  BY ColumnsAreTyped DEF Charge
<1>2. cfg.retention > 0 /\ cfg.retention \in Int
  <2>1. Loaded(cfg)
    BY LoadIsLoaded DEF Control
  <2>. QED BY <2>1 DEF Loaded
<1>3. remembered' = IF call.response.tagged THEN remembered \cup {key} ELSE remembered
  BY <1>2 DEF Record
<1>4. charges' = IF known THEN charges ELSE Append(charges, charge)
  BY DEF Record
<1>5. charges \in Seq(Charge) /\ remembered \subseteq KeyValues
  BY DEF Books
<1>6. known => charges # <<>>
  BY DEF Books
<1>7. charges' \in Seq(Charge) /\ charges' # <<>>
  BY <1>1, <1>4, <1>5, <1>6
<1>8. \A i \in DOMAIN charges' :
        \/ i \in DOMAIN charges /\ charges'[i] = charges[i]
        \/ charges'[i] = charge
  BY <1>1, <1>4, <1>5
<1>9. ASSUME "sources" \in calm, key = call.principal, charges # <<>> => call.response.tagged
      PROVE  /\ remembered' \subseteq {key}
             /\ \A i \in DOMAIN charges' : charges'[i].key = key
             /\ Len(charges') <= 1
             /\ call.response.tagged => key \in remembered'
  <2>1. /\ remembered \subseteq {key}
        /\ \A i \in DOMAIN charges : charges[i].key = key
        /\ Len(charges) <= 1
        /\ charges # <<>> => key \in remembered
    BY <1>9 DEF Books
  <2>2. \A i \in DOMAIN charges' : charges'[i].key = key
    BY <1>8, <2>1
  <2>3. Len(charges') <= 1
    <3>1. CASE charges = <<>>
      BY <1>1, <1>4, <3>1
    <3>2. CASE charges # <<>>
      BY <1>4, <1>9, <2>1, <3>2
    <3>. QED BY <3>1, <3>2
  <2>. QED BY <1>3, <2>1, <2>2, <2>3
<1>10. remembered' \subseteq KeyValues
  BY <1>3, <1>5
<1>. QED BY <1>7, <1>8, <1>9, <1>10

\* Books stand as they are while nothing is recorded for the request.
LEMMA BooksStand ==
    ASSUME Books, UNCHANGED <<remembered, charges>>, calm' \subseteq calm,
           call'.principal = call.principal, call'.response = call.response,
           call.callback => call'.callback
    PROVE  Books'
BY DEF Books

\* PassOn moves to the next body or to the end.
LEMMA Passed ==
    ASSUME Control, call.pc = "response", PassOn
    PROVE  /\ call' \in Call
           /\ call'.request = call.request /\ call'.principal = call.principal
           /\ call'.response = call.response /\ call'.callback = call.callback
           /\ \/ call.chunk = Len(Bodies(call.response)) /\ call'.pc = "done"
              \/ /\ call.chunk # Len(Bodies(call.response)) /\ call'.pc = "response"
                 /\ call.chunk = 1 /\ call'.chunk = 2 /\ Len(Bodies(call.response)) = 2
<1>1. /\ call \in Call /\ call.chunk \in 1 .. 2 /\ call.response \in Responses
      /\ call.chunk <= Len(Bodies(call.response))
  BY DEF Control, Call, Answered
<1>2. Len(Bodies(call.response)) \in {1, 2}
  <2>1. \A a, b : Len(<<a>>) = 1 /\ Len(<<a, b>>) = 2
    OBVIOUS
  <2>. QED BY <1>1, <2>1, BodiesAre
<1>3. CASE call.chunk = Len(Bodies(call.response))
  BY <1>1, <1>3 DEF PassOn, Call
<1>4. CASE call.chunk # Len(Bodies(call.response))
  <2>. DEFINE n == Len(Bodies(call.response))
  <2>3. n = 1 \/ n = 2
    BY <1>2
  <2>4. call.chunk = 1 \/ call.chunk = 2
    BY <1>1
  <2>. HIDE DEF n
  <2>5. call.chunk <= n /\ call.chunk # n
    BY <1>1, <1>4 DEF n
  <2>6. call.chunk = 1 /\ n = 2
    BY <2>3, <2>4, <2>5
  <2>1. call.chunk = 1 /\ Len(Bodies(call.response)) = 2
    BY <2>6 DEF n
  <2>2. call' = [call EXCEPT !.chunk = 2]
    BY <1>4, <2>1 DEF PassOn
  <2>. QED BY <1>1, <1>4, <2>1, <2>2 DEF Call
<1>. QED BY <1>3, <1>4

\* An interceptor leaves the request where it should be.
LEMMA ControlPasses ==
    ASSUME Control, call.pc = "response", PassOn, UNCHANGED <<cfg, calm>>
    PROVE  Control'
<1>1. /\ call' \in Call
      /\ call'.request = call.request /\ call'.principal = call.principal
      /\ call'.response = call.response
      /\ \/ call'.pc = "done"
         \/ call'.pc = "response" /\ call'.chunk = 2 /\ Len(Bodies(call.response)) = 2
  BY Passed
<1>2. cfg' = cfg /\ calm' = calm /\ Key' = Key
  BY <1>1 DEF Key
<1>3. /\ call.pc = "response" /\ call.principal # Null /\ call.response \in Responses
      /\ cfg \in Config /\ calm \subseteq {"sources", "response"}
      /\ "response" \in calm => "sources" \in calm
      /\ "sources" \in calm => Key = call.principal
  BY DEF Control, Answered
<1>. HIDE DEF Key
<1>. QED BY <1>1, <1>2, <1>3 DEF Control, Answered

\* What a body that an interceptor accounts for makes of the books.
LEMMA Intercepted ==
    ASSUME Control, Books, call.pc = "response", NEW body, recordInterceptedUsage(body),
           \/ Reported(body) \in SUBSET {First(call.response), Second(call.response)}
           \/ Reported(body) \in SUBSET {Report(call.response)},
           "response" \in calm /\ HasInterceptedUsage(body) =>
             AsUsed(call.response, Columns(FromInterceptedResponse(body))),
           PassOn, UNCHANGED calm
    PROVE  /\ Books'
           /\ "sources" \in calm /\ call.response.tagged /\ HasInterceptedUsage(body) =>
                charges' # <<>>
<1>. DEFINE key == ExtractAPIKey(WithoutQuery(call.request), cfg.sources)
            event == FromInterceptedResponse(body)
<1>1. key = Key /\ key \in KeyValues \cup {Null}
  BY InterceptedKey
<1>2. /\ call'.principal = call.principal /\ call'.response = call.response
      /\ call'.callback = call.callback
  BY Passed
<1>3. call.response \in Responses /\ Answered /\ call.principal # Null
  BY DEF Control, Answered
<1>4. "sources" \in calm => key = call.principal
  BY <1>1 DEF Control
<1>5. event \in Event
  BY <1>3, BodyIsEvent
<1>. HIDE DEF key, event
<1>6. CASE call.response.tagged /\ key # Null /\ HasInterceptedUsage(body)
  <2>1. Record(key, event)
    BY <1>6 DEF recordInterceptedUsage, key, event
  <2>2. /\ remembered' \subseteq KeyValues
        /\ charges' \in Seq(Charge)
        /\ charges' # <<>>
        /\ "sources" \in calm /\ key = call.principal /\ (charges # <<>> => call.response.tagged) =>
             /\ remembered' \subseteq {key}
             /\ \A i \in DOMAIN charges' : charges'[i].key = key
             /\ Len(charges') <= 1
             /\ call.response.tagged => key \in remembered'
        /\ \A i \in DOMAIN charges' :
             \/ i \in DOMAIN charges /\ charges'[i] = charges[i]
             \/ charges'[i].columns = Columns(event)
    BY <1>1, <1>3, <1>5, <1>6, <2>1, Recorded
  <2>3. "response" \in calm =>
          \A i \in DOMAIN charges' : AsUsed(call.response, charges'[i].columns)
    BY <1>6, <2>2 DEF Books, event
  <2>. QED BY <1>2, <1>4, <1>6, <2>2, <2>3 DEF Books
<1>7. CASE ~(call.response.tagged /\ key # Null /\ HasInterceptedUsage(body))
  <2>1. UNCHANGED <<remembered, charges>>
    BY <1>7 DEF recordInterceptedUsage, key
  <2>2. Books'
    BY <1>2, <2>1, BooksStand
  <2>. QED BY <1>3, <1>4, <1>7, <2>2
<1>. QED BY <1>6, <1>7

-----------------------------------------------------------------------------
(* What is kept of a stream. *)

\* The documents of a response and how its bodies hold them.
LEMMA DocumentsAre ==
    ASSUME NEW r \in Responses
    PROVE  LET bodies == Bodies(r)
               framed == r.sent # "bare"
           IN  /\ framed \in BOOLEAN
               /\ r.sent = "whole" =>
                    /\ Len(bodies) = 1 /\ bodies[1] = <<WholeBody(r)>>
                    /\ Documents(r) = {WholeBody(r)}
               /\ r.sent # "whole" => Documents(r) = {One(r, framed), Two(r, framed)}
               /\ r.sent \in {"framed", "bare"} =>
                    /\ Len(bodies) = 2
                    /\ bodies[1] = <<One(r, framed)>> /\ bodies[2] = <<Two(r, framed)>>
               /\ r.sent \notin {"whole", "framed", "bare"} =>
                    /\ r.sent = "batched"
                    /\ Len(bodies) = 1 /\ bodies[1] = <<One(r, TRUE), Two(r, TRUE)>>
<1>1. \A a, b : /\ Len(<<<<a>>>>) = 1 /\ <<<<a>>>>[1] = <<a>>
                /\ Len(<<<<a, b>>>>) = 1 /\ <<<<a, b>>>>[1] = <<a, b>>
                /\ Len(<<<<a>>, <<b>>>>) = 2
                /\ <<<<a>>, <<b>>>>[1] = <<a>> /\ <<<<a>>, <<b>>>>[2] = <<b>>
  OBVIOUS
<1>2. \A a : UNION {Range(x) : x \in Range(<<<<a>>>>)} = {a}
  BY DEF Range
<1>3. \A a, b : /\ Range(<<<<a>>, <<b>>>>) = {<<a>>, <<b>>}
                /\ Range(<<<<a, b>>>>) = {<<a, b>>}
                /\ Range(<<a>>) = {a} /\ Range(<<a, b>>) = {a, b}
  BY DEF Range
<1>4. \A a, b : UNION {Range(x) : x \in Range(<<<<a>>, <<b>>>>)} = {a, b}
  BY <1>3
<1>5. \A a, b : UNION {Range(x) : x \in Range(<<<<a, b>>>>)} = {a, b}
  BY <1>3
<1>6. CASE r.sent = "whole"
  <2>1. Bodies(r) = <<<<WholeBody(r)>>>>
    BY <1>6, BodiesAre
  <2>2. Documents(r) = {WholeBody(r)}
    BY <1>2, <2>1 DEF Documents
  <2>. QED BY <1>1, <1>6, <2>1, <2>2
<1>7. ASSUME NEW framed \in BOOLEAN, Bodies(r) = <<<<One(r, framed)>>, <<Two(r, framed)>>>>
      PROVE  /\ Documents(r) = {One(r, framed), Two(r, framed)} /\ Len(Bodies(r)) = 2
             /\ Bodies(r)[1] = <<One(r, framed)>> /\ Bodies(r)[2] = <<Two(r, framed)>>
  BY <1>1, <1>4, <1>7 DEF Documents
<1>8. CASE r.sent = "framed"
  BY <1>7, <1>8, BodiesAre
<1>9. CASE r.sent = "bare"
  BY <1>7, <1>9, BodiesAre
<1>10. CASE r.sent = "batched"
  <2>1. Bodies(r) = <<<<One(r, TRUE), Two(r, TRUE)>>>>
    BY <1>10, BodiesAre
  <2>2. Documents(r) = {One(r, TRUE), Two(r, TRUE)}
    BY <1>5, <2>1 DEF Documents
  <2>. QED BY <1>1, <1>10, <2>1, <2>2
<1>. QED BY <1>6, <1>8, <1>9, <1>10, BodiesAre

\* Documents of a response report nothing but what the response reports.
LEMMA DocumentsReport ==
    ASSUME NEW r \in Responses, NEW body \in Seq(Documents(r))
    PROVE  \/ Reported(body) \in SUBSET {First(r), Second(r)}
           \/ Reported(body) \in SUBSET {Report(r)}
<1>1. responseJSONCandidates(body) \subseteq Documents(r)
  BY DEF responseJSONCandidates
<1>2. \A u \in Reported(body) : u # NoUsage /\ \E doc \in Documents(r) : u \in Range(doc.at)
  BY <1>1 DEF Reported
<1>3. CASE r.sent = "whole"
  BY <1>2, <1>3, Placed, DocumentsAre
<1>4. CASE r.sent # "whole"
  <2>. DEFINE framed == r.sent # "bare"
  <2>1. Documents(r) = {One(r, framed), Two(r, framed)}
    BY <1>4, DocumentsAre
  <2>2. /\ Range(One(r, framed).at) \ {NoUsage} = {First(r)} \ {NoUsage}
        /\ Range(Two(r, framed).at) = {Second(r)}
    BY Placed
  <2>. QED BY <1>2, <2>1, <2>2
<1>. QED BY <1>3, <1>4

\* Every body is a sequence of documents of its response.
LEMMA BodyHasDocuments ==
    ASSUME NEW r \in Responses, NEW n \in 1 .. 2, n <= Len(Bodies(r))
    PROVE  Bodies(r)[n] \in Seq(Documents(r))
<1>. DEFINE framed == r.sent # "bare"
            d == One(r, framed)
            e == Two(r, framed)
            w == WholeBody(r)
<1>1. n = 1 \/ n = 2
  OBVIOUS
<1>2. CASE r.sent = "whole"
  <2>1. Len(Bodies(r)) = 1 /\ Bodies(r)[1] = <<w>> /\ Documents(r) = {w}
    BY <1>2, DocumentsAre
  <2>. HIDE DEF w
  <2>2. <<w>> \in Seq({w})
    OBVIOUS
  <2>3. n = 1
    BY <1>1, <2>1
  <2>. QED BY <2>1, <2>2, <2>3
<1>3. CASE r.sent \in {"framed", "bare"}
  <2>1. /\ Bodies(r)[1] = <<d>> /\ Bodies(r)[2] = <<e>> /\ Documents(r) = {d, e}
    BY <1>3, DocumentsAre
  <2>. HIDE DEF d, e
  <2>2. <<d>> \in Seq({d, e}) /\ <<e>> \in Seq({d, e})
    OBVIOUS
  <2>. QED BY <1>1, <2>1, <2>2
<1>4. CASE r.sent \notin {"whole", "framed", "bare"}
  <2>1. /\ Len(Bodies(r)) = 1 /\ Bodies(r)[1] = <<d, e>> /\ Documents(r) = {d, e}
    BY <1>4, DocumentsAre
  <2>. HIDE DEF d, e
  <2>2. <<d, e>> \in Seq({d, e})
    OBVIOUS
  <2>3. n = 1
    BY <1>1, <2>1
  <2>. QED BY <2>1, <2>2, <2>3
<1>. QED BY <1>2, <1>3, <1>4

\* Two chunks of one document each join to a body of both.
LEMMA Joined ==
    ASSUME NEW a, NEW b
    PROVE  /\ <<>> \o <<a>> = <<a>> /\ <<>> \o <<a, b>> = <<a, b>>
           /\ <<a>> \o <<b>> = <<a, b>>
           /\ <<a>> # <<>> /\ <<a, b>> # <<>>
<1>. DEFINE S == {a, b}
<1>1. <<a>> \in Seq(S) /\ <<b>> \in Seq(S) /\ <<a, b>> \in Seq(S)
  OBVIOUS
<1>. HIDE DEF S
<1>2. <<>> \o <<a>> = <<a>> /\ <<>> \o <<a, b>> = <<a, b>>
  BY <1>1, ConcatEmptySeq
<1>3. <<a>> \o <<b>> = <<a, b>>
  <2>. DEFINE s == <<a>> \o <<b>>
              t == <<a, b>>
  <2>1. s \in Seq(S) /\ Len(s) = 1 + 1 /\ \A i \in 1 .. 1 + 1 : s[i] = IF i <= 1 THEN a ELSE b
    <3>1. Len(<<a>>) = 1 /\ Len(<<b>>) = 1 /\ <<a>>[1] = a /\ <<b>>[1] = b
      OBVIOUS
    <3>2. \A i \in 1 .. 1 + 1 : (i <= 1 /\ i = 1) \/ (~(i <= 1) /\ i - 1 = 1)
      OBVIOUS
    <3>. QED BY <1>1, <3>1, <3>2, ConcatProperties
  <2>2. t \in Seq(S) /\ Len(t) = 1 + 1 /\ t[1] = a /\ t[2] = b
    BY <1>1
  <2>. HIDE DEF s, t
  <2>3. \A i \in 1 .. Len(s) : s[i] = t[i]
    BY <2>1, <2>2
  <2>4. s = t
    BY <2>1, <2>2, <2>3, SeqEqual
  <2>. QED BY <2>4 DEF s, t
<1>. QED BY <1>2, <1>3

\* Streams of which nothing is said: several bare documents report usage.
Several(r) ==
    LET reports == {i \in 1 .. 2 : HasInterceptedUsage(<<Doc(TRUE, Events(r)[i][1], {})>>)}
    IN  r.sent = "bare" /\ ~r.repeats /\ Cardinality(reports) > 1

\* A stream whose two bare documents both report is one of those.
LEMMA TwoAreSeveral ==
    ASSUME NEW r \in Responses, r.sent = "bare", ~r.repeats, First(r) # NoUsage,
           Second(r) # NoUsage
    PROVE  Several(r)
<1>. DEFINE doc(i) == Doc(TRUE, Events(r)[i][1], {})
            reports == {i \in 1 .. 2 : HasInterceptedUsage(<<doc(i)>>)}
<1>1. /\ \A i \in 1 .. 2 : doc(i).framed = TRUE
      /\ doc(1).at = Events(r)[1][1] /\ doc(2).at = Events(r)[2][1]
  BY DEF Doc
<1>2. One(r, TRUE).at = Events(r)[1][1] /\ Two(r, TRUE).at = Events(r)[2][1]
  BY DEF One, Two, Doc
<1>. HIDE DEF doc
<1>3. /\ Range(doc(1).at) \ {NoUsage} = {First(r)} \ {NoUsage}
      /\ Range(doc(2).at) \ {NoUsage} = {Second(r)} \ {NoUsage}
  <2>1. doc(1).at = One(r, TRUE).at /\ doc(2).at = Two(r, TRUE).at
    BY <1>1, <1>2
  <2>. QED BY <2>1, Placed
<1>4. \A i \in 1 .. 2 : Reported(<<doc(i)>>) = Range(doc(i).at) \ {NoUsage}
  <2>. TAKE i \in 1 .. 2
  <2>1. responseJSONCandidates(<<doc(i)>>) = {doc(i)}
    BY <1>1, Candidates
  <2>. QED BY <2>1, ReportedIn
<1>5. \A i \in 1 .. 2 : HasInterceptedUsage(<<doc(i)>>)
  BY <1>3, <1>4 DEF HasInterceptedUsage
<1>6. Cardinality(reports) > 1
  <2>1. reports = 1 .. 2
    BY <1>5
  <2>2. Cardinality({1} \cup {2}) = Cardinality({1}) + 1
    <3>1. IsFiniteSet({1})
      BY FS_Singleton
    <3>2. 2 \notin {1}
      OBVIOUS
    <3>. QED BY <3>1, <3>2, FS_AddElement, Zenon
  <2>3. Cardinality(1 .. 2) = 2
    <3>1. 1 .. 2 = {1} \cup {2}
      OBVIOUS
    <3>2. Cardinality({1}) = 1
      BY FS_Singleton
    <3>. QED BY <2>2, <3>1, <3>2
  <2>. HIDE DEF reports
  <2>. QED BY <2>1, <2>3
<1>7. Several(r) <=> Cardinality(reports) > 1
  BY DEF Several, doc
<1>. QED BY <1>6, <1>7

\* A response reports something: its upstream used some tokens.
LEMMA ReportsSomething ==
    ASSUME NEW r \in Responses
    PROVE  Report(r) # NoUsage /\ (First(r) # NoUsage \/ Second(r) # NoUsage)
<1>1. /\ r.fresh \in Nat /\ r.read \in Nat /\ r.write \in Nat /\ r.output \in Nat
      /\ r.reasoning \in Nat /\ (r.write > 0 => r.format = "claude")
      /\ (r.format = "claude" => ~(r.reasoning > 0))
      /\ (r.format \in {"chat", "responses"} => r.reasoning <= r.output)
      /\ r.fresh + r.read + r.write + r.output + r.reasoning > 0
  BY UpstreamsReport
<1>2. \E c \in Counters : Report(r)[c] # 0
  <2>1. CASE r.format = "chat"
    <3>1. Report(r)["total"] # 0
      BY <1>1, <2>1 DEF Report, OpenAIChat, NoUsage, Counters
    <3>. QED BY <3>1 DEF Counters
  <2>2. CASE r.format = "responses"
    <3>1. Report(r)["total"] # 0
      BY <1>1, <2>2 DEF Report, OpenAIResponses, NoUsage, Counters
    <3>. QED BY <3>1 DEF Counters
  <2>3. CASE r.format = "claude"
    <3>1. Report(r)["input"] # 0 \/ Report(r)["cacheRead"] # 0
            \/ Report(r)["cacheCreation"] # 0 \/ Report(r)["output"] # 0
      BY <1>1, <2>3 DEF Report, Claude, NoUsage, Counters
    <3>. QED BY <3>1 DEF Counters
  <2>4. CASE r.format \in {"gemini", "gemini_cli"}
    <3>1. Report(r)["total"] # 0
      BY <1>1, <2>4 DEF Report, Gemini, NoUsage, Counters
    <3>. QED BY <3>1 DEF Counters
  <2>. QED BY <2>1, <2>2, <2>3, <2>4, Formats
<1>3. \A c \in Counters : NoUsage[c] = 0
  BY DEF NoUsage
<1>4. First(r) = NoUsage /\ Second(r) = NoUsage => \A c \in Counters : Report(r)[c] = 0
  BY <1>3, LargerIsWhole
<1>. QED BY <1>2, <1>3, <1>4

\* The interceptor keeps a response whole: what it has when the stream ends is
\* charged as the response used, and it has nothing too early or too late.
KeptWhole(r, n, kept) ==
    LET terminal == HasTerminalStreamUsage(Bodies(r)[n])
    IN  /\ terminal /\ HasInterceptedUsage(kept) =>
             AsUsed(r, Columns(FromInterceptedResponse(kept)))
        /\ n = Len(Bodies(r)) => terminal
        /\ n = Len(Bodies(r)) /\ ~Several(r) => kept # <<>> /\ HasInterceptedUsage(kept)
        /\ n # Len(Bodies(r)) => (terminal <=> r.repeats)
        /\ ~terminal => n = 1 /\ kept = IF HasInterceptedUsage(Bodies(r)[1])
                                        THEN Bodies(r)[1] ELSE <<>>

\* What becomes of the nth body of a stream, if what was kept before it is
\* what should be: it ends the stream or not, and what it ends is charged.
LEMMA KeptBody ==
    ASSUME NEW r \in Responses, r.sent # "whole", NEW n \in 1 .. 2, n <= Len(Bodies(r)),
           NEW held, NEW kept,
           held = IF n = 2 /\ ~r.repeats /\ HasInterceptedUsage(Bodies(r)[1])
                  THEN Bodies(r)[1] ELSE <<>>,
           kept = IF HasInterceptedUsage(Bodies(r)[n]) THEN held \o Bodies(r)[n] ELSE held
    PROVE  KeptWhole(r, n, kept)
<1>. DEFINE framed == r.sent # "bare"
            d == One(r, framed)
            e == Two(r, framed)
            terminal == HasTerminalStreamUsage(Bodies(r)[n])
<1>. SUFFICES /\ terminal /\ HasInterceptedUsage(kept) =>
                   AsUsed(r, Columns(FromInterceptedResponse(kept)))
              /\ n = Len(Bodies(r)) => terminal
              /\ n = Len(Bodies(r)) /\ ~Several(r) =>
                   kept # <<>> /\ HasInterceptedUsage(kept)
              /\ n # Len(Bodies(r)) => (terminal <=> r.repeats)
              /\ ~terminal => n = 1 /\ kept = IF HasInterceptedUsage(Bodies(r)[1])
                                              THEN Bodies(r)[1] ELSE <<>>
  BY DEF KeptWhole
<1>1. /\ Reported(<<d>>) = {First(r)} \ {NoUsage}
      /\ Reported(<<e>>) = {Second(r)} \ {NoUsage}
      /\ Reported(<<d, e>>) = IF framed THEN {First(r), Second(r)} \ {NoUsage} ELSE {}
  BY ReportedBy
<1>2. /\ HasTerminalStreamUsage(<<d>>) <=> r.repeats
      /\ HasTerminalStreamUsage(<<e>>)
      /\ framed => HasTerminalStreamUsage(<<d, e>>)
  BY Terminal
<1>3. \A body : HasInterceptedUsage(body) <=> Reported(body) # {}
  BY DEF HasInterceptedUsage
<1>4. r.repeats => Second(r) = Report(r)
  BY UpstreamsReport DEF Second, Report
<1>5. Report(r) # NoUsage /\ (First(r) # NoUsage \/ Second(r) # NoUsage)
  BY ReportsSomething
<1>6. r.sent = "bare" /\ ~r.repeats /\ First(r) # NoUsage /\ Second(r) # NoUsage => Several(r)
  BY TwoAreSeveral
<1>7. Reported(<<>>) = {}
  BY DEF Reported, responseJSONCandidates
<1>8. \A a, b : /\ <<>> \o <<a>> = <<a>> /\ <<a>> \o <<b>> = <<a, b>>
                /\ <<>> \o <<a, b>> = <<a, b>> /\ <<a>> # <<>> /\ <<a, b>> # <<>>
  BY Joined
<1>9. n = 1 \/ n = 2
  OBVIOUS
<1>10. CASE r.sent \notin {"framed", "bare"}
  <2>1. /\ Len(Bodies(r)) = 1 /\ Bodies(r)[1] = <<d, e>> /\ framed
    BY <1>10, DocumentsAre
  <2>2. n = 1 /\ held = <<>>
    BY <1>9, <2>1
  <2>. HIDE DEF d, e
  <2>3. HasInterceptedUsage(<<d, e>>)
    BY <1>1, <1>3, <1>5, <2>1
  <2>4. kept = <<d, e>>
    BY <1>8, <2>1, <2>2, <2>3
  <2>5. AsUsed(r, Columns(FromInterceptedResponse(kept)))
    BY <1>1, <2>1, <2>4, BodyIsChargedAsUsed
  <2>. QED BY <1>2, <1>8, <2>1, <2>2, <2>3, <2>4, <2>5
<1>11. CASE r.sent \in {"framed", "bare"} /\ n = 1
  <2>1. /\ Len(Bodies(r)) = 2 /\ Bodies(r)[1] = <<d>>
    BY <1>11, DocumentsAre
  <2>2. held = <<>>
    BY <1>11
  <2>. HIDE DEF d, e
  <2>3. kept = IF HasInterceptedUsage(<<d>>) THEN <<d>> ELSE <<>>
    BY <1>8, <1>11, <2>1, <2>2
  <2>4. HasInterceptedUsage(kept) => kept = <<d>>
    BY <1>3, <1>7, <2>3
  <2>5. terminal <=> r.repeats
    BY <1>2, <1>11, <2>1
  <2>6. terminal /\ HasInterceptedUsage(kept) =>
          AsUsed(r, Columns(FromInterceptedResponse(kept)))
    BY <1>1, <2>4, <2>5, BodyIsChargedAsUsed
  <2>7. n = 1 /\ n # Len(Bodies(r))
    BY <1>11, <2>1
  <2>. HIDE DEF terminal
  <2>. QED BY <2>1, <2>3, <2>5, <2>6, <2>7
<1>12. CASE r.sent \in {"framed", "bare"} /\ n = 2
  <2>1. /\ Len(Bodies(r)) = 2 /\ Bodies(r)[1] = <<d>> /\ Bodies(r)[2] = <<e>>
    BY <1>12, DocumentsAre
  <2>2. held = IF ~r.repeats /\ HasInterceptedUsage(<<d>>) THEN <<d>> ELSE <<>>
    BY <1>12, <2>1
  <2>. HIDE DEF d, e
  <2>3. kept = IF HasInterceptedUsage(<<e>>) THEN held \o <<e>> ELSE held
    BY <1>12, <2>1
  <2>4. CASE r.repeats
    <3>1. HasInterceptedUsage(<<e>>) /\ held = <<>>
      BY <1>1, <1>3, <1>4, <1>5, <2>2, <2>4
    <3>2. kept = <<e>>
      BY <1>8, <2>3, <3>1
    <3>3. Reported(kept) = {Report(r)} \ {NoUsage}
      BY <1>1, <1>4, <2>4, <3>2
    <3>. QED BY <1>2, <1>8, <1>12, <2>1, <3>1, <3>2, <3>3, BodyIsChargedAsUsed
  <2>5. CASE ~r.repeats
    <3>1. kept = IF First(r) # NoUsage
                 THEN IF Second(r) # NoUsage THEN <<d, e>> ELSE <<d>>
                 ELSE IF Second(r) # NoUsage THEN <<e>> ELSE <<>>
      <4>1. /\ HasInterceptedUsage(<<d>>) <=> First(r) # NoUsage
            /\ HasInterceptedUsage(<<e>>) <=> Second(r) # NoUsage
        BY <1>1, <1>3
      <4>. QED BY <1>8, <2>2, <2>3, <2>5, <4>1
    <3>2. kept # <<>>
      BY <1>5, <1>8, <3>1
    <3>3. \/ Reported(kept) = {First(r), Second(r)} \ {NoUsage}
          \/ Reported(kept) = {} /\ Several(r)
      BY <1>1, <1>5, <1>6, <1>12, <2>5, <3>1
    <3>. QED BY <1>2, <1>3, <1>5, <1>12, <2>1, <3>2, <3>3, BodyIsChargedAsUsed
  <2>. QED BY <2>4, <2>5
<1>. QED BY <1>9, <1>10, <1>11, <1>12

-----------------------------------------------------------------------------
(* Every step keeps the invariant. *)

LEMMA StandsStill == IInv /\ UNCHANGED vars => IInv'
BY DEF IInv, vars, Control, Books, Stream, ChargedWithoutCallback, Key, Answered

LEMMA AfterConfigure == IInv /\ Configure => IInv'
<1>. SUFFICES ASSUME IInv, Configure PROVE IInv'
  OBVIOUS
<1>1. /\ cfg' \in Config /\ streamUsage' = <<>> /\ UNCHANGED <<call, remembered, charges>>
      /\ calm' = IF call.pc = "idle" THEN calm
                 ELSE calm \ ({"response"} \cup
                        (IF cfg'.sources # cfg.sources THEN {"sources"} ELSE {}))
  BY DEF Configure, Config
<1>2. /\ calm' \subseteq calm
      /\ call.pc # "idle" => "response" \notin calm'
      /\ call.pc # "idle" /\ "sources" \in calm' => cfg'.sources = cfg.sources
  BY <1>1
<1>3. Control'
  <2>1. "response" \in calm' => "sources" \in calm'
    BY <1>1, <1>2 DEF IInv, Control
  <2>2. "sources" \in calm' /\ call.pc \notin {"idle", "refused"} => Key' = call.principal
    BY <1>1, <1>2 DEF IInv, Control, Key
  <2>. QED BY <1>1, <1>2, <2>1, <2>2 DEF IInv, Control, Answered
<1>4. Books'
  BY <1>1, <1>2, BooksStand DEF IInv
<1>5. Stream'
  BY <1>1, <1>2 DEF Stream
<1>6. ChargedWithoutCallback'
  BY <1>1, <1>2 DEF IInv, ChargedWithoutCallback
<1>. QED BY <1>3, <1>4, <1>5, <1>6 DEF IInv

LEMMA AfterAuthenticate == IInv /\ Authenticate => IInv'
<1>. SUFFICES ASSUME IInv, Authenticate PROVE IInv'
  OBVIOUS
<1>1. /\ call.pc = "idle" /\ UNCHANGED <<cfg, streamUsage, remembered, charges, calm>>
      /\ \/ Key # Null /\ call' = [call EXCEPT !.pc = "upstream", !.principal = Key]
         \/ call' = [call EXCEPT !.pc = "refused"]
  BY DEF Authenticate, Key
<1>2. /\ call \in Call /\ cfg \in Config /\ call.response = Null /\ call.chunk = 1
      /\ charges = <<>> /\ remembered = {}
  BY <1>1 DEF IInv, Control
<1>3. Key \in KeyValues \cup {Null}
  BY <1>2, KeyIsThere DEF Call, Key
<1>4. /\ call' \in Call /\ call'.response = Null /\ call'.chunk = 1
      /\ call'.request = call.request
      /\ \/ call'.pc = "upstream" /\ call'.principal = Key /\ Key # Null
         \/ call'.pc = "refused"
  BY <1>1, <1>2, <1>3 DEF Call
<1>5. Control'
  <2>1. Key' = Key
    BY <1>1, <1>4 DEF Key
  <2>. QED BY <1>1, <1>2, <1>4, <2>1 DEF IInv, Control, Answered
<1>6. Books'
  BY <1>1, <1>2 DEF Books
<1>7. Stream'
  BY <1>1, <1>2, <1>4 DEF IInv, Stream
<1>8. ChargedWithoutCallback'
  BY <1>4 DEF ChargedWithoutCallback
<1>. QED BY <1>5, <1>6, <1>7, <1>8 DEF IInv

LEMMA AfterAnswer == IInv /\ Answer => IInv'
<1>. SUFFICES ASSUME IInv, Answer PROVE IInv'
  OBVIOUS
<1>1. PICK r \in Responses : call' = [call EXCEPT !.pc = "response", !.response = r]
  BY DEF Answer
<1>2. call.pc = "upstream" /\ UNCHANGED <<cfg, streamUsage, remembered, charges, calm>>
  BY DEF Answer
<1>3. /\ call \in Call /\ call.response = Null /\ call.chunk = 1
      /\ charges = <<>> /\ remembered = {} /\ streamUsage = <<>>
  BY <1>2 DEF IInv, Control, Stream
<1>4. /\ call' \in Call /\ call'.response = r /\ call'.chunk = 1 /\ call'.pc = "response"
      /\ call'.request = call.request /\ call'.principal = call.principal
  BY <1>1, <1>3 DEF Call
<1>5. Len(Bodies(r)) \in {1, 2}
  BY DocumentsAre
<1>6. Control'
  <2>1. Key' = Key
    BY <1>2, <1>4 DEF Key
  <2>2. call'.chunk <= Len(Bodies(call'.response))
    <3>1. 1 <= Len(Bodies(r))
      BY <1>5
    <3>. QED BY <1>4, <3>1
  <2>. QED BY <1>2, <1>4, <2>1, <2>2 DEF IInv, Control, Answered
<1>7. Books'
  BY <1>2, <1>3 DEF Books
<1>8. Stream'
  BY <1>2, <1>3, <1>4 DEF Stream
<1>9. ChargedWithoutCallback'
  BY <1>4 DEF ChargedWithoutCallback
<1>. QED BY <1>6, <1>7, <1>8, <1>9 DEF IInv

LEMMA AfterInterrupt == IInv /\ Interrupt => IInv'
<1>. SUFFICES ASSUME IInv, Interrupt PROVE IInv'
  OBVIOUS
<1>1. /\ call.pc = "response" /\ call' = [call EXCEPT !.pc = "done"]
      /\ calm' = calm \ {"response"} /\ UNCHANGED <<cfg, streamUsage, remembered, charges>>
  BY DEF Interrupt
<1>2. /\ call' \in Call /\ call'.pc = "done" /\ call'.request = call.request
      /\ call'.principal = call.principal /\ call'.response = call.response
      /\ call'.callback = call.callback
  BY <1>1 DEF IInv, Control, Call
<1>3. Control'
  BY <1>1, <1>2 DEF IInv, Control, Key, Answered
<1>4. Books'
  BY <1>1, <1>2, BooksStand DEF IInv
<1>5. Stream'
  BY <1>1, <1>2 DEF IInv, Stream
<1>6. ChargedWithoutCallback'
  BY <1>1 DEF ChargedWithoutCallback
<1>. QED BY <1>3, <1>4, <1>5, <1>6 DEF IInv

LEMMA AfterUsage == IInv /\ handleUsage => IInv'
<1>. SUFFICES ASSUME IInv, handleUsage PROVE IInv'
  OBVIOUS
<1>1. /\ Answered /\ call.callback = FALSE /\ call' = [call EXCEPT !.callback = TRUE]
      /\ Record(call.principal, FromCPA(Detail(call.response)))
      /\ UNCHANGED <<cfg, streamUsage, calm>>
  BY DEF handleUsage, Answered, IInv, Control, Call
<1>2. /\ call \in Call /\ call.response \in Responses /\ call.principal \in KeyValues
  BY <1>1 DEF IInv, Control, Call, Answered
<1>3. /\ call' \in Call /\ call'.callback = TRUE /\ call'.pc = call.pc
      /\ call'.request = call.request /\ call'.chunk = call.chunk
      /\ call'.principal = call.principal /\ call'.response = call.response
  BY <1>1, <1>2 DEF Call
<1>. DEFINE event == FromCPA(Detail(call.response))
<1>4. event \in Event /\ AsUsed(call.response, Columns(event))
  BY <1>2, HostChargesAsUsed, UsedIsNat
<1>. HIDE DEF event
<1>5. /\ remembered' \subseteq KeyValues
      /\ charges' \in Seq(Charge)
      /\ charges' # <<>>
      /\ "sources" \in calm /\ (charges # <<>> => call.response.tagged) =>
           /\ remembered' \subseteq {call.principal}
           /\ \A i \in DOMAIN charges' : charges'[i].key = call.principal
           /\ Len(charges') <= 1
           /\ call.response.tagged => call.principal \in remembered'
      /\ \A i \in DOMAIN charges' :
           \/ i \in DOMAIN charges /\ charges'[i] = charges[i]
           \/ charges'[i].columns = Columns(event)
  BY <1>1, <1>2, <1>4, Recorded DEF IInv, event
<1>6. "sources" \in calm /\ charges # <<>> => call.response.tagged
  BY <1>1 DEF IInv, Books
<1>7. "response" \in calm =>
        \A i \in DOMAIN charges' : AsUsed(call.response, charges'[i].columns)
  BY <1>4, <1>5 DEF IInv, Books
<1>8. Control'
  BY <1>1, <1>3 DEF IInv, Control, Key, Answered
<1>9. Books'
  BY <1>1, <1>3, <1>5, <1>6, <1>7 DEF Books
<1>10. Stream'
  BY <1>1, <1>3 DEF IInv, Stream
<1>11. ChargedWithoutCallback'
  BY <1>5 DEF ChargedWithoutCallback
<1>. QED BY <1>8, <1>9, <1>10, <1>11 DEF IInv

LEMMA AfterResponse == IInv /\ interceptResponse => IInv'
<1>. SUFFICES ASSUME IInv, interceptResponse PROVE IInv'
  OBVIOUS
<1>. DEFINE r == call.response
            body == Bodies(r)[call.chunk]
<1>1. /\ call.pc = "response" /\ r.sent = "whole" /\ PassOn
      /\ recordInterceptedUsage(body) /\ UNCHANGED <<cfg, streamUsage, calm>>
  BY DEF interceptResponse, Body
<1>2. /\ r \in Responses /\ call.chunk \in 1 .. 2 /\ call.chunk <= Len(Bodies(r))
  BY <1>1 DEF IInv, Control, Call, Answered
<1>3. Len(Bodies(r)) = 1 /\ Bodies(r)[1] = <<WholeBody(r)>>
  BY <1>1, <1>2, DocumentsAre
<1>4. call.chunk = 1
  <2>. DEFINE n == Len(Bodies(r))
  <2>1. n = 1 /\ call.chunk <= n
    BY <1>2, <1>3
  <2>. HIDE DEF n
  <2>. QED BY <1>2, <2>1
<1>5. Reported(body) = {Report(r)} \ {NoUsage} /\ Report(r) # NoUsage
  BY <1>2, <1>3, <1>4, ReportedBy, ReportsSomething
<1>6. HasInterceptedUsage(body) /\ AsUsed(r, Columns(FromInterceptedResponse(body)))
  BY <1>2, <1>5, BodyIsChargedAsUsed DEF HasInterceptedUsage
<1>7. /\ call'.response = r /\ call'.pc = "done"
  BY <1>1, <1>3, <1>4, Passed DEF IInv
<1>8. /\ Books'
      /\ "sources" \in calm /\ r.tagged => charges' # <<>>
  <2>1. Control /\ Books
    BY DEF IInv
  <2>. HIDE DEF body
  <2>. QED BY <1>1, <1>5, <1>6, <2>1, Intercepted
<1>9. Control'
  BY <1>1, ControlPasses DEF IInv
<1>10. Stream'
  BY <1>1, <1>7 DEF IInv, Stream
<1>11. ChargedWithoutCallback'
  BY <1>1, <1>7, <1>8 DEF ChargedWithoutCallback
<1>. QED BY <1>8, <1>9, <1>10, <1>11 DEF IInv

LEMMA AfterChunk == IInv /\ interceptStreamChunk => IInv'
<1>. SUFFICES ASSUME IInv, interceptStreamChunk PROVE IInv'
  OBVIOUS
<1>. DEFINE r == call.response
            n == call.chunk
            body == Bodies(r)[n]
            key == ExtractAPIKey(WithoutQuery(call.request), cfg.sources)
            known == r.tagged /\ key # Null
            kept == IF HasInterceptedUsage(body) THEN streamUsage \o body ELSE streamUsage
            terminal == HasTerminalStreamUsage(body)
<1>1. /\ call.pc = "response" /\ r.sent # "whole" /\ PassOn /\ UNCHANGED <<cfg, calm>>
      /\ streamUsage' = IF ~known THEN streamUsage ELSE IF terminal THEN <<>> ELSE kept
      /\ IF known /\ terminal /\ kept # <<>> THEN recordInterceptedUsage(kept)
         ELSE UNCHANGED <<remembered, charges>>
  BY DEF interceptStreamChunk, Body
<1>2. /\ r \in Responses /\ n \in 1 .. 2 /\ n <= Len(Bodies(r)) /\ r # Null
      /\ call.principal # Null /\ Control /\ Books
  BY <1>1, ResponseChargeAssumption DEF IInv, Control, Call, Answered
<1>3. /\ streamUsage \in Seq(Documents(r)) /\ body \in Seq(Documents(r))
      /\ kept \in Seq(Documents(r))
  <2>1. streamUsage \in Seq(Documents(r))
    BY <1>2 DEF IInv, Stream
  <2>2. body \in Seq(Documents(r))
    BY <1>2, BodyHasDocuments
  <2>. QED BY <2>1, <2>2, ConcatProperties
<1>4. "sources" \in calm => (known <=> r.tagged)
  BY <1>1, <1>2, InterceptedKey DEF Control
<1>5. /\ call'.response = r /\ call'.principal = call.principal
      /\ call'.callback = call.callback
      /\ \/ n = Len(Bodies(r)) /\ call'.pc = "done"
         \/ n # Len(Bodies(r)) /\ n = 1 /\ call'.pc = "response" /\ call'.chunk = 2
  BY <1>1, <1>2, Passed
<1>6. "response" \in calm => "sources" \in calm
  BY <1>2 DEF Control
<1>7. ASSUME "response" \in calm, r.tagged
      PROVE  /\ terminal /\ HasInterceptedUsage(kept) =>
                  AsUsed(r, Columns(FromInterceptedResponse(kept)))
             /\ n = Len(Bodies(r)) => terminal
             /\ n = Len(Bodies(r)) /\ ~Several(r) => kept # <<>> /\ HasInterceptedUsage(kept)
             /\ n # Len(Bodies(r)) => (terminal <=> r.repeats)
             /\ ~terminal => n = 1 /\ kept = IF HasInterceptedUsage(Bodies(r)[1])
                                             THEN Bodies(r)[1] ELSE <<>>
  <2>1. streamUsage = IF n = 2 /\ ~r.repeats /\ HasInterceptedUsage(Bodies(r)[1])
                      THEN Bodies(r)[1] ELSE <<>>
    BY <1>1, <1>7 DEF IInv, Stream
  <2>2. kept = IF HasInterceptedUsage(Bodies(r)[n]) THEN streamUsage \o Bodies(r)[n]
               ELSE streamUsage
    OBVIOUS
  <2>3. r \in Responses /\ r.sent # "whole" /\ n \in 1 .. 2 /\ n <= Len(Bodies(r))
    BY <1>1, <1>2
  <2>4. KeptWhole(r, n, kept)
    <3>. HIDE DEF kept, r, n
    <3>. QED BY <2>1, <2>2, <2>3, KeptBody
  <2>. HIDE DEF kept, r, n
  <2>. QED BY <2>4 DEF KeptWhole
<1>8. ASSUME known, terminal, kept # <<>>
      PROVE  /\ Books'
             /\ "sources" \in calm /\ r.tagged /\ HasInterceptedUsage(kept) => charges' # <<>>
  <2>1. recordInterceptedUsage(kept) /\ streamUsage' = <<>>
    BY <1>1, <1>8
  <2>2. \/ Reported(kept) \in SUBSET {First(r), Second(r)}
        \/ Reported(kept) \in SUBSET {Report(r)}
    BY <1>2, <1>3, DocumentsReport
  <2>3. "response" \in calm /\ HasInterceptedUsage(kept) =>
          AsUsed(r, Columns(FromInterceptedResponse(kept)))
    BY <1>7, <1>8
  <2>4. /\ Books'
        /\ "sources" \in calm /\ r.tagged /\ HasInterceptedUsage(kept) => charges' # <<>>
    <3>. HIDE DEF kept
    <3>. QED BY <1>1, <1>2, <2>1, <2>2, <2>3, Intercepted
  <2>. QED BY <2>1, <2>4
<1>9. ASSUME ~(known /\ terminal /\ kept # <<>>)
      PROVE  Books'
  <2>1. UNCHANGED <<remembered, charges>>
    BY <1>1, <1>9
  <2>2. calm' \subseteq calm
    BY <1>1
  <2>. QED BY <1>2, <1>5, <2>1, <2>2, BooksStand
<1>10. Books'
  BY <1>8, <1>9
<1>11. Control'
  BY <1>1, <1>2, ControlPasses
<1>12. Stream'
  <2>1. streamUsage' \in Seq(Documents(r))
    <3>1. <<>> \in Seq(Documents(r))
      OBVIOUS
    <3>. HIDE DEF kept
    <3>. QED BY <1>1, <1>3, <3>1
  <2>2. ASSUME "response" \in calm, call'.pc = "response"
        PROVE  streamUsage' = IF r.tagged /\ ~r.repeats /\ HasInterceptedUsage(Bodies(r)[1])
                              THEN Bodies(r)[1] ELSE <<>>
    <3>1. n # Len(Bodies(r)) /\ n = 1
      BY <1>5, <2>2
    <3>2. CASE ~r.tagged
      <4>1. streamUsage = <<>>
        BY <1>1, <2>2, <3>2 DEF IInv, Stream
      <4>. QED BY <1>1, <3>2, <4>1
    <3>3. CASE r.tagged
      BY <1>1, <1>4, <1>6, <1>7, <2>2, <3>1, <3>3
    <3>. QED BY <3>2, <3>3
  <2>3. call'.pc = "response" => call'.chunk = 2
    BY <1>5
  <2>. QED BY <1>1, <1>2, <1>5, <2>1, <2>2, <2>3 DEF Stream
<1>13. ChargedWithoutCallback'
  <2>1. ASSUME call'.pc = "done", "response" \in calm, r.tagged, ~Several(r)
        PROVE  charges' # <<>>
    <3>1. n = Len(Bodies(r))
      BY <1>5, <2>1
    <3>2. known /\ terminal /\ kept # <<>> /\ HasInterceptedUsage(kept) /\ "sources" \in calm
      BY <1>4, <1>6, <1>7, <2>1, <3>1
    <3>. QED BY <1>8, <2>1, <3>2
  <2>. QED BY <1>1, <1>5, <2>1 DEF ChargedWithoutCallback, Several
<1>. QED BY <1>10, <1>11, <1>12, <1>13 DEF IInv

-----------------------------------------------------------------------------
(* Theorems. *)

\* Every state a request can be in satisfies the invariant.
THEOREM ChargeInvariant == Spec => []IInv
<1>1. Init => IInv
  BY Initially
<1>2. IInv /\ [Next]_vars => IInv'
  BY StandsStill, AfterConfigure, AfterAuthenticate, AfterAnswer, AfterResponse, AfterChunk,
     AfterInterrupt, AfterUsage DEF Next
<1>. QED BY <1>1, <1>2, PTL DEF Spec

\* The variables have their types: events that convert.go makes of any number
\* of reports are natural numbers, and so is what RecordUsage adds to a row.
THEOREM TypeCorrect == Spec => []TypeOK
<1>1. IInv => TypeOK
  BY DEF IInv, Control, Books, Stream, Documents, TypeOK
<1>. QED BY <1>1, ChargeInvariant, PTL

\* Whatever keys a request carries and however the accepted sources are
\* listed and spelled, the interceptors charge the authenticated principal.
THEOREM SameKey == Spec => []SameKeyAttributed
<1>1. IInv => SameKeyAttributed
  BY DEF IInv, Books, SameKeyAttributed
<1>. QED BY <1>1, ChargeInvariant, PTL

\* Interceptors and callback charge a request once, whatever retention the
\* YAML asks for and however often an upstream repeats its report.
THEOREM Once == Spec => []ChargedOnce
<1>1. IInv => ChargedOnce
  BY DEF IInv, Books, ChargedOnce
<1>. QED BY <1>1, ChargeInvariant, PTL

\* In every format, from either delivery, for all numbers of tokens: the
\* columns are what the response used, and no more if its reports repeat.
THEOREM AsTheResponseSays == Spec => []ChargedAsUsed
<1>1. IInv => ChargedAsUsed
  BY DEF IInv, Books, ChargedAsUsed, AsUsed
<1>. QED BY <1>1, ChargeInvariant, PTL

\* The interceptors alone charge every response that ran to its end and that
\* they can read, whichever of its reports are zeros.
THEOREM StockHosts == Spec => []ChargedWithoutCallback
<1>1. IInv => ChargedWithoutCallback
  BY DEF IInv
<1>. QED BY <1>1, ChargeInvariant, PTL
=============================================================================
