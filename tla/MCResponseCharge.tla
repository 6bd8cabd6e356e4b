-------------------------- MODULE MCResponseCharge --------------------------
(* Instances of ResponseCharge for TLC. *)
EXTENDS ResponseCharge

CONSTANTS k1, k2

Raw == [sources |-> Null, access |-> Null, days |-> Null, dottedDays |-> Null,
        period |-> Null, metric |-> Null]

Odd(name) == [name |-> name, odd |-> TRUE]

\* Lists of sources, fine and refused, spelled in any way; retentions of no
\* days in either spelling; words in odd spelling and unknown ones.
SomeConfigs ==
    {[Raw EXCEPT !.sources = <<>>],
     [Raw EXCEPT !.sources = <<Word("x_api_key"), Odd("authorization_bearer")>>,
                 !.days = 0],
     [Raw EXCEPT !.sources = <<Odd("query_key"), Word("x_api_key")>>],
     [Raw EXCEPT !.sources = <<Word("x_goog_api_key"), Word("no_source")>>,
                 !.period = Odd("weekly"), !.metric = Odd("")],
     [Raw EXCEPT !.days = 3, !.dottedDays = -1, !.access = Odd("allow")],
     [Raw EXCEPT !.access = Odd("")],
     [Raw EXCEPT !.metric = Word("input_tokens")]}

\* Keys in two headers and in the query.
SomeRequests ==
    {[s \in Sources |->
        CASE s = "authorization_bearer" -> k[1]
          [] s = "x_api_key" -> k[2]
          [] s = "query_key" -> k[3]
          [] OTHER -> Null] :
        k \in {<<k1, k2, Null>>, <<Null, k2, k1>>, <<Null, Null, k1>>, <<k1, Null, k2>>}}

\* Numbers that no sum confuses, and zeros.
Reports ==
    [format : {"chat", "responses", "claude", "gemini", "gemini_cli"},
     fresh : {16}, read : {0, 32}, write : {0, 64}, output : {0, 7},
     reasoning : {0, 2}, opening : {0, 1}, repeats : BOOLEAN,
     sent : {"whole", "framed", "bare", "batched"}, tagged : BOOLEAN]

\* Only Claude writes its cache and tells no reasoning; only chat upstreams
\* repeat; output does not shrink.
SomeResponses ==
    {r \in Reports :
        /\ r.write > 0 => r.format = "claude"
        /\ r.reasoning > 0 => r.format # "claude" /\ r.output > 0
        /\ r.repeats => r.format = "chat" /\ r.sent \in {"framed", "bare"}
        /\ r.opening <= r.output
        /\ r.opening > 0 => r.sent # "whole"}
=============================================================================
