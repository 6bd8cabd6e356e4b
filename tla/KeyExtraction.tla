---------------------------- MODULE KeyExtraction ----------------------------
(***************************************************************************)
(* auth.ExtractAPIKey: the first accepted source that holds a key.  A      *)
(* request is the key found at each place, Null where there is none: no    *)
(* value, a blank one, or an Authorization that is not a Bearer.           *)
(***************************************************************************)
EXTENDS ConfigLoad, FiniteSetsExt

HeaderSources == {"authorization_bearer", "x_api_key", "x_goog_api_key"}

QuerySources == {"query_key", "query_auth_token"}

Sources == HeaderSources \cup QuerySources

\* Without a list every source is accepted, the query ones last.
Listed(sources) ==
    IF sources = <<>>
    THEN Append(Append(defaultAcceptedSources, Word("query_key")), Word("query_auth_token"))
    ELSE sources

\* The positions of the list at which a key is found.
Found(request, sources) ==
    {i \in DOMAIN Listed(sources) :
        LET source == Normal(Listed(sources)[i])
        IN  source \in Sources /\ request[source] # Null}

\* Mutated form: the name of the source is returned for the key.
ExtractAPIKey_Mutant(request, sources) ==
    IF Found(request, sources) = {} THEN Null
    ELSE Normal(Listed(sources)[Min(Found(request, sources))])

ExtractAPIKey(request, sources) ==
    IF Found(request, sources) = {} THEN Null
    ELSE request[Normal(Listed(sources)[Min(Found(request, sources))])]

\* What a response interceptor sees of a request: query is nil.
WithoutQuery(request) ==
    [source \in Sources |-> IF source \in QuerySources THEN Null ELSE request[source]]
=============================================================================
