----------------------------- MODULE ConfigLoad -----------------------------
(***************************************************************************)
(* config.Load: the YAML over the defaults, dotted fields over the nested  *)
(* ones, defaults again for what is empty, then Validate.  A raw value is  *)
(* a name and whether it is spelled oddly (upper case, blanks around it);  *)
(* the name "" spelled oddly is a blank string.  Of the fields that only   *)
(* have a default the retention stands for all.                            *)
(***************************************************************************)
EXTENDS Integers, Sequences, Functions

CONSTANT Null      \* a field that is absent, or a call that returned an error

Word(name) == [name |-> name, odd |-> FALSE]

defaultAcceptedSources ==
    <<Word("authorization_bearer"), Word("x_api_key"), Word("x_goog_api_key")>>

DefaultRetentionDays == 90

\* A nested field that is absent keeps Default()'s value.
Given(value, default) == IF value = Null THEN default ELSE value

\* strings.ToLower(strings.TrimSpace(value))
Normal(value) == value.name

\* Mutated form: sources are compared as they are spelled.
QuerySource_Mutant(source) == source \in {Word("query_key"), Word("query_auth_token")}

QuerySource(source) == Normal(source) \in {"query_key", "query_auth_token"}

Valid(cfg) ==
    /\ cfg.access \in {"deny", "allow"}
    /\ \A source \in Range(cfg.sources) : ~QuerySource(source)
    /\ cfg.period \in {"monthly", "weekly"}
    /\ cfg.metric \in {"total_tokens", "output_tokens"}

\* applyFlatDottedFields: a dotted number wins, anything else is ignored.
Days(raw) ==
    IF raw.dottedDays # Null THEN raw.dottedDays ELSE Given(raw.days, DefaultRetentionDays)

\* Mutated form: only a retention of zero is replaced.
Retention_Mutant(raw) == IF Days(raw) = 0 THEN DefaultRetentionDays ELSE Days(raw)

Retention(raw) == IF Days(raw) <= 0 THEN DefaultRetentionDays ELSE Days(raw)

\* Access is replaced when it is empty and trimmed afterwards, period and
\* metric the other way round.
Load(raw) ==
    LET sources == Given(raw.sources, defaultAcceptedSources)
        access  == Given(raw.access, Word("deny"))
        period  == Normal(Given(raw.period, Word("monthly")))
        metric  == Normal(Given(raw.metric, Word("output_tokens")))
        cfg == [sources   |-> IF sources = <<>> THEN defaultAcceptedSources ELSE sources,
                access    |-> IF access = Word("") THEN "deny" ELSE Normal(access),
                retention |-> Retention(raw),
                period    |-> IF period = "" THEN "monthly" ELSE period,
                metric    |-> IF metric = "" THEN "output_tokens" ELSE metric]
    IN  IF Valid(cfg) THEN cfg ELSE Null
=============================================================================
