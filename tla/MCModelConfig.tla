---------------------------- MODULE MCModelConfig ----------------------------
(* Blogs and their posts in the default context, a log in one of its own. A   *)
(* post has a key of two fields, a blog a parent, a log a concurrency token.   *)
EXTENDS ModelConfig, TLC

Meta(table, keys) ==
    [table |-> table, keys |-> keys, column |-> [f \in {"id", "name"} |-> f]]

CompiledTypes ==
    [Blog |-> Meta("blogs", {"id"}), Post |-> Meta("posts", {"id", "name"}),
     Log |-> Meta("logs", {"id"})]

TokensOfTypes == [Blog |-> {}, Post |-> {}, Log |-> {"name"}]

KeyOfTypes == [Blog |-> "default", Post |-> "default", Log |-> "audit"]

Fluent(op, type, to) == [op |-> op, via |-> "entity", type |-> type, to |-> to, field |-> "name"]

In(context, call) == [key |-> context] @@ call

Registrations ==
    <<In("default", Fluent("to_table", "Post", "articles")),
      In("audit", Fluent("to_table", "Log", "app_logs")),
      In("audit", Fluent("has_column_name", "Log", "line"))>>

BuilderCalls ==
    {Fluent("has_query_filter", "Post", "published"), Fluent("to_table", "Blog", "weblogs"),
     Fluent("has_key", "Blog", {"name"}), Fluent("has_column_name", "Post", "title"),
     [Fluent("to_table", "Log", "old_logs") EXCEPT !.via = "apply_configuration"]}
RequestSymmetry == Permutations(Requests)
=============================================================================
