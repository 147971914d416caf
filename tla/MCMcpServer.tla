---------------------------- MODULE MCMcpServer ----------------------------
(* Instances of McpServer for TLC. *)
EXTENDS McpServer

CONSTANTS f1, f2, f3

MCSpawns == [j \in Jobs |-> {}]
MCKindOf == [Foo |-> "class", Bar |-> "class", Mix |-> "module", run |-> "method"]
MCDeclares == (f1 :> {"Foo", "run"}) @@ (f2 :> {"Mix"}) @@ (f3 :> {"Foo", "Bar", "Mix"})
MCInherits == {<<"Bar", "Foo">>, <<"Foo", "Mix">>, <<"Bar", "Mix">>}
MCMentions == (f1 :> {"Foo", "Mix"}) @@ (f2 :> {}) @@ (f3 :> {"Foo"})
MCMaxLimit == [search |-> 2, descendants |-> 3, references |-> 1]
Session(tool, arg, limit) == [tool |-> tool, arg |-> arg, limit |-> limit, mode |-> "fuzzy"]
MCSessions ==
    {Session("search", NoFilter, 3), Session("search", "method", 1), Session("search", "class", 0),
     Session("descendants", "Mix", 2), Session("descendants", "run", 0),
     Session("references", "Foo", 5), Session("declaration", "nobody", 0),
     Session("file", f2, 0), Session("file", NoUri, 0), Session("stats", NoFilter, 0),
     [Session("search", NoFilter, 0) EXCEPT !.mode = "prefix"]}
=============================================================================
