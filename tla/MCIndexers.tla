----------------------------- MODULE MCIndexers -----------------------------
(***************************************************************************)
(* One file, of either language (build_local_graph in indexing.rs).  Ruby: *)
(* classes A and foo::A, read as A, A::A, foo::A and foo::A::A.  RBS:      *)
(* types A and ::A::A, methods with parameters and blocks.                 *)
(***************************************************************************)
EXTENDS RubyIndexer

VARIABLE language

Rbs == INSTANCE RbsIndexer

MCScopePaths == {Read("A"), [base |-> "dynamic", texts |-> <<"A">>]}
MCPaths == {Read("A"), [base |-> "read", texts |-> <<"A", "A">>],
            [base |-> "dynamic", texts |-> <<"A">>]}
MCTypeNames == {Read("A"), [base |-> "top", texts |-> <<"A", "A">>]}
MCFunctions == {<<<<"">>, <<"x">>, << >>, <<"">>, << >>, <<"">>, << >>>>,
                <<<< >>, << >>, <<"">>, << >>, <<"k">>, << >>, <<"">>>>}

Init ==
  \/ language = "ruby" /\ RubyInit
  \/ language = "rbs" /\ Rbs!RbsInit
Next ==
  /\ \/ language = "ruby" /\ RubyNext
     \/ language = "rbs" /\ Rbs!RbsNext
  /\ UNCHANGED language
Spec == Init /\ [][Next]_<<vars, language>>
=============================================================================
