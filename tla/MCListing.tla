----------------------------- MODULE MCListing -----------------------------
(***************************************************************************)
(* One file system for Listing:                                            *)
(*                                                                         *)
(*   r/ a.rb  notes  socket  dangling -> (nothing)  l1 -> x/s  l2 -> x     *)
(*   r/d/ b.rb     r/u/ (cannot be opened)                                 *)
(*   r/x/ c.rb       excluded, through the link ex -> r/x                  *)
(*   r/x/s/ e.rb                                                           *)
(***************************************************************************)
EXTENDS Listing

MCPaths == {"r", "a", "notes", "socket", "dangling", "l1", "l2", "d", "b",
            "x", "c", "s", "e", "ex", "u"}
MCKind == [p \in MCPaths |->
    CASE p \in {"r", "d", "x", "s", "u"} -> "dir"
      [] p \in {"dangling", "l1", "l2", "ex"} -> "link"
      [] p = "socket" -> "other"
      [] OTHER -> "file"]
MCEntries == [r |-> {"a", "notes", "socket", "dangling", "l1", "l2", "d", "x", "u"},
              d |-> {"b"}, x |-> {"c", "s"}, s |-> {"e"}, u |-> {}]
MCTarget == [dangling |-> "missing", l1 |-> "s", l2 |-> "x", ex |-> "x"]
MCRuby == {"a", "b", "c", "e"}

\* The trails that a walk from r can make, through excluded directories too.
MCJobs == {<<"r">>, <<"socket">>, <<"r", "d">>, <<"r", "u">>, <<"r", "s">>, <<"r", "x">>, <<"r", "x", "s">>}
MCSpawns == [j \in MCJobs |-> SpawnsOf(j)]
MCInitial == {<<p>> : p \in Roots}
MCMayPanic == {<<"r", "d">>}
=============================================================================
