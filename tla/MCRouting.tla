----------------------------- MODULE MCRouting -----------------------------
EXTENDS Routing

MCSegments == {"", "..", "a", "b", "v", "w", "assets"}
MCBytes == [s \in MCSegments |-> CASE s = "" -> 0 [] s = ".." -> 2 [] s = "assets" -> 6
                                  [] OTHER -> 1]

Entry(n, public, upstream) ==
  [name |-> n, rooted |-> TRUE, prefix |-> public, target |-> upstream, absolute |-> TRUE]

MCEntries == {
  Entry("a", <<"a">>, <<"v">>),
  Entry("b", <<"a", "">>, <<"w", "">>),
  Entry("ab", <<"a", "b">>, << >>),
  Entry("assets", <<"assets">>, <<"v">>),
  Entry("a", <<"a", "b", "a">>, <<"">>),
  Entry("root", <<"">>, <<"v">>),
  Entry("", <<"a">>, <<"v">>),
  [Entry("loose", <<"a">>, <<"v">>) EXCEPT !.rooted = FALSE] }

MCReadNames == {"a", "b", "assets"}
MCReadPaths == {<<"b">>, <<"a", "b">>}

MCPaths ==
  {<<"">>, <<"a">>, <<"a", "">>, <<"a", "b">>, <<"a", "b", "">>, <<"a", "b", "a">>,
   <<"a", "b", "a", "b">>, <<"b">>, <<"assets">>, <<"assets", "b">>, <<"a", "assets">>,
   <<"", "">>, <<"a", "", "">>, <<"a", "", "b">>, <<"a", "", "", "b">>, <<"a", "b", "", "">>,
   <<"a", "b", "", "a">>, <<"a", "", "b", "a">>, <<"a", "..", "assets">>}
=============================================================================
