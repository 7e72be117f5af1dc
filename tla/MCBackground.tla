---------------------------- MODULE MCBackground ----------------------------
(***************************************************************************)
(* Constants for TLC: the smallest instance of each job that has two of    *)
(* what it races.                                                          *)
(***************************************************************************)
EXTENDS Background, TLC

\* Two positions of one market, drawn together, and one of a market that is
\* redeemed through the adapter.
MCMarketOf == "p1" :> "a" @@ "p2" :> "a" @@ "p3" :> "b"
MCListing == <<"a", "b">>

\* The scripts: one that rebuilds a table, two that add columns, one that rebuilds
\* a table after such a change, one for two tables, and one that is a transaction
\* of its own.
Statement(op, table, cols, needs) == [op |-> op, table |-> table, cols |-> cols, needs |-> needs]
Proposals(op, cols, needs) == Statement(op, "proposals", cols, needs)
MCScripts == <<
  <<Proposals("copy", {"id", "topic"}, {"id"}),
    Proposals("drop", {}, {}), Proposals("rename", {}, {})>>,
  <<Proposals("add", {"kind"}, {}), Proposals("add", {"ttl"}, {})>>,
  <<Proposals("add", {"alpha"}, {}),
    Proposals("copy", {"id", "topic", "kind", "ttl", "alpha"}, {"id", "topic", "kind", "ttl"}),
    Proposals("drop", {}, {}), Proposals("rename", {}, {})>>,
  <<Statement("add", "executions", {"category"}, {}), Proposals("add", {"block"}, {})>>,
  <<Proposals("add", {"meta"}, {})>>,
  <<Statement("atomic", "executions", {"id", "category"}, {"id", "category"})>> >>
MCBaseCols == "proposals" :> {"id"} @@ "executions" :> {"id"}
MCFullCols == "proposals" :> {"id", "topic", "kind", "ttl", "alpha", "block", "meta"}
                @@ "executions" :> {"id", "category"}
MCIndexed == "proposals" :> {"alpha"} @@ "executions" :> {}

\* The first and the last signal contend for the limit of a run and are for one
\* content; the one between them cannot be converted.
MCSignalOrder == <<"s1", "s2", "s3">>
MCContentOf == "s1" :> "x" @@ "s2" :> "y" @@ "s3" :> "x"

\* A book that cannot be had, and three of different depth.
MCBooks == {-1, 7000, 14000, 40000}
=============================================================================
