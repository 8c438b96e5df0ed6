--------------------------- MODULE MCCoverageTable ---------------------------
(***************************************************************************)
(* Tables for CoverageTable: the one in src/Scripts/config/picam.sqlite,   *)
(* and two rows that the page skips before one or two that it shows, with  *)
(* their ends at the edges of days and of the week.                        *)
(***************************************************************************)
EXTENDS CoverageTable

At(weekday, hour) == [weekday |-> weekday, hour |-> hour]
Row(d1, h1, d2, h2) == [begin |-> At(d1, h1), end |-> At(d2, h2)]

Shipped ==
    <<Row(0, 19, 1, 17), Row(6, 22, 0, 7), Row(5, 22, 6, 7), Row(4, 22, 5, 17),
      Row(3, 22, 4, 17), Row(2, 22, 3, 17), Row(1, 22, 2, 17)>>

Skipped == <<Row(1, 0, 1, 5), Row(3, 22, 3, 23)>>

Edges == {At(0, 0), At(0, 23), At(3, 12), At(6, 0), At(6, 23)}
EdgeRows == [begin : Edges, end : Edges]

MCTables ==
    {<<>>, Shipped, Skipped, Append(Shipped, Row(6, 8, 0, 18))}
        \cup {Append(Skipped, r) : r \in EdgeRows}
        \cup {Skipped \o <<r, Row(6, 22, 0, 7)>> : r \in EdgeRows}
==============================================================================
