----------------------------- MODULE MCNotifier -----------------------------
(***************************************************************************)
(* Databases for Notifier: two rows of which the second covers Monday      *)
(* noon, or none; recipients that are enabled and one that is not.         *)
(***************************************************************************)
EXTENDS Notifier

At(day, hour) == [weekday |-> day, hour |-> hour]
Row(d1, h1, d2, h2) == [begin |-> At(d1, h1), end |-> At(d2, h2)]

MCContents ==
    {[intervals |-> <<Row(6, 22, 0, 7), Row(1, 8, 1, 12)>>,
      sms |-> <<TRUE, TRUE>>, email |-> <<FALSE, TRUE>>],
     [intervals |-> <<>>, sms |-> <<FALSE>>, email |-> <<TRUE>>]}

MCMoments == {At(1, 12), At(1, 13)}
==============================================================================
