--------------------------- MODULE MCReportCycle ---------------------------
(* Small instances of ReportCycle: one tick stands for the least time that   *)
(* tells the delays of bao_init apart.                                       *)
EXTENDS ReportCycle

\* One object of every class, in the order of the vector baos, and the two
\* objects that carry the backfill.
AllOrder == <<"dingshi", "xiaoshi", "rainjia", "liuliang", "bubao", "lianlu">>
BackfillOrder == <<"xiaoshi", "bubao">>

KindOf(b) ==
    CASE b = "dingshi" -> "base" [] b = "xiaoshi" -> "cycle"
      [] b = "bubao" -> "bu" [] b = "lianlu" -> "raw" [] OTHER -> "jia"
Every(c, r, p) == [cycle |-> c, rec |-> r, rep |-> p]
IntervalOf(b) ==
    CASE b = "dingshi" -> Every(6, 1, 2)
      [] b = "xiaoshi" -> Every(6, 1, 3)
      [] b = "rainjia" -> Every(6, 2, 4)
      [] b = "liuliang" -> Every(0, 0, 0)
      [] b = "bubao" -> Every(4, 1, 2)
      [] b = "lianlu" -> Every(4, -2, -1)
TableOf(b) ==
    CASE b = "dingshi" -> "dingshi" [] b = "xiaoshi" -> "hour"
      [] b = "bubao" -> "bu" [] b = "lianlu" -> "" [] OTHER -> "jia"

MCKind == [b \in Bao |-> KindOf(b)]
MCInterval == [b \in Bao |-> IntervalOf(b)]

\* A period of bubao that is as long as a round of two reports.
DrainInterval == [MCInterval EXCEPT !["bubao"] = Every(5, 1, 2)]

MCTable == [b \in Bao |-> TableOf(b)]

NoClockSets == {}
BackAndForth == {7, 11}
=============================================================================
