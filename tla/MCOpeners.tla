------------------------------ MODULE MCOpeners ------------------------------
(***************************************************************************)
(* An instance of Openers for TLC: a chart that is looked for in three     *)
(* catalogs, under a URL, in a helm repository and in a directory.  What   *)
(* is under the URL has a tag and two files, and may be missing.  The      *)
(* index, sent without a tag or with one, moves from one archive to        *)
(* another, and loses the chart.  There are URLs of a helm repository      *)
(* alone, of a local archive that is written anew, and of a chart that is  *)
(* private in one catalog and not in the next.                             *)
(***************************************************************************)
EXTENDS Openers

CONSTANTS p1, u1, u2, u3, u4, chart, index, archive, file, private, f1, f2, v1, i1, i2, i3, a1, l1, l2

MCOffers == [n \in Names |-> CASE n = chart -> {v1, Missing}
                               [] n = index -> {i1, i2, i3}
                               [] n \in {archive, private} -> {a1}
                               [] n = file -> {l1, l2}]
MCFilesOf == [v \in Versions |-> IF v = v1 THEN {f1, f2} ELSE {f1}]
MCTagOf == [v \in Versions |-> IF v \in {i1, i2} THEN NoTag ELSE v]
MCChartOf == [v \in Versions |-> CASE v = i1 -> archive [] v = i2 -> chart [] OTHER -> NoName]
MCModTime == [v \in Versions |-> IF v = l2 THEN 2 ELSE 1]
MCCandidates == [u \in Urls |->
    CASE u = u1 -> <<[kind |-> "archive", name |-> chart], [kind |-> "helm", name |-> index],
                     [kind |-> "directory", name |-> NoName]>>
      [] u = u2 -> <<[kind |-> "helm", name |-> index]>>
      [] u = u3 -> <<[kind |-> "archive", name |-> file]>>
      [] OTHER -> <<[kind |-> "archive", name |-> private], [kind |-> "archive", name |-> archive]>>]
\* Two credentials fit the chart.  The one that is meant for it is also the last one; the
\* one for the private archive is not.
MCCredentials == <<[urls |-> {chart, private}, length |-> 1], [urls |-> {chart}, length |-> 2]>>
MCAccepted == [n \in Names |-> CASE n = chart -> {2}
                                 [] n = private -> {1}
                                 [] OTHER -> {Anonymous}]
=============================================================================
