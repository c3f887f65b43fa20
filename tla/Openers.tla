------------------------------- MODULE Openers -------------------------------
(***************************************************************************)
(* How a chart's URL is opened (NewRepo in pkg/kdo/repo.go): a chain of    *)
(* openers around the cache of DirCache. "catalog:x" is tried in every     *)
(* catalog, "helm://..." reads the index of a helm repository and opens    *)
(* the archive it names, http(s) URLs are loaded, a directory of the local *)
(* disk is taken as it is, and an archive there is extracted. An index is  *)
(* cached like any other URL, in an entry of its own; fragments only       *)
(* extend the path that is returned.                                       *)
(***************************************************************************)
EXTENDS DirCache, Sequences

CONSTANTS Urls,        \* what charts are asked for with
          Candidates,  \* Urls -> what each stands for, one for every catalog
          ChartOf,     \* Versions -> the name an index has for the chart, or NoName
          IndexFile    \* the file that the answer to a request for an index is written to

ASSUME CandidatesAssumption ==
    /\ DOMAIN Candidates = Urls
    /\ \A u \in Urls : Candidates[u] \in Seq([kind: {"archive", "helm", "directory"},
                                              name: Names \cup {NoName}])
    /\ \A u \in Urls : \A n \in DOMAIN Candidates[u] : LET c == Candidates[u][n] IN
          /\ c.kind # "directory" => c.name \in Names
          /\ c.kind = "helm" => \A v \in Offers[c.name] \ {Missing} : IndexFile \in FilesOf[v]
    /\ ChartOf \in [Versions -> Names \cup {NoName}]

VARIABLE request  \* Procs -> the chain that runs, or ran last

openerVars == <<vars, request>>

\* turn: the candidate that is tried; excused: those before it that had a reason of their
\* own to fail; index: the version of the index the server had.
Request0 == [at |-> "idle", url |-> NoName, turn |-> 0, excused |-> {}, index |-> Missing]

OpenersTypeOK ==
    /\ TypeOK
    /\ \A p \in Procs :
          /\ request[p].at \in {"idle", "next", "index", "archive", "opened", "failed"}
          /\ request[p].index \in Versions \cup {Missing}
          /\ \/ request[p] = Request0
             \/ /\ request[p].url \in Urls
                /\ request[p].turn \in 0..Len(Candidates[request[p].url])
                /\ request[p].excused \subseteq 1..request[p].turn
          /\ request[p].at \in {"index", "archive"} => proc[p].name # NoName
          /\ request[p].at \in {"idle", "next", "failed"} =>
                proc[p].step \in {"idle", "done", "error"}

OpenersInit == Init /\ request = [p \in Procs |-> Request0]

Asked(p, at) == request[p].at = at
Turn(p, record) == request' = [request EXCEPT ![p] = record]
Left(p) == Len(Candidates[request[p].url]) - request[p].turn
NextCandidate(p) == Candidates[request[p].url][request[p].turn + 1]

-----------------------------------------------------------------------------

\* repoImpl.Get
Ask(p) ==
    /\ request[p].at \in {"idle", "opened", "failed"}
    /\ opens < MaxOpens
    /\ \E u \in Urls : Turn(p, [Request0 EXCEPT !.at = "next", !.url = u])
    /\ UNCHANGED vars

\* openWithCatalogs takes the next catalog: openURL the archive there, or openLocal a
\* local one, ...
TryArchive(p) ==
    /\ Asked(p, "next") /\ Left(p) > 0
    /\ NextCandidate(p).kind = "archive"
    /\ Open(p, NextCandidate(p).name)
    /\ Turn(p, [request[p] EXCEPT !.turn = @ + 1, !.at = "archive", !.index = Missing])

\* ... openHelm the index next to the chart.
TryHelm(p) ==
    /\ Asked(p, "next") /\ Left(p) > 0
    /\ NextCandidate(p).kind = "helm"
    /\ Open(p, NextCandidate(p).name)
    /\ Turn(p, [request[p] EXCEPT !.turn = @ + 1, !.at = "index"])

\* openLocal: what is no directory is opened as an archive, which is not there.
TryDirectory(p) ==
    /\ Asked(p, "next") /\ Left(p) > 0
    /\ NextCandidate(p).kind = "directory"
    /\ \/ Turn(p, [request[p] EXCEPT !.turn = @ + 1, !.at = "opened"])
       \/ Turn(p, [request[p] EXCEPT !.turn = @ + 1, !.excused = @ \cup {request[p].turn + 1}])
    /\ Goto(p, Idle0)
    /\ UNCHANGED <<metadata, content, server, second, opens, faults>>

\* (variant: only a catalog that cannot be reached is passed over)
FailsAtOnce(p) ==
    /\ Asked(p, "index") \/ Asked(p, "archive")
    /\ At(p, "error")
    /\ Turn(p, [request[p] EXCEPT !.at = IF Answer(p) = Missing THEN "failed" ELSE "next",
                   !.excused = IF proc[p].failed THEN @ \cup {request[p].turn} ELSE @])
    /\ UNCHANGED vars

\* An error of a candidate: the next one is tried, and the last error returned.
CandidateFails(p) ==
    /\ Asked(p, "index") \/ Asked(p, "archive")
    /\ At(p, "error")
    /\ Turn(p, [request[p] EXCEPT !.at = "next",
                   !.excused = IF proc[p].failed THEN @ \cup {request[p].turn} ELSE @])
    /\ UNCHANGED vars

NoneLeft(p) ==
    /\ Asked(p, "next") /\ Left(p) = 0
    /\ Turn(p, [request[p] EXCEPT !.at = "failed"])
    /\ UNCHANGED vars

Indexed(p) == content[proc[p].name][proc[p].meta.generation][IndexFile]

\* openHelm decodes the index in the directory it was given and opens what it names.
ReadIndex(p) ==
    /\ Asked(p, "index") /\ At(p, "done")
    /\ ChartOf[Indexed(p)] # NoName
    /\ Open(p, ChartOf[Indexed(p)])
    /\ Turn(p, [request[p] EXCEPT !.at = "archive", !.index = proc[p].served])

\* The chart is not in the index, or deprecated: then the helm URL itself is opened,
\* which none of the other openers knows.
NotIndexed(p) ==
    /\ Asked(p, "index") /\ At(p, "done")
    /\ ChartOf[Indexed(p)] = NoName
    /\ Turn(p, [request[p] EXCEPT !.at = "next", !.excused = @ \cup {request[p].turn}])
    /\ UNCHANGED vars

ArchiveOpened(p) ==
    /\ Asked(p, "archive") /\ At(p, "done")
    /\ Turn(p, [request[p] EXCEPT !.at = "opened"])
    /\ UNCHANGED vars

ProcessDies(p) == Dies(p) /\ Turn(p, Request0)

OpenersNext ==
    \/ \E p \in Procs :
          \/ Ask(p) \/ TryArchive(p) \/ TryHelm(p) \/ TryDirectory(p)
          \/ CandidateFails(p) \/ NoneLeft(p) \/ ReadIndex(p) \/ NotIndexed(p) \/ ArchiveOpened(p) \/ ProcessDies(p)
          \/ Work(p) /\ UNCHANGED request
    \/ (Upload \/ Tick) /\ UNCHANGED request

OpenersSpec == OpenersInit /\ [][OpenersNext]_openerVars

-----------------------------------------------------------------------------
(* Properties *)

\* "latest helm chart in this helm repository": what a URL is opened as is all of what
\* the server had under the name when it was asked; for a helm URL, under the name the
\* index had that the server sent, however old what lay in the cache was.
OpenedIsServed ==
    \A p \in Procs : Asked(p, "opened") /\ proc[p].name # NoName =>
        /\ Complete(proc[p].name, proc[p].meta.generation, proc[p].served)
        /\ request[p].index # Missing => proc[p].name = ChartOf[request[p].index]

\* What a candidate is loaded from.
LoadedFrom(c) ==
    LET listed == IF c.kind = "helm" THEN {ChartOf[v] : v \in Offers[c.name] \ {Missing}} ELSE {}
    IN  ({c.name} \cup listed) \ {NoName}

PassedOver(r) ==
    CASE r.at = "opened" -> 1..(r.turn - 1)
      [] r.at = "failed" -> DOMAIN Candidates[r.url]
      [] OTHER -> {}

\* Two failings of kdo's own: metadata left half written, which no later open gets past,
\* and another credential sent than the one that is meant, which would have done.
InTheWay(n) ==
    \/ metadata[n] = Broken
    \/ Meant(n) \in Accepted[n] /\ Sent(n) \notin Accepted[n]

\* "They are tried in the given order": every catalog before the one a chart comes from,
\* and every one if it is not found, had a reason of its own to fail, or lies behind one of
\* the two failings: not for a stale tag, an earlier failure or what another catalog did.
CatalogsInOrder ==
    \A p \in Procs : \A i \in PassedOver(request[p]) \ request[p].excused :
        \E n \in LoadedFrom(Candidates[request[p].url][i]) : InTheWay(n)
=============================================================================
