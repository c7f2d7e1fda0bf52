------------------------------- MODULE DepsInv ------------------------------
(***************************************************************************)
(* The inductive invariant behind the theorems about krypt deps.           *)
(***************************************************************************)
EXTENDS Deps

\* The stages at which a source's entries are in hand, and all its stages.
InHand == pc \in {"prepare", "ask", "install", "readback"}
AtSource == InHand \/ pc = "refresh"

(***************************************************************************)
(* The source that is being done                                           *)
(***************************************************************************)
\* A source's entries are all for cargo or all for its manager.
SharesInv ==
    \A i \in DOMAIN queue : \A e \in ToSet(queue[i].es) : queue[i].m = "cargo" <=> e.src = "cargo"

\* winget has installed the entries it has been handed.
SourceInv ==
    /\ AtSource => queue # << >> /\ Source_ \in ToSet(report.used) /\ ~cmd.dry
    /\ InHand => ToSet(batch) \subseteq ToSet(Head(queue).es)
    /\ pc \in {"install", "readback", "refresh"} => ~cmd.check
    /\ pc = "install" /\ Source_ \in {"winget", "scoop"} =>
          left # << >> /\ ToSet(left) \subseteq ToSet(batch)
    /\ pc = "install" /\ Source_ = "winget" =>
          \A e \in ToSet(batch) : e \in ToSet(left) \/ Has("winget", e)
    /\ pc = "readback" => Source_ = "scoop"
    /\ ~Running => queue = << >>

(***************************************************************************)
(* ReportTrue                                                              *)
(***************************************************************************)
InstalledTrue ==
    ~cmd.dry /\ ~cmd.check =>
        \A e \in ToSet(report.installed) \cup ToSet(report.already) :
            \E m \in ToSet(report.used) : Has(m, e) /\ (m = "cargo" <=> e.src = "cargo")

\* Entry e still waits for source m.
Waits(m, e) ==
    \E i \in DOMAIN queue :
        /\ queue[i].m = m /\ e \in ToSet(queue[i].es)
        /\ i = 1 => pc # "refresh" /\ (InHand => e \in ToSet(batch))

\* The entries asked for, each with the source it is for.
Due ==
    UNION {{<<IF e.src = "cargo" THEN "cargo" ELSE Owner(g), e>> : e \in ToSet(g.lists[Owner(g)])} :
              g \in {h \in ToSet(job.groups) : Served(h)}}

\* While nothing has failed, what is asked for is there or waits.
NothingForgotten ==
    (Running \/ pc = "done") /\ ~cmd.dry /\ ~cmd.check /\ report.failed = << >> =>
        \A d \in Due : Has(d[1], d[2]) \/ Waits(d[1], d[2])

(***************************************************************************)
(* EachSettled                                                             *)
(***************************************************************************)
ToDo(q) == FlattenSeq([i \in DOMAIN q |-> q[i].es])

\* How often an entry has come out, and how often it has yet to.
Settled(e) ==
    Count(report.installed, e) + Count(report.already, e) + Count(report.found, e)
      + Count(report.missing, e) + Count([i \in DOMAIN report.failed |-> report.failed[i].e], e)

Unsettled(e) ==
    IF pc = "next" THEN Count(ToDo(queue), e)
    ELSE IF InHand THEN Count(batch, e) + Count(ToDo(Tail(queue)), e)
    ELSE IF pc = "refresh" THEN Count(ToDo(Tail(queue)), e)
    ELSE 0

EachAccounted ==
    Running \/ pc = "done" => \A e \in Entry : Count(Asked, e) = Settled(e) + Unsettled(e)

UnservedNamed ==
    Running \/ pc = "done" =>
        \A n \in GroupName :
            Count(report.unavailable, n)
              = Cardinality({i \in DOMAIN job.groups :
                    job.groups[i].group = n /\ ~Served(job.groups[i])})

(***************************************************************************)
(* ToolchainReached                                                        *)
(***************************************************************************)
RefreshFailed == \E i \in DOMAIN report.failed : report.failed[i].e = PathRefresh

\* A cargo that the run has installed is on its PATH, or on that of new
\* processes and the refresh is still to come, or that has failed.
CargoInv ==
    Running => \A x \in have \ job.others :
        "cargo" \in host.brings[x[2]] =>
            \/ "cargo" \in path
            \/ RefreshFailed
            \/ /\ host.os = "windows" /\ "cargo" \in registered
               /\ pc \in {"install", "readback", "refresh"}

DepsInv ==
    /\ TypeOK /\ SharesInv /\ SourceInv
    /\ InstalledTrue /\ NothingForgotten
    /\ EachAccounted /\ UnservedNamed
    /\ CargoInv
=============================================================================
