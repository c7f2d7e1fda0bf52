-------------------------------- MODULE Deps --------------------------------
(***************************************************************************)
(* krypt deps (krypt-pkg/src/deps.rs and cmd_deps of the CLI): load the    *)
(* config, give each dependency group to the first manager that lists      *)
(* packages for it, then for the manager's and for cargo's share of each   *)
(* group set up its buckets, ask what is installed, install the rest and   *)
(* refresh the PATH; with --check, ask what could be installed.  Ctrl-C    *)
(* may end it at any step, and the user installs and removes packages.     *)
(***************************************************************************)
EXTENDS Include, Packages

CONSTANTS
    Homes,       \* the config trees krypt deps is run with
    GroupName,
    Cmds,        \* command lines: [manager, group, dry, check]
    NoChoice,    \* no --manager, no --group
    PathRefresh, \* the entry a failed PATH refresh is reported as
    MaxRuns,     \* bound on the runs
    MaxTouches   \* bound on the user's steps

Group == [group : GroupName, platforms : SUBSET {"all", "linux", "macos", "windows"},
          lists : [Manager -> Seq(Entry)]]

ASSUME DepsAssumption ==
    /\ \A t \in Homes \cup IncludeCases : \A f \in File :
          t[f] # Missing =>
              /\ t[f].include \in Seq(File) /\ t[f].deps \in Seq(Group)
              /\ t[f].hooks \in Seq(ToSet(t[f].hooks))
              /\ t[f].commands \in Seq(ToSet(t[f].commands))
    /\ PathRefresh \notin Entry /\ NoChoice \notin GroupName \cup Manager
    /\ \A c \in Cmds : ~(c.dry /\ c.check)
    /\ MaxRuns \in Nat /\ MaxTouches \in Nat

VARIABLES
    pc,      \* idle, or where the run is
    cmd,     \* its command line
    job,     \* the groups it was given and the managers it may use; and, for
             \* ToolchainReached, what others than the run have installed
    queue,   \* the sources still to do: [m, es]
    batch,   \* the entries of the current one that are in hand
    left,    \* those of them not yet handed to winget or scoop
    report,
    runs, touches

runVars == <<pc, cmd, job, queue, batch, left, report>>
vars == <<machineVars, runVars, runs, touches>>

NoCmd == [manager |-> NoChoice, group |-> NoChoice, dry |-> FALSE, check |-> FALSE]
Job == [groups : Seq(Group), managers : Seq(Manager), others : SUBSET (Source \X Pkg)]
NoJob == [groups |-> << >>, managers |-> << >>, others |-> {}]
Failure == [e : Entry \cup {PathRefresh}, why : {"source", "query", "install", "refresh"}]
ReportType ==
    [used : Seq(Source), unavailable : Seq(GroupName), failed : Seq(Failure),
     installed : Seq(Entry), already : Seq(Entry), found : Seq(Entry), missing : Seq(Entry)]
NoReport ==
    [used |-> << >>, installed |-> << >>, already |-> << >>, unavailable |-> << >>,
     found |-> << >>, missing |-> << >>, failed |-> << >>]

TypeOK ==
    /\ MachineTypeOK
    /\ pc \in {"idle", "refused", "next", "prepare", "ask", "install", "readback", "refresh", "done"}
    /\ cmd \in Cmds \cup {NoCmd}
    /\ job \in Job
    /\ queue \in Seq([m : Source, es : Seq(Entry)])
    /\ batch \in Seq(Entry) /\ left \in Seq(Entry)
    /\ report \in ReportType /\ IsInjective(report.used)
    /\ runs \in 0..MaxRuns /\ touches \in 0..MaxTouches

Init ==
    /\ MachineInit
    /\ pc = "idle" /\ cmd = NoCmd /\ job = NoJob
    /\ queue = << >> /\ batch = << >> /\ left = << >> /\ report = NoReport
    /\ runs = 0 /\ touches = 0

(***************************************************************************)
(* Planning                                                                *)
(***************************************************************************)
ForPlatform(groups) ==
    Those(groups, LAMBDA g : g.platforms = {} \/ {"all", host.os} \cap g.platforms # {})

candidate_managers(c) == IF c.manager = NoChoice THEN detect_all ELSE pick_by_name(c.manager)

Selected(c, groups) == Those(groups, LAMBDA g : c.group \in {NoChoice, g.group})

\* The candidates that list packages for a group; the first one gets it.
Listing(g, managers) == Among(managers, {m \in Manager : g.lists[m] # << >>})

unavailable(groups, managers) ==
    LET none == Those(groups, LAMBDA g : Listing(g, managers) = << >>)
    IN  [i \in DOMAIN none |-> none[i].group]

\* Mutant: a group is passed over if it has no entry for its manager.
sourcesOfNative(g, managers) ==
    LET m == Head(Listing(g, managers))
        share(src) == Those(g.lists[m], LAMBDA e : e.src = src)
    IN  IF share("native") = << >> THEN << >>
        ELSE Those(<<[m |-> m, es |-> share("native")], [m |-> "cargo", es |-> share("cargo")]>>,
                   LAMBDA s : s.es # << >>)

\* A group's entries for its manager, then its cargo: entries.
sources(g, managers) ==
    LET m == Head(Listing(g, managers))
        share(src) == Those(g.lists[m], LAMBDA e : e.src = src)
    IN  Those(<<[m |-> m, es |-> share("native")], [m |-> "cargo", es |-> share("cargo")]>>,
              LAMBDA s : s.es # << >>)

plan_groups(groups, managers) ==
    LET planned == Those(groups, LAMBDA g : Listing(g, managers) # << >>)
    IN  FlattenSeq([i \in DOMAIN planned |-> sources(planned[i], managers)])

(***************************************************************************)
(* The run                                                                 *)
(***************************************************************************)
Source_ == Head(queue).m

Report(slot, es) == [report EXCEPT ![slot] = @ \o es]
Because(es, why) == [i \in DOMAIN es |-> [e |-> es[i], why |-> why]]

NextSource == pc' = "next" /\ queue' = Tail(queue) /\ batch' = << >> /\ left' = << >>

Running == pc \notin {"idle", "refused", "done"}

Launch ==
    /\ ~Running /\ runs < MaxRuns /\ runs' = runs + 1
    /\ \E c \in Cmds, t \in Homes :
          LET cfg == load_with_includes(t)
              groups == IF cfg.err = "none" THEN Selected(c, ForPlatform(cfg.cfg.deps)) ELSE << >>
              managers == candidate_managers(c)
          IN  /\ cmd' = c
              /\ IF cfg.err # "none" \/ managers = << >>
                 THEN pc' = "refused" /\ queue' = << >> /\ report' = NoReport /\ job' = NoJob
                 ELSE /\ pc' = "next" /\ queue' = plan_groups(groups, managers)
                      /\ report' = [NoReport EXCEPT !.unavailable = unavailable(groups, managers)]
                      /\ job' = [groups |-> groups, managers |-> managers, others |-> have]
    /\ batch' = << >> /\ left' = << >>
    /\ path' = shell
    /\ UNCHANGED <<host, have, buckets, shell, registered, faults, touches>>

\* Mutant: a manager is noted with every group it handles.
note_managerAgain(used, m) == Append(used, m)

note_manager(used, m) == IF m \in ToSet(used) THEN used ELSE Append(used, m)

StartSource ==
    /\ pc = "next" /\ queue # << >>
    /\ LET noted == [report EXCEPT !.used = note_manager(@, Source_)]
       IN  IF cmd.dry
           THEN report' = [noted EXCEPT !.installed = @ \o Head(queue).es] /\ NextSource
           ELSE /\ report' = noted /\ batch' = Head(queue).es /\ pc' = "prepare"
                /\ UNCHANGED <<queue, left>>
    /\ UNCHANGED <<machineVars, cmd, job>>

Prepared == pc' = "ask" /\ UNCHANGED <<queue, left>>

\* Buckets are set up for scoop alone.
NothingToPrepare ==
    /\ pc = "prepare" /\ Source_ # "scoop"
    /\ Prepared
    /\ UNCHANGED <<machineVars, batch, report, cmd, job>>

\* Entries whose bucket is still missing are not looked at any more.
AddBuckets ==
    /\ pc = "prepare" /\ Source_ = "scoop" /\ Spawns("scoop")
    /\ \E added \in SUBSET wanted(batch) :
          /\ add_buckets(batch, added)
          /\ LET gone == wanted(batch) \ added
                 unready == Those(batch, LAMBDA e : e.bucket \in gone)
             IN  /\ report' = IF cmd.check THEN Report("missing", unready)
                              ELSE Report("failed", Because(unready, "source"))
                 /\ batch' = Those(batch, LAMBDA e : e.bucket \notin gone)
    /\ Prepared
    /\ UNCHANGED <<cmd, job>>

\* scoop cannot be run or its export cannot be read, before or after buckets
\* have been added.
PrepareFails ==
    /\ pc = "prepare" /\ Source_ = "scoop"
    /\ \/ ~Spawns("scoop") /\ UNCHANGED machineVars
       \/ Spawns("scoop") /\ Fault /\ UNCHANGED <<host, have, buckets, shell, path, registered>>
       \/ /\ Spawns("scoop") /\ wanted(batch) # {} /\ MayFail
          /\ \E added \in SUBSET wanted(batch) : add_buckets(batch, added)
    /\ report' = Report("failed", Because(batch, "source"))
    /\ NextSource
    /\ UNCHANGED <<cmd, job>>

Answers(es, answer, a) == Those(es, LAMBDA e : answer[e] = a)

\* Which of the entries are installed?  Nothing is left to do, not even a
\* refresh of the PATH, when all of them are.
AskInstalled ==
    /\ pc = "ask" /\ ~cmd.check
    /\ \E F \in {{}} \cup {{e} : e \in IF MayFail /\ Source_ \notin AnswersByStatus
                               THEN ToSet(batch) ELSE {}} :
          LET answer == [e \in ToSet(batch) |-> is_installed(Source_, e, e \in F)]
              to_install == Answers(batch, answer, "no")
          IN  /\ IF F = {} THEN NoFault ELSE Fault
              /\ report' = [report EXCEPT
                     !.already = @ \o Answers(batch, answer, "yes"),
                     !.failed = @ \o Because(Answers(batch, answer, "error"), "query")]
              /\ IF to_install = << >> THEN NextSource
                 ELSE /\ pc' = "install" /\ batch' = to_install /\ left' = to_install
                      /\ UNCHANGED queue
    /\ UNCHANGED <<host, have, buckets, shell, path, registered, cmd, job>>

\* Could they be installed?  brew adds the tap it is asked about.
AskExists ==
    /\ pc = "ask" /\ cmd.check
    /\ \E F \in {{}} \cup {{e} : e \in IF MayFail THEN ToSet(batch) ELSE {}} :
          LET taps == IF Spawns(Source_)
                      THEN {e.bucket : e \in {x \in ToSet(batch) \ F : Taps(Source_, x)}} \cap host.addable
                      ELSE {}
              answer == [e \in ToSet(batch) |-> exists(Source_, e, buckets \cup taps, e \in F)]
          IN  /\ IF F = {} THEN NoFault ELSE Fault
              /\ buckets' = buckets \cup taps
              /\ report' = [report EXCEPT
                     !.found = @ \o Answers(batch, answer, "yes"),
                     !.missing = @ \o Answers(batch, answer, "no"),
                     !.failed = @ \o Because(Answers(batch, answer, "error"), "query")]
    /\ NextSource
    /\ UNCHANGED <<host, have, shell, path, registered, cmd, job>>

\* Mutant: after a failed install the PATH is not refreshed.
InstalledQuietly(ok) ==
    IF ok THEN pc' = "refresh" /\ UNCHANGED queue ELSE pc' = "next" /\ queue' = Tail(queue)

\* Whatever became of the install, the PATH is refreshed after it.
Installed(ok) == pc' = "refresh" /\ UNCHANGED queue

Install ==
    /\ pc = "install" /\ Source_ \notin {"winget", "scoop"}
    /\ \E ok \in BOOLEAN :
          /\ InstallAtOnce(Source_, batch, ok)
          /\ report' = IF ok THEN Report("installed", batch)
                       ELSE Report("failed", Because(batch, "install"))
          /\ Installed(ok)
    /\ batch' = << >> /\ left' = << >>
    /\ UNCHANGED <<cmd, job>>

\* winget stops at the first package that fails, and then all are reported
\* as failed.
InstallWinget ==
    /\ pc = "install" /\ Source_ = "winget"
    /\ \E ok \in BOOLEAN :
          /\ InstallOne("winget", Head(left), ok)
          /\ IF ok /\ Len(left) > 1
             THEN left' = Tail(left) /\ UNCHANGED <<pc, queue, batch, report>>
             ELSE /\ report' = IF ok THEN Report("installed", batch)
                               ELSE Report("failed", Because(batch, "install"))
                  /\ Installed(ok)
                  /\ batch' = << >> /\ left' = << >>
    /\ UNCHANGED <<cmd, job>>

\* scoop goes on, and what became of each package is read back at the end.
InstallScoop ==
    /\ pc = "install" /\ Source_ = "scoop"
    /\ \E ok \in BOOLEAN : InstallOne("scoop", Head(left), ok)
    /\ left' = Tail(left)
    /\ pc' = IF Len(left) > 1 THEN pc ELSE "readback"
    /\ UNCHANGED <<queue, batch, report, cmd, job>>

\* Mutant: an install that scoop did not complain about is taken for done.
LandedTrusted(e) == TRUE

Landed(e) == Has("scoop", e)

ReadBack ==
    /\ pc = "readback"
    /\ \E readable \in BOOLEAN :
          IF readable
          THEN /\ NoFault
               /\ report' = [report EXCEPT
                      !.installed = @ \o Those(batch, Landed),
                      !.failed = @ \o Because(Those(batch, LAMBDA e : ~Landed(e)), "install")]
          ELSE Fault /\ report' = Report("failed", Because(batch, "install"))
    /\ Installed(TRUE)
    /\ batch' = << >> /\ left' = << >>
    /\ UNCHANGED <<host, have, buckets, shell, path, registered, cmd, job>>

Refresh ==
    /\ pc = "refresh"
    /\ \/ refresh_path /\ NoFault /\ UNCHANGED report
       \/ /\ host.os = "windows" /\ Fault /\ UNCHANGED path
          /\ report' = Report("failed", <<[e |-> PathRefresh, why |-> "refresh"]>>)
    /\ NextSource
    /\ UNCHANGED <<host, have, buckets, shell, registered, cmd, job>>

Finish ==
    /\ pc = "next" /\ queue = << >>
    /\ pc' = "done"
    /\ UNCHANGED <<machineVars, cmd, job, queue, batch, left, report>>

Interrupt ==
    /\ Running
    /\ pc' = "idle" /\ cmd' = NoCmd /\ job' = NoJob
    /\ queue' = << >> /\ batch' = << >> /\ left' = << >> /\ report' = NoReport
    /\ UNCHANGED machineVars

Run ==
    /\ \/ StartSource \/ NothingToPrepare \/ AddBuckets \/ PrepareFails
       \/ AskInstalled \/ AskExists
       \/ Install \/ InstallWinget \/ InstallScoop \/ ReadBack \/ Refresh
       \/ Finish \/ Interrupt
    /\ UNCHANGED <<runs, touches>>

\* The user installs a package at any time; between runs, removes one or
\* opens a new shell.
User ==
    /\ touches < MaxTouches /\ touches' = touches + 1
    /\ \/ \E m \in Manager, p \in Pkg :
             /\ Spawns(m) /\ p \in host.offers[m] /\ <<m, p>> \notin have
             /\ Lands(m, {p}) /\ UNCHANGED <<buckets, faults>>
             /\ job' = IF Running THEN [job EXCEPT !.others = @ \cup {<<m, p>>}] ELSE NoJob
       \/ /\ ~Running
          /\ \E x \in have : have' = have \ {x}
          /\ job' = NoJob
          /\ UNCHANGED <<host, buckets, shell, path, registered, faults>>
       \/ /\ ~Running
          /\ shell' = shell \cup registered /\ path' = path \cup registered
          /\ job' = NoJob
          /\ UNCHANGED <<host, have, buckets, registered, faults>>
    /\ IF Running THEN UNCHANGED <<pc, cmd, report>>
       ELSE pc' = "idle" /\ cmd' = NoCmd /\ report' = NoReport
    /\ UNCHANGED <<queue, batch, left, runs>>

Next == Launch \/ Run \/ User

Spec == Init /\ [][Next]_vars

(***************************************************************************)
(* Safety                                                                  *)
(***************************************************************************)

\* The manager a group should go to: of those that list packages for it the
\* preferred one.
Owner(g) ==
    LET ms == job.managers
        listing == {i \in DOMAIN ms : g.lists[ms[i]] # << >>}
    IN  ms[CHOOSE i \in listing : \A j \in listing : i <= j]

Served(g) == \E m \in ToSet(job.managers) : g.lists[m] # << >>

Reported(slots) == FlattenSeq([i \in DOMAIN slots |-> report[slots[i]]])

\* The entries the run was to settle, and what has become of entries.
Asked ==
    FlattenSeq([i \in DOMAIN job.groups |->
        IF Served(job.groups[i]) THEN job.groups[i].lists[Owner(job.groups[i])] ELSE << >>])
Outcome ==
    Reported(<<"installed", "already", "found", "missing">>)
      \o [i \in DOMAIN report.failed |-> report.failed[i].e]

\* Each entry of each selected group has come out in exactly one list of the
\* report, as often as it is written, whatever failed on the way; a group no
\* manager serves is reported by name.
EachSettled ==
    pc = "done" =>
        /\ \A e \in Entry : Count(Asked, e) = Count(Outcome, e)
        /\ \A n \in GroupName :
              Count(report.unavailable, n)
                = Cardinality({i \in DOMAIN job.groups :
                      job.groups[i].group = n /\ ~Served(job.groups[i])})

\* What a real run reports as installed, or as there already, is there; and
\* when nothing failed, so is everything the selected groups list.
ReportTrue ==
    ~cmd.dry /\ ~cmd.check =>
        /\ \A e \in ToSet(Reported(<<"installed", "already">>)) :
              \E m \in ToSet(report.used) : Has(m, e) /\ (m = "cargo" <=> e.src = "cargo")
        /\ pc = "done" /\ report.failed = << >> =>
              \A g \in ToSet(job.groups) : Served(g) =>
                  \A e \in ToSet(g.lists[Owner(g)]) :
                      Has(IF e.src = "cargo" THEN "cargo" ELSE Owner(g), e)

\* A run that has brought a toolchain on the machine, in an install that it
\* reported as done or as failed, fails no crate after it for want of cargo -
\* unless the PATH refresh has failed, which it has then reported.
ToolchainReached ==
    [][\A e \in Entry :
          LET lookup == [e |-> e, why |-> "query"]
          IN  /\ e.src = "cargo" /\ ~Spawns("cargo")
              /\ Count(report'.failed, lookup) > Count(report.failed, lookup)
              => \/ \A x \in have \ job.others : "cargo" \notin host.brings[x[2]]
                 \/ \E i \in DOMAIN report.failed : report.failed[i].e = PathRefresh]_vars

\* Loading a config merges the tree of its files as its walks say.
LoadSound == runs = 0 => \A t \in IncludeCases : IncludeSound(t)
=============================================================================
