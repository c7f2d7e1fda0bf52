------------------------------ MODULE Packages ------------------------------
(***************************************************************************)
(* The package managers of krypt-pkg as krypt deps drives them: what each  *)
(* answers when asked about a package and what its install command may     *)
(* leave behind.  The programs themselves are external; what is modelled   *)
(* is which of them is run, what is made of its exit status and output,    *)
(* and which programs the runner can find.                                 *)
(*                                                                         *)
(* An entry of a group is [src |-> "native" or "cargo", pkg, bucket]: the  *)
(* bucket of a scoop entry, the tap of a brew one, or NoBucket.            *)
(***************************************************************************)
EXTENDS Lists

CONSTANTS
    Pkg,       \* packages
    Bucket, NoBucket,
    Host,      \* machines: [os, root, programs, offers, aur, addable, brings]
    MaxFaults  \* bound on the failures a machine has

Manager == {"pacman", "apt", "dnf", "brew", "scoop", "winget"}
Source == Manager \cup {"cargo"}
Program == Source \cup {"git", "paru", "curl", "sudo"}

Entry == [src : {"native", "cargo"}, pkg : Pkg, bucket : Bucket \cup {NoBucket}]

\* Some package brings git, and git does not come with cargo.
ASSUME PackagesAssumption ==
    /\ NoBucket \notin Bucket /\ MaxFaults \in Nat
    /\ \A h \in Host : /\ h.os \in {"linux", "macos", "windows"} /\ h.root \in BOOLEAN
                       /\ h.programs \subseteq Program
                       /\ h.offers \in [Source -> SUBSET Pkg] /\ h.aur \subseteq Pkg
                       /\ h.addable \subseteq Bucket /\ h.brings \in [Pkg -> SUBSET Program]
                       /\ \E p \in Pkg : "git" \in h.brings[p]
                       /\ \A p \in Pkg : "git" \in h.brings[p] => "cargo" \notin h.brings[p]

VARIABLES
    host,        \* the machine
    have,        \* what is installed: pairs of source and package
    buckets,     \* scoop's buckets and brew's taps
    shell,       \* programs on the PATH of the user's shell, and of krypt
    path,        \* those the runner finds, once it has refreshed its PATH
    registered,  \* those on the PATH that Windows gives new processes
    faults       \* failures so far

machineVars == <<host, have, buckets, shell, path, registered, faults>>

MachineTypeOK ==
    /\ host \in Host
    /\ have \subseteq Source \X Pkg
    /\ buckets \subseteq Bucket
    /\ shell \subseteq path /\ path \subseteq Program
    /\ registered \subseteq Program
    /\ faults \in 0..MaxFaults

MachineInit ==
    /\ host \in Host
    /\ have = {} /\ buckets = {}
    /\ shell = host.programs /\ path = shell /\ registered = shell
    /\ faults = 0

MayFail == faults < MaxFaults
Fault == MayFail /\ faults' = faults + 1
NoFault == UNCHANGED faults

(***************************************************************************)
(* What is there                                                           *)
(***************************************************************************)
\* Every manager for the platform, the preferred one first.
candidates_for_os(os) ==
    CASE os = "macos"   -> <<"brew">>
      [] os = "windows" -> <<"scoop", "winget">>
      [] OTHER          -> <<"pacman", "dnf", "apt">>

detect_all == Among(candidates_for_os(host.os), shell)

pick_by_name(name) == IF name \in Manager THEN <<name>> ELSE << >>

\* A spawned program is looked up in the runner's PATH.
Spawns(m) == m \in path

Has(m, e) == <<m, e.pkg>> \in have

\* What the manager could install.  scoop only sees the buckets added so
\* far, brew adds a tap as it installs from it, and only paru builds from
\* the AUR.
Offers(m, e) ==
    \/ e.pkg \in host.offers[m] /\ (m = "scoop" /\ e.bucket # NoBucket => e.bucket \in buckets)
    \/ m = "pacman" /\ e.pkg \in host.aur /\ "paru" \in shell

Taps(m, e) == m = "brew" /\ e.bucket # NoBucket

(***************************************************************************)
(* What is asked.  Answers are "yes", "no" or "error".                     *)
(***************************************************************************)
\* The exit status of these is the answer; the others print a list, which
\* may be unreadable or not come.
AnswersByStatus == {"pacman", "apt", "dnf", "brew", "winget"}

is_installed(m, e, fails) ==
    IF ~Spawns(m) \/ (fails /\ m \notin AnswersByStatus) THEN "error"
    ELSE IF Has(m, e) THEN "yes" ELSE "no"

\* Can it be installed?  A package not in pacman's databases is looked up in
\* the AUR with curl; brew's answer is a list.
exists(m, e, tapped, fails) ==
    IF ~Spawns(m) THEN "error"
    ELSE IF Taps(m, e) /\ e.bucket \notin tapped THEN "no"
    ELSE IF fails /\ m = "brew" THEN "error"
    ELSE IF m = "pacman" /\ e.pkg \notin host.offers[m]
         THEN IF fails \/ ~Spawns("curl") THEN "error"
              ELSE IF e.pkg \in host.aur THEN "yes" ELSE "no"
    ELSE IF ~fails /\ Offers(m, e) THEN "yes" ELSE "no"

(***************************************************************************)
(* What is installed                                                       *)
(***************************************************************************)
Brought(P) == UNION {host.brings[p] : p \in P}

\* The programs an install does not put on the PATH of running processes:
\* on Windows cargo, and whatever winget installs.
Late(m) ==
    IF host.os # "windows" THEN {} ELSE IF m = "winget" THEN Program ELSE {"cargo"}

\* Packages P of m are installed.
Lands(m, P) ==
    /\ have' = have \cup {<<m, p>> : p \in P}
    /\ registered' = registered \cup Brought(P)
    /\ shell' = shell \cup (Brought(P) \ Late(m))
    /\ path' = path \cup (Brought(P) \ Late(m))
    /\ UNCHANGED host

\* pacman, apt and dnf are run through sudo if it is there, and directly if
\* not; paru never is.
run_as_root(m) == m \in {"apt", "dnf"} \/ (m = "pacman" /\ "paru" \notin shell)

Allowed(m) == run_as_root(m) => host.root \/ "sudo" \in shell

\* pacman, apt, dnf, brew and cargo install all packages in one command and
\* are taken at the word of its exit status.  When it fails, any of the
\* packages may be there.
InstallAtOnce(m, es, ok) ==
    LET asked == ToSet(es)
        can == IF Allowed(m) THEN {e \in asked : Offers(m, e)} ELSE {}
        taps == {e.bucket : e \in {x \in can : Taps(m, x)}}
    IN  /\ IF ok THEN can = asked /\ NoFault
           ELSE IF can = asked THEN Fault ELSE NoFault
        /\ \E S \in IF ok THEN {can} ELSE SUBSET can : Lands(m, {e.pkg : e \in S})
        /\ \E T \in IF ok THEN {taps} ELSE SUBSET taps : buckets' = buckets \cup T

\* winget and scoop install one package per command.
InstallOne(m, e, ok) ==
    /\ IF ok THEN (Offers(m, e) \/ Has(m, e)) /\ NoFault
             ELSE ~Has(m, e) /\ IF Offers(m, e) THEN Fault ELSE NoFault
    /\ Lands(m, IF ok THEN {e.pkg} ELSE {})
    /\ UNCHANGED buckets

\* Directories that installs have added to the PATH of new processes are
\* appended to the runner's; elsewhere than on Windows there are none.
refresh_path ==
    path' = IF host.os = "windows" THEN path \cup registered ELSE path

(***************************************************************************)
(* scoop's buckets                                                         *)
(***************************************************************************)
\* The buckets the entries name and scoop does not have.
wanted(es) == {e.bucket : e \in ToSet(es)} \ (buckets \cup {NoBucket})

\* Adding a bucket takes git, which scoop installs first unless krypt finds
\* it on its own PATH; that fails like any install of scoop's, unnoticed.
\* What ends up added need not be all that was asked for.
add_buckets(es, added) ==
    LET git == CHOOSE p \in Pkg : "git" \in host.brings[p]
    IN  IF wanted(es) = {} THEN added = {} /\ UNCHANGED machineVars
        ELSE /\ \E got \in IF "git" \in shell THEN {{}} ELSE {{git}, {}} :
                   Lands("scoop", got)
             /\ LET can == IF "git" \in path' THEN wanted(es) \cap host.addable ELSE {}
                IN  /\ added \subseteq can
                    /\ IF "git" \in path' /\ added = can THEN NoFault ELSE Fault
             /\ buckets' = buckets \cup added
=============================================================================
