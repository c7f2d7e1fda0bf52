------------------------------- MODULE Doctor -------------------------------
(***************************************************************************)
(* The checks of krypt doctor (krypt-core/src/doctor.rs) that read what    *)
(* the deploy side keeps: the config, the sources of its links, and the    *)
(* destinations the manifest lists.  Doctor writes nothing, so each check  *)
(* is an operator on the state it is run in.  The checks of the tool       *)
(* config and of the repo are Bootstrap's.                                 *)
(***************************************************************************)
EXTENDS KryptRefines

\* A check is ok, or it warns or fails.
Check(b, otherwise) == IF b THEN "ok" ELSE otherwise

check_krypt_config == Check(config # BadConfig, "fail")

\* Every [[link]] with a src, whatever its platform; not the globs, not the
\* templates.
check_link_sources ==
    Check(/\ config # BadConfig
          /\ \A i \in DOMAIN config :
                config[i].kind = "link" /\ ~config[i].glob => repo[config[i].src] # Absent,
          "fail")

\* Mutant: a template filled in on this machine counts as drift.
DriftedWithEdits == WithStatus(manifest, disk, "drifted")

Drifted == {d \in WithStatus(manifest, disk, "drifted") : ~IsLocalEdit(manifest[d], disk[d])}

check_link_destinations ==
    Check(Drifted = {} /\ WithStatus(manifest, disk, "missing") = {}, "warn")

is_all_green == {check_krypt_config, check_link_sources, check_link_destinations} = {"ok"}

\* What link keeps at d is a filled-in template that doctor can tell from
\* drift: readable, and not still in the manifest as the link it once was.
PlainTemplate(d) ==
    disk[d] # Unreadable /\ (manifest[d] # NoEntry => manifest[d].kind = "template")

\* After a link that nobody disturbed, of a config with no link for another
\* platform, that reported no conflict and kept plain templates only, krypt
\* doctor is all green, whatever the manifest held before: no stale entry is
\* left, no copy went unrecorded, no filled-in template is taken for drift.
LinkLeavesGreen ==
    \A p \in Proc \ disturbed :
        /\ pc[p] = "done" /\ cmd[p].op # "unlink"
        /\ ~cmd[p].dry /\ cmd[p].platform = Host
        /\ \A i \in DOMAIN config : Host \in config[i].platforms
        /\ \A i \in DOMAIN plan[p] :
              /\ plan[p][i].act # "conflict"
              /\ plan[p][i].act = "keep" => PlainTemplate(plan[p][i].dst)
        => is_all_green
=============================================================================
