---------------------------- MODULE MCLocalTrail ----------------------------
(***************************************************************************)
(* Two rules that ask for an approval; a command that matches both, one    *)
(* whose first field is blank, and one that matches none.  Casts are the   *)
(* processes that come together: the approvers and a hook, the guard and   *)
(* the exporter beside a hook, an approver and the guard beside a hook.    *)
(***************************************************************************)
EXTENDS LocalTrailProperties

MCRules ==
    << [patterns |-> {"git push origin main"}, decision |-> "BLOCK_UNLESS_APPROVED",
        scope |-> "repo.push.main"],
       [patterns |-> {"rm -r", "rm -rf"}, decision |-> "BLOCK_UNLESS_APPROVED",
        scope |-> "filesystem.recursive_remove"] >>

MCCasts == {{"h1", "a1", "a2"}, {"h1", "guard", "exporter"}, {"h1", "a1", "guard"}}

(* A lifetime of a tick, and one that was over before it began.            *)
MCTtls == {1, -1}

MCPayloads ==
    {<< {"git push origin main", "rm -r"} >>, << Blank, {"rm -rf", "ls"} >>, << {"ls"} >>}
=============================================================================
