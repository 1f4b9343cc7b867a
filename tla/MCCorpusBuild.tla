--------------------------- MODULE MCCorpusBuild ---------------------------
(***************************************************************************)
(* A TCB info and a PCK CRL with their chains, the root CRL without one,   *)
(* the control case and one that takes less from the service.              *)
(***************************************************************************)
EXTENDS CorpusBuild

MCLabels == <<"tcb-19", "pckcrl-processor", "rootcacrl">>
MCChained == {"tcb-19", "pckcrl-processor"}
MCCases == <<"control-fresh-eval19", "tE-tcbchain-root-twice">>
MCParts ==
  [c \in {"control-fresh-eval19", "tE-tcbchain-root-twice"} |->
     {<<"pckcrl-processor", "body">>, <<"pckcrl-processor", "chain">>, <<"rootcacrl", "body">>}
     \cup IF c = "control-fresh-eval19"
          THEN {<<"tcb-19", "body">>, <<"tcb-19", "chain">>} ELSE {}]
=============================================================================
