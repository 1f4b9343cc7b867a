----------------------------- MODULE MCSweepRun -----------------------------
(***************************************************************************)
(* Sweeps of two seeds into one directory: over all their iterations,      *)
(* from a base of the caller's, and one iteration again.  Iteration 1      *)
(* draws the second default base.                                          *)
(***************************************************************************)
EXTENDS SweepRun

MCBase == {"prod-1", "base-debug-enclave"}
MCDefaultBases == <<"prod-1", "base-debug-enclave">>
MCDraw == [s \in {"11", "12"} |-> [i \in Iter |-> CASE i = 0 -> 4 [] i = 1 -> 19 [] OTHER -> 27]]
MCRecorded == {<<"11", 1>>, <<"12", 0>>, <<"11", 2>>}

Command(seed, iters, bases, only) ==
  [seed |-> seed, iters |-> iters, bases |-> bases, only |-> only,
   out |-> "reports", allow |-> TRUE]
MCCommands ==
  {Command("11", 2, <<>>, NoIter), Command("11", 1, <<>>, 1),
   Command("12", 2, <<"base-debug-enclave">>, NoIter),
   [Command("11", 2, <<"prod-1", "base-debug-enclave">>, NoIter) EXCEPT !.allow = FALSE]}

Pair(d, q) == [dcap |-> d, qvl |-> q]
Accept == [kind |-> "accept", standing |-> "UpToDate"]
Reject == [kind |-> "reject", category |-> "TcbInfoStale", formatGate |-> FALSE]
Verdict(expired, result) == [kind |-> "verdict", expired |-> expired, result |-> result]

(* Agreement, a dangerous case, an expected difference, a defect, an abort. *)
Typical ==
  {Pair(Accept, Verdict(FALSE, "OK")),
   Pair(Accept, [kind |-> "error"]),
   Pair(Reject, Verdict(TRUE, "OK")),
   Pair(Accept, Verdict(FALSE, "SW_HARDENING_NEEDED")),
   Pair(Reject, [kind |-> "abort"])}

MCOutcomes ==
  {[m \in Mutants |-> o[IF m.seed = "12" THEN 3 ELSE IF m.iter = 0 THEN 1 ELSE 2]] :
     o \in [1..3 -> Typical]}
=============================================================================
