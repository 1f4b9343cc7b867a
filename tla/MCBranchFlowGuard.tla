-------------------------- MODULE MCBranchFlowGuard --------------------------
(***************************************************************************)
(* Heads of every kind; descriptions with nothing, a line of text, and the *)
(* staging record for either of two commits.  The head that needs a record *)
(* is explored with pushes, records and the variable switched; the others, *)
(* for which none of this counts, with one commit, the variable on, and an *)
(* attempt less, and with one description unless theirs is asked for.      *)
(***************************************************************************)
EXTENDS BranchFlowGuard, TLC

CONSTANTS s1, s2, s3

L(label, value) == [kind |-> "label", label |-> label, value |-> value]
T(kind, value) == [kind |-> kind, label |-> Empty, value |-> value]

RecordOf(sha) ==
  <<L("Staging URL", Url), L("Exercised", Empty), T("text", Note), L("Result", Note),
    L("Tested commit", Empty), T("text", sha), T("blank", Empty), T("ticked", Empty)>>

StagingBodies == {<<>>, RecordOf(s1), RecordOf(s2)}

OneBody == {<<T("text", Note)>>}
MCBodies == {<<T("blank", Empty)>>} \cup OneBody

Commits == Permutations({s1, s2})

H(name, key, linked, keyed, bot, same_repo) ==
  [name |-> name, key |-> key, linked |-> linked, keyed |-> keyed,
   bot |-> bot, same_repo |-> same_repo]

Plain(name, bot, same_repo) == H(name, FALSE, FALSE, FALSE, bot, same_repo)

Staging == {Plain("staging", FALSE, TRUE)}

(* A topic branch that Linear links by its first key, by another, or not   *)
(* at all though the key is an issue's; and one that names none.           *)
Topics ==
  {H("topic", TRUE, TRUE, TRUE, FALSE, TRUE), H("topic", TRUE, TRUE, FALSE, FALSE, TRUE),
   H("topic", TRUE, FALSE, TRUE, FALSE, FALSE), H("topic", TRUE, FALSE, FALSE, FALSE, TRUE)}

OtherHeads ==
  Topics \cup
  {Plain("staging", FALSE, FALSE), Plain("main", FALSE, TRUE), Plain("dev", FALSE, TRUE),
   Plain("nolinear", FALSE, TRUE), Plain("nolinear/reason", FALSE, TRUE),
   Plain("dependabot", TRUE, TRUE), H("dependabot", TRUE, FALSE, TRUE, FALSE, TRUE)}

MCHeads == Staging \cup OtherHeads
AllBodies == StagingBodies \cup MCBodies

Explored ==
  IF head \in Staging THEN api_key /\ pr.sha # s3 /\ pr.body \in StagingBodies
  ELSE /\ pr.sha = s3 /\ required /\ Len(attempts) < MaxAttempts
       /\ pr.body \in IF head.name = "nolinear/reason" THEN MCBodies ELSE OneBody

MCInit == Init /\ Explored

MCSpec == MCInit /\ [][Next /\ Explored']_vars

(* The retries are about the heads that are asked for a key, whatever the  *)
(* description says.                                                       *)
Asking == {h \in OtherHeads : h.key}
=============================================================================
