------------------------------ MODULE MCReaders ------------------------------
(***************************************************************************)
(* Inputs for the four readers.                                            *)
(***************************************************************************)
EXTENDS Readers, MCQuoteParse

CONSTANTS s1, s2

(* Every object of up to four members: bodies of the right type and of a   *)
(* wrong one, signatures that are strings or not, members to be ignored.   *)
MCBody == {"bodyA", "bodyB"}
MCString == {"hexA", "hexB"}

M(key, value) == [key |-> key, value |-> value]

MCEnvelopes ==
  BoundedSeq({M("body", "bodyA"), M("body", "bodyB"), M("body", "number"),
              M("signature", "hexA"), M("signature", "hexB"), M("signature", "number"),
              M("other", "number")}, 4)

(* Strings of up to two characters, escapes counting as one, in the chain  *)
(* and in an advisory list nested in the levels.                           *)
Q == "\""
B == "\\"

Unit == {<<"x">>, <<"[">>, <<"]">>, <<"}">>, <<B, Q>>, <<B, B>>}
Strings == {<<>>} \cup Unit \cup {u \o v : u, v \in Unit}
Advisory(s) == <<"{", Q, "A", Q, ":", "[", Q>> \o s \o <<Q, "]", "}">>

MCDocs ==
  {[chain |-> c, tcbLevels |-> Advisory(s), qeLevels |-> q] :
     c \in {<<>>, <<"x", B, Q, "[">>, <<B, Q, "L", B, Q>>},
     s \in Strings, q \in {<<>>, <<Q, "]", Q>>}}

(* Lines of a few kinds, the commits in two fields' places among them.     *)
L(label, value) == [kind |-> "label", label |-> label, value |-> value]
T(kind, value) == [kind |-> kind, label |-> "", value |-> value]

MCLines ==
  {L("Tested commit", ""), L("Tested commit", s1), L("Result", ""), L("Result", Note),
   T("text", s2), T("text", ""), T("blank", ""), T("box", ""), T("ticked", "")}
=============================================================================
