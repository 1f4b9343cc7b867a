----------------------------- MODULE ChangeRecord -----------------------------
(***************************************************************************)
(* .github/scripts/branch_flow_guard.py: the change record read from a     *)
(* pull request description.  A description is a sequence of lines; a line *)
(* is its kind, its label if it has one, and the value cleaning leaves of  *)
(* it.  Values are members of small sets, never text.                      *)
(***************************************************************************)
EXTENDS Integers, Sequences, FiniteSets, FiniteSetsExt

CONSTANTS Sha,       \* commits
          Url, Note  \* an http(s) URL with a host; any other text

Empty == ""  \* what is left of a line that is formatting only
Value == Sha \cup {Url, Note, Empty}

Label == {"Staging URL", "Exercised", "Result", "Tested commit"}

(* A box line that is "ticked" is the ticked checkbox of the template.     *)
Line ==
  [kind : {"label"}, label : Label, value : Value]
  \cup [kind : {"text", "blank", "box", "ticked"}, label : {Empty}, value : Value]

(* The lines under a label belong to it up to the first of these kinds.    *)
Stops == {"blank", "label", "box", "ticked"}

EndOfField(body, i) ==
  Min({j \in (i + 1)..(Len(body) + 1) : j > Len(body) \/ body[j].kind \in Stops})

(* What is left of the lines between two, in their order.                  *)
Filled(body, first, last) == {j \in first..last : body[j].value # Empty}
Place(S, j) == Cardinality({m \in S : m <= j})
Nth(S, k) == CHOOSE j \in {i \in S : Place(S, i) = k} : TRUE

Collected(body, first, last) ==
  [k \in 1..Cardinality(Filled(body, first, last)) |->
     body[Nth(Filled(body, first, last), k)].value]

(* A variant that reads on over a blank line. *)
ValuesOverBlanks(body, i) ==
  IF body[i].value # Empty THEN <<body[i].value>>
  ELSE Collected(body, i + 1,
         Min({j \in (i + 1)..(Len(body) + 1) :
                j > Len(body) \/ body[j].kind \in Stops \ {"blank"}}) - 1)

(* What a label line has: the value after it, or those of the lines under. *)
Values(body, i) ==
  IF body[i].value # Empty THEN <<body[i].value>>
  ELSE Collected(body, i + 1, EndOfField(body, i) - 1)

(* A variant that stops at the first label line, filled or not. *)
FieldValueFirst(body, label) ==
  LET at == {i \in 1..Len(body) : body[i].kind = "label" /\ body[i].label = label}
  IN IF at = {} THEN <<>> ELSE Values(body, Min(at))

(* The first label line that has a value, here or under it, decides.       *)
FieldValue(body, label) ==
  LET filled == {i \in 1..Len(body) :
                   /\ body[i].kind = "label" /\ body[i].label = label
                   /\ Values(body, i) # <<>>}
  IN IF filled = {} THEN <<>> ELSE Values(body, Min(filled))

(* The tested commit of a complete record, if the description holds one.   *)
None == "none"

TestedCommit(body) ==
  LET tested == FieldValue(body, "Tested commit")
  IN IF /\ FieldValue(body, "Staging URL") = <<Url>>
        /\ FieldValue(body, "Exercised") # <<>> /\ FieldValue(body, "Result") # <<>>
        /\ Len(tested) = 1 /\ tested[1] \in Sha
        /\ \E i \in 1..Len(body) : body[i].kind = "ticked"
     THEN tested[1] ELSE None
=============================================================================
