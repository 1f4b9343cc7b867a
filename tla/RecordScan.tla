------------------------------ MODULE RecordScan ------------------------------
(***************************************************************************)
(* A pull request description typed one line after the other, and a        *)
(* scanner that reads along: what branch_flow_guard.py finds by looking    *)
(* ahead from each label is what one pass finds.                           *)
(***************************************************************************)
EXTENDS ChangeRecord

CONSTANTS
  Lines,     \* the lines that are typed
  MaxLines

VARIABLES body, scan

vars == <<body, scan>>

(* The template's part for the record, as a description begins with it.   *)
Blank(label) == [kind |-> "label", label |-> label, value |-> Empty]
Filler(kind) == [kind |-> kind, label |-> Empty, value |-> Empty]

Template ==
  <<Blank("Staging URL"), Blank("Exercised"), Blank("Result"), Blank("Tested commit"),
    Filler("blank"), Filler("box")>>

(* The rest of a record, so that what is typed decides about it.           *)
Begun ==
  <<[Blank("Staging URL") EXCEPT !.value = Url], [Blank("Exercised") EXCEPT !.value = Note]>>

(* A field is open under its label until a line of another kind ends it,   *)
(* and closed for good once it has a value.                                *)
Scanned(s, line, label) ==
  CASE s.closed -> s
    [] ~s.closed /\ line.kind = "text" ->
         IF s.open /\ line.value # Empty THEN [s EXCEPT !.got = Append(@, line.value)] ELSE s
    [] ~s.closed /\ line.kind # "text" ->
         IF s.got # <<>> THEN [s EXCEPT !.closed = TRUE]
         ELSE IF line.kind # "label" \/ line.label # label THEN [s EXCEPT !.open = FALSE]
         ELSE IF line.value = Empty THEN [s EXCEPT !.open = TRUE]
         ELSE [open |-> FALSE, got |-> <<line.value>>, closed |-> TRUE]

Init == body = <<>> /\ scan = [label \in Label |-> [open |-> FALSE, got |-> <<>>, closed |-> FALSE]]

Type(line) ==
  /\ Len(body) < MaxLines
  /\ body' = Append(body, line)
  /\ scan' = [label \in Label |-> Scanned(scan[label], line, label)]

Next == \E line \in Lines : Type(line)

Spec == Init /\ [][Next]_vars

-----------------------------------------------------------------------------
(* The value of a field is what one pass over the description finds.       *)
ScanAgrees == \A label \in Label : FieldValue(body, label) = scan[label].got

(* A blank template above a copy does not hide it: the record is the same. *)
TemplateIsHarmless == TestedCommit(Template \o Begun \o body) = TestedCommit(Begun \o body)
=============================================================================
