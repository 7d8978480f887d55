----------------------------- MODULE AmValidator -----------------------------
(* The form validator of Amaze UI.  A field is judged when an event of it says so, *)
(* and the verdict is kept; submitting the form judges the fields that have none     *)
(* and believes the verdicts of the others.  One field has a fixed pattern and is      *)
(* required, one must equal the first one unless it is empty, and one is judged by a  *)
(* promise that is resolved later.  equalTo makes a regular expression of the other's *)
(* value as it is: the values are assumed to hold no character special in one.       *)
EXTENDS Naturals, Sequences

CONSTANTS
  MaxEdits,      \* bound: edits of the user and of the page's script
  MaxPromises    \* bound: promises that wait for their answers

ASSUME ValidatorAssumption == {MaxEdits, MaxPromises} \subseteq Nat

Field == {"pattern", "equalTo", "custom"}
Value == {0, 1, 2}   \* 0 is the empty one
NoField == "none"

\* value, verdict (the field's data 'validity') and active (its class am-active) of
\* each field; focus; edited, the focused field has changed since it got the focus;
\* keyup, the field of the running debounce timer; asked, the values the promises
\* of the custom field are about.  submitted: the form was found valid.  History:
\* behind, the fields that have changed since they were last judged and no event of
\* theirs will say so; for the custom field, an answer may be about an older value.
VARIABLES value, verdict, active, focus, edited, keyup, asked, submitted, behind, edits

validatorVars == <<value, verdict, active, focus, edited, keyup, asked, submitted, behind,
                   edits>>

Verdict == {"none", "valid", "invalid"}

ValidatorTypeOK ==
  /\ value \in [Field -> Value] /\ verdict \in [Field -> Verdict]
  /\ active \in [Field -> BOOLEAN]
  /\ {focus, keyup} \subseteq Field \cup {NoField}
  /\ asked \in Seq(Value)
  /\ {edited, submitted} \subseteq BOOLEAN
  /\ behind \subseteq Field
  /\ edits \in 0 .. MaxEdits

\* The page comes with an empty form, or with one that is filled in.
ValidatorInit ==
  /\ \E v \in {0, 1} : value = [f \in Field |-> v]
  /\ verdict = [f \in Field |-> "none"] /\ active = [f \in Field |-> FALSE]
  /\ focus = NoField /\ keyup = NoField /\ edited = FALSE
  /\ asked = <<>> /\ submitted = FALSE /\ behind = {}
  /\ edits = 0

Edit == ~submitted /\ edits < MaxEdits /\ edits' = edits + 1

-----------------------------------------------------------------------------
\* What validate() tests: the pattern of a field with equalTo is the other's value,
\* and an empty value is not held against a pattern.
Right(f) == IF f = "equalTo" THEN value["equalTo"] \in {0, value["pattern"]} ELSE value[f] = 1

AsVerdict(right) == IF right THEN "valid" ELSE "invalid"

Verdicts(fs) ==
  [f \in Field |-> IF f \in fs \ {"custom"} THEN AsVerdict(Right(f)) ELSE verdict[f]]

\* validate() of the fields fs, with markField(): the custom one only asks, each of
\* the times it is called, and a field found valid keeps its class am-active.
Validate(fs, times) ==
  /\ Len(asked) + times <= MaxPromises
  /\ verdict' = Verdicts(fs)
  /\ active'  = [f \in Field |-> active[f] \/ (f \in fs \ {"custom"} /\ ~Right(f))]
  /\ asked'   = asked \o [i \in 1 .. times |-> value["custom"]]

PerField(fs) == IF "custom" \in fs THEN 1 ELSE 0

Judged(fs, times) == Validate(fs, times) /\ behind' = behind \ (fs \ {"custom"})

-----------------------------------------------------------------------------
\* The user types: an active field is judged 50 ms after the last key of any.
Type(f, v) ==
  /\ Edit
  /\ focus \in {f, NoField} /\ focus' = f
  /\ value[f] # v /\ value' = [value EXCEPT ![f] = v]
  /\ edited' = TRUE
  /\ keyup' = IF active[f] THEN f ELSE keyup
  /\ behind' = behind \cup
       CASE f = "pattern" -> {"equalTo"} [] f = "custom" -> {f} [] OTHER -> {}
  /\ UNCHANGED <<verdict, active, asked, submitted>>

KeyupFires ==
  /\ keyup # NoField /\ ~submitted
  /\ Judged({keyup}, PerField({keyup}))
  /\ keyup' = NoField
  /\ UNCHANGED <<value, focus, edited, submitted, edits>>

\* change and focusout
Leave ==
  /\ focus # NoField /\ ~submitted
  /\ Judged({focus}, PerField({focus}))
  /\ focus' = NoField /\ edited' = FALSE
  /\ UNCHANGED <<value, keyup, submitted, edits>>

\* The page's script sets a value: no event tells.
ScriptSets(f, v) ==
  /\ Edit
  /\ value[f] # v /\ value' = [value EXCEPT ![f] = v]
  /\ behind' = behind \cup {f} \cup IF f = "pattern" THEN {"equalTo"} ELSE {}
  /\ UNCHANGED <<verdict, active, focus, edited, keyup, asked, submitted>>

\* A promise is resolved, in any order.
PromiseResolved(i) ==
  /\ ~submitted
  /\ verdict' = [verdict EXCEPT !["custom"] = AsVerdict(asked[i] = 1)]
  /\ active' = [active EXCEPT !["custom"] = @ \/ asked[i] # 1]
  /\ asked' = SubSeq(asked, 1, i - 1) \o SubSeq(asked, i + 1, Len(asked))
  /\ behind' = IF asked = <<value["custom"]>> THEN behind \ {"custom"} ELSE behind
  /\ UNCHANGED <<value, focus, edited, keyup, submitted, edits>>

\* Mutant: the verdicts there are count, a field without one passes.
TrustVerdicts(v) == \A f \in Field : v[f] # "invalid"

\* validateAll(): isValid() of every field.
AllValid(v) == \A f \in Field : v[f] = "valid"

FirstInvalid(v) ==
  IF v["pattern"] # "valid" THEN "pattern"
  ELSE IF v["equalTo"] # "valid" THEN "equalTo" ELSE "custom"

\* The Enter key: the browser tells the change of the field first, then submit, which
\* calls isFormValid().  A form that fails gets the focus on its first field that is
\* not valid, and the field that loses it is judged once more.
Submit ==
  LET changed  == IF edited THEN {focus} ELSE {}
      unjudged == {f \in Field : verdict[f] = "none"}
      found    == Verdicts(changed \cup unjudged)
      next     == IF AllValid(found) THEN focus ELSE FirstInvalid(found)
      left     == IF next = focus THEN {} ELSE {focus} \ {NoField}
  IN  /\ ~submitted
      /\ Judged(changed \cup unjudged \cup left, PerField(changed) + PerField(unjudged) + PerField(left))
      /\ submitted' = AllValid(found)
      /\ focus' = next /\ edited' = FALSE
      /\ UNCHANGED <<value, keyup, edits>>

ValidatorNext ==
  \/ \E f \in Field, v \in Value : Type(f, v) \/ ScriptSets(f, v)
  \/ KeyupFires \/ Leave \/ Submit
  \/ \E i \in DOMAIN asked : PromiseResolved(i)

ValidatorSpec == ValidatorInit /\ [][ValidatorNext]_validatorVars

ValidatorFairness == WF_validatorVars(KeyupFires)

-----------------------------------------------------------------------------
\* A form that is let through holds what it should, field by field, except where the
\* verdict is known to lag: a value set by script, a field whose model has changed,
\* a promise about an older value.
SubmittedRight == submitted => \A f \in Field : Right(f) \/ f \in behind
=============================================================================
