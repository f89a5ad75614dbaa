---------------------------- MODULE PolicyForm ----------------------------
(***************************************************************************)
(* The form that creates and edits a policy (PolicyFormModal in            *)
(* ui/src/pages/Policies.tsx), as operators on its state.                  *)
(*                                                                         *)
(* Of a specification the form knows `config` (provider, secret and the    *)
(* schedule of the full scan, always sent), `rescan` (the schedule of the  *)
(* rescan and the model, left out when empty), the target namespaces and   *)
(* the checks; `hidden` is what it does not know (notification,            *)
(* escalationThreshold, the key of the secret).  A specification is a      *)
(* function on those of the five that it has.  A check is its number in    *)
(* "check-<n>" (0 for an ID typed empty) and its description.              *)
(***************************************************************************)
EXTENDS Naturals, Combobox

\* What a field holds: nothing, the form's default, or what was stored or typed.
Texts == {"", "default", "stored", "typed"}
Fields == {"name", "namespace", "config", "rescan", "targets", "checks"}

NewCheck(n) == [id |-> n, description |-> ""]

\* The initial state, which is also what resetForm sets.  History: typed are the
\* fields the user has typed in since the form was opened, left those that a form
\* which was shut without being reset has left behind.
InitialForm ==
  [name |-> "", namespace |-> "", config |-> "default", rescan |-> "default",
   targets |-> <<>>, checks |-> <<NewCheck(1)>>,
   open |-> FALSE, boxes |-> [box \in {"namespace", "targets"} |-> ClosedBox],
   typed |-> {}, left |-> {}]

\* Mutant: the target namespaces are not reset.
resetFormPartly(form) ==
  [InitialForm EXCEPT !.open = form.open, !.targets = form.targets]

\* resetForm.
resetForm(form) == [InitialForm EXCEPT !.open = form.open]

\* The dialog is closed: its content, the boxes, is unmounted.
Shut(form) == [form EXCEPT !.open = FALSE, !.boxes = InitialForm.boxes]

\* What a specification need not have, as the form reads it.
rescanOf(spec) == IF "rescan" \in DOMAIN spec THEN spec.rescan ELSE ""
targetsOf(spec) == IF "targets" \in DOMAIN spec THEN spec.targets ELSE <<>>

\* The prefill in the first render of the open edit form.
prefilled(policy) ==
  [InitialForm EXCEPT !.open = TRUE, !.name = policy.key.name, !.namespace = policy.key.namespace,
                      !.config = policy.spec.config, !.rescan = rescanOf(policy.spec),
                      !.targets = targetsOf(policy.spec), !.checks = policy.spec.checks]

\* An input of the form: the field has a new value and counts as typed.
Typed(form, field, value) ==
  [form EXCEPT ![field] = value, !.typed = @ \cup {field}]

addCheck(form) ==
  Typed(form, "checks", Append(form.checks, NewCheck(Len(form.checks) + 1)))

CanRemove(form) == Len(form.checks) > 1

removeCheck(form, i) == Typed(form, "checks", RemoveAt(form.checks, i))

updateCheck(form, i, check) == Typed(form, "checks", ReplaceAt(form.checks, i, check))

validChecks(form) ==
  SelectSeq(form.checks, LAMBDA c : c.id /= 0 /\ c.description /= "")

\* What the form holds for a field of a specification.
Held(form, field) == IF field = "checks" THEN validChecks(form) ELSE form[field]

\* Mutant: the target namespaces are sent also when there are none.
SubmittedEmpty(form) ==
  LET undefined == IF form.rescan = "" THEN {"rescan"} ELSE {}
  IN [field \in {"config", "rescan", "targets", "checks"} \ undefined |-> Held(form, field)]

\* The specification handleSubmit sends: all that the form knows but what is
\* undefined, which JSON leaves out.
Submitted(form) ==
  LET undefined == (IF form.rescan = "" THEN {"rescan"} ELSE {}) \cup
                   (IF Len(form.targets) > 0 THEN {} ELSE {"targets"})
  IN [field \in {"config", "rescan", "targets", "checks"} \ undefined |-> Held(form, field)]

\* The first lines of handleSubmit, and the button that calls it.
CanSubmit(form) == form.name /= "" /\ validChecks(form) /= <<>>

\* buildCR, which the preview shows as YAML: what is always there, the rescan if it
\* is not empty, and then the target namespaces if there are any.
buildCR(form, defaultNs) ==
  LET always == {"config", "checks"}
      spread == IF form.rescan /= "" THEN always \cup {"rescan"} ELSE always
      fields == IF Len(form.targets) > 0 THEN spread \cup {"targets"} ELSE spread
  IN [key |-> [name |-> IF form.name = "" THEN "my-policy" ELSE form.name,
               namespace |-> IF form.namespace = "" THEN defaultNs ELSE form.namespace],
      spec |-> [field \in fields |-> Held(form, field)]]
=============================================================================
