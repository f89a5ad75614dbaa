----------------------------- MODULE SettingsMC -----------------------------
(* Documents for the model of the settings.                                *)
EXTENDS Settings

\* The documents of this tab come from its form, and null from its text area.
Typed == {NullDoc}
Other == {[EmptyDoc EXCEPT !.general = "other", !.notification = "other"]}
Stored == {[EmptyDoc EXCEPT !.general = "initial", !.extra = TRUE]}
=============================================================================
