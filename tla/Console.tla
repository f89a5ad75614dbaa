------------------------------ MODULE Console ------------------------------
(***************************************************************************)
(* The pages of the web UI behind the login, as the routes of              *)
(* ui/src/App.tsx mount them: one at a time, and each one anew.  A         *)
(* behaviour is a visit of the policies page, or of the dashboard and the  *)
(* page of results; the settings page has a module of its own.             *)
(***************************************************************************)
EXTENDS Policies, Overview

VARIABLE route

\* Routes, without the settings.
ConsoleInit ==
  /\ route \in {"/policies", "/results"}
  /\ Init
  /\ OverviewInit
  /\ route = "/results" => stored = {}

ConsoleNext ==
  \/ route = "/policies" /\ Next /\ UNCHANGED <<route, overview>>
  \/ route = "/results" /\ OverviewNext /\ UNCHANGED <<route, vars>>

ConsoleSpec == ConsoleInit /\ [][ConsoleNext]_<<route, vars, overview>>
=============================================================================
