----------------------------- MODULE Administration -----------------------------
(***************************************************************************)
(* What the manager, the experts and the users administer: the accounts,   *)
(* the catalogue and the standard processes, served by the same process.   *)
(* They share no table; a behaviour is about one of them.                  *)
(***************************************************************************)
EXTENDS Accounts, Catalogue, StandardProcess

VARIABLE area     \* what the behaviour is about; never changes

vars == <<accounts, catalogue, standards, calls, area>>

Init ==
  /\ AccountsInit /\ CatalogueInit /\ StandardInit
  /\ area \in {"accounts", "catalogue", "standards"}
  /\ area # "catalogue" => table = "lands"
  /\ area = "accounts" => serial = FALSE

Next ==
  /\ UNCHANGED area
  /\ \/ area = "accounts" /\ AccountsNext /\ UNCHANGED <<catalogue, standards>>
     \/ area = "catalogue" /\ CatalogueNext /\ UNCHANGED <<accounts, standards>>
     \/ area = "standards" /\ StandardNext /\ UNCHANGED <<accounts, catalogue>>

Spec == Init /\ [][Next]_vars

-----------------------------------------------------------------------------
\* auths.service.ts, users.service.ts: the accounts are well formed, a code comes
\* before what it guards, and who has an account knows its password.
AccountsHold ==
  /\ area = "accounts" => AccountsTypeOK
  /\ CodeBeforeAct
  /\ PasswordIsKnown

\* plants.service.ts, lands.service.ts, servicesPackage.service.ts: the catalogue is
\* well formed, seasons fit, names differ, and what was decided counts.
CatalogueHolds ==
  /\ area = "catalogue" => CatalogueTypeOK
  /\ SeasonsFit
  /\ NamesDiffer
  /\ DecisionCounts

\* processes.service.ts, requests.service.ts: the standard processes are well formed,
\* and they and their requests tell of the same decisions.
StandardsHold ==
  /\ area = "standards" => StandardTypeOK
  /\ CompletedWasApproved
  /\ CompletedIsAccepted
===============================================================================
