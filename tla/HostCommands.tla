----------------------------- MODULE HostCommands -----------------------------
(***************************************************************************)
(* laxity audit and laxity tui (main.rs): an audit on its own, or a viewer  *)
(* that loads one before it reads its source.  An audit that is refused     *)
(* ends the first and leaves the second without its third view.             *)
(***************************************************************************)
EXTENDS Viewer

CONSTANT ScreenProjects   \* the projects a viewer is given the paths of

ASSUME ScreenProjectsAreNamed == \A p \in ScreenProjects : p.how = "named" /\ Parsed(p)

VARIABLE command

hostVars == <<command, auditVars, viewerVars>>

AnyOf(S) == {CHOOSE x \in S : TRUE}

HostInit ==
  \/ /\ command = "audit"
     /\ AuditInit(Projects) /\ ViewerInit(AnyOf(CommandLines))
  \/ /\ command = "tui"
     /\ ViewerInit(CommandLines)
     /\ AuditInit(IF options.audit THEN ScreenProjects ELSE AnyOf(ScreenProjects))

\* laxity audit, which ends with the report or with a refusal
RunAudit == command = "audit" /\ AuditStep /\ UNCHANGED <<command, viewerVars>>

\* load_audit: without the two files there is no audit, and a refused one is only reported
LoadAudit ==
  /\ command = "tui" /\ phase = "audit" /\ options.audit
  /\ AuditStep
  /\ UNCHANGED <<command, viewerVars>>

AuditLoaded ==
  /\ command = "tui" /\ (options.audit => stage \in {"done", "refused"})
  /\ Loaded
  /\ UNCHANGED <<command, auditVars>>

RunViewer == command = "tui" /\ Loop /\ UNCHANGED <<command, auditVars>>

ViewerStep == LoadAudit \/ AuditLoaded \/ RunViewer

\* a build beside an audit, and what happens around a running viewer
Beside ==
  \/ command = "audit" /\ Rebuild /\ UNCHANGED <<command, viewerVars>>
  \/ command = "tui" /\ Environment /\ UNCHANGED <<command, auditVars>>

HostNext == RunAudit \/ ViewerStep \/ Beside

\* each phase of a viewer is a bounded number of steps and is left: a command goes on by itself
Going == command = "tui" /\ phase # "over" /\ phase' \in Phases

HostSpec ==
  /\ HostInit /\ [][HostNext]_hostVars
  /\ WF_phase(Going)
  /\ WF_hostVars(command = "tui" /\ (HoldPasses \/ Expire) /\ UNCHANGED <<command, auditVars>>)
=============================================================================
