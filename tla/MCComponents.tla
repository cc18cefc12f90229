---------------------------- MODULE MCComponents ----------------------------
(***************************************************************************)
(* The components that keep state of their own and can be looked at alone, *)
(* one in each behaviour: the first state chooses which, the others stay   *)
(* as they begin.                                                          *)
(***************************************************************************)
EXTENDS CodexTransport, FileStore, Projection, AgentStatus, ClaudeSync, Mirrors, AdbScreen, ClientActions,
        Wizard, Learning

CONSTANTS s1, s2, p1, p2, e1, e2

VARIABLE scene

MCSenders == {s1, s2}
MCPaths == {p1, p2}
MCExecs == {e1, e2}

Init ==
  /\ scene \in {"codex", "files", "projection", "status", "sync", "mirrors", "adb", "actions", "wizard", "learning"}
  /\ CodexInit /\ StoreInit /\ ProjectionInit /\ StatusInit
  /\ ClaudeSyncInit /\ MirrorsInit /\ AdbInit /\ ActionsInit /\ WizardInit /\ LearningInit

CodexScene == scene = "codex" /\ CodexNext
  /\ UNCHANGED <<scene, storeVars, projectionVars, statusVars, claudeSyncVars, mirrorVars, adbVars, actionVars, wizardVars, learningVars>>
FilesScene == scene = "files" /\ StoreNext
  /\ UNCHANGED <<scene, codexVars, projectionVars, statusVars, claudeSyncVars, mirrorVars, adbVars, actionVars, wizardVars, learningVars>>
ProjectionScene == scene = "projection" /\ ProjectionNext
  /\ UNCHANGED <<scene, codexVars, storeVars, statusVars, claudeSyncVars, mirrorVars, adbVars, actionVars, wizardVars, learningVars>>
StatusScene == scene = "status" /\ StatusNext
  /\ UNCHANGED <<scene, codexVars, storeVars, projectionVars, claudeSyncVars, mirrorVars, adbVars, actionVars, wizardVars, learningVars>>
SyncScene == scene = "sync" /\ ClaudeSyncNext
  /\ UNCHANGED <<scene, codexVars, storeVars, projectionVars, statusVars, mirrorVars, adbVars, actionVars, wizardVars, learningVars>>
MirrorsScene == scene = "mirrors" /\ MirrorsNext
  /\ UNCHANGED <<scene, codexVars, storeVars, projectionVars, statusVars, claudeSyncVars, adbVars, actionVars, wizardVars, learningVars>>
AdbScene == scene = "adb" /\ AdbNext
  /\ UNCHANGED <<scene, codexVars, storeVars, projectionVars, statusVars, claudeSyncVars, mirrorVars, actionVars, wizardVars, learningVars>>
ActionsScene == scene = "actions" /\ ActionsNext
  /\ UNCHANGED <<scene, codexVars, storeVars, projectionVars, statusVars, claudeSyncVars, mirrorVars, adbVars, wizardVars, learningVars>>
WizardScene == scene = "wizard" /\ WizardNext
  /\ UNCHANGED <<scene, codexVars, storeVars, projectionVars, statusVars, claudeSyncVars, mirrorVars, adbVars, actionVars, learningVars>>
LearningScene == scene = "learning" /\ LearningNext
  /\ UNCHANGED <<scene, codexVars, storeVars, projectionVars, statusVars, claudeSyncVars, mirrorVars, adbVars, actionVars, wizardVars>>

Next ==
  \/ CodexScene \/ FilesScene \/ ProjectionScene \/ StatusScene
  \/ SyncScene \/ MirrorsScene \/ AdbScene \/ ActionsScene
  \/ WizardScene \/ LearningScene

vars == <<scene, codexVars, storeVars, projectionVars, statusVars, claudeSyncVars, mirrorVars, adbVars, actionVars,
          wizardVars, learningVars>>

Spec == Init /\ [][Next]_vars
=============================================================================
