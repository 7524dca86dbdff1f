------------------------------- MODULE MCAgent -------------------------------
(* Sizes in tokens; one kind of step is denser than its estimate says.      *)
EXTENDS Agent

Text(est, real) == [est |-> est, real |-> real]

Deployment(revision, mode, budget) == [revision |-> revision, thinking |-> mode, budget |-> budget]

\* "mute" tells nothing of its token counts.
MCConfigs == {Deployment("mute", "unset", FALSE), Deployment("r1", "on", FALSE),
              Deployment("r1", "on", TRUE)}
MCBudgeted == {Deployment("r1", "on", TRUE)}
MCSizes == {Text(30, 30), Text(30, 70)}
MCPrompt == Text(20, 20)
MCNote == Text(1, 1)
MCFailed == Text(10, 10)
MCRepair == Text(10, 10)
MCEcho == Text(40, 40)
=============================================================================
