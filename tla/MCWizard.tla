------------------------------- MODULE MCWizard -------------------------------
(* Instances for TLC of what a user runs by hand: the setup wizard, its    *)
(* channel flows, and the uninstaller.  A behaviour is one of one of them, *)
(* chosen at the start; the other two keep to one initial state.           *)
EXTENDS Setup, ChannelSetup, Uninstall

CONSTANT Parts (* those of the three to choose from *)

ASSUME PartsAssumption == Parts \subseteq {"setup", "channels", "uninstall"}

VARIABLE part

WizardInit ==
  /\ part \in Parts
  /\ SetupInit /\ ChannelSetupInit /\ UninstallInit
  /\ part # "setup" => machine.docker = "ok" /\ machine.vault = "none" /\ machine.manager = "none"
  /\ part # "channels" => plant.cli /\ plant.mac
  /\ part # "uninstall" => copy.unit = "user"

WizardNext ==
  /\ \/ part = "setup" /\ SetupNext /\ UNCHANGED <<flowVars, uninstallVars>>
     \/ part = "channels" /\ ChannelSetupNext /\ UNCHANGED <<setupVars, uninstallVars>>
     \/ part = "uninstall" /\ UninstallNext /\ UNCHANGED <<setupVars, flowVars>>
  /\ UNCHANGED part

(* Each specification's fairness, for its part.                            *)
WizardFairness ==
  /\ WF_setupVars(part = "setup" /\ WizardStep)
  /\ WF_flowVars(part = "channels" /\ FlowStep)
  /\ WF_uninstallVars(part = "uninstall" /\ RemoverStep)

WizardSpec ==
  /\ WizardInit
  /\ [][WizardNext]_<<setupVars, flowVars, uninstallVars, part>>
  /\ WizardFairness

-----------------------------------------------------------------------------
(* What no step by hand does: lose a choice, skip what is to be done, wire *)
(* a chat that nobody serves, touch a backup, or remove files under a host *)
(* that runs.                                                              *)
WizardSteps == PickArrives /\ RetryResumes /\ WiringIsServed /\ RemoverSteps

(* The wizard, its flows and the uninstaller end, whatever is answered.    *)
WizardsEnd == WizardEnds /\ FlowsEnd /\ RemoverEnds

=============================================================================
