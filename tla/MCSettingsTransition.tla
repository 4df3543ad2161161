------------------------- MODULE MCSettingsTransition -------------------------
(* Six manifests: with and without a service, one without a proxy and two with *)
(* different ones, a config of the installer and an operator's, and one that   *)
(* differs from another in nothing that is looked at.                          *)
EXTENDS SettingsTransition

Entry(api, service, owner, tune) ==
  [api |-> api, service |-> service, config |-> owner, tune |-> tune]

MCManifest ==
  {Entry("local", FALSE, "custom", 1), Entry("local", TRUE, "managed", 1),
   Entry("docker", TRUE, "custom", 1), Entry("docker", TRUE, "custom", 2),
   Entry("lan", TRUE, "managed", 1), Entry("lan", FALSE, "custom", 1)}

\* One thing goes wrong: the new runtime does not come up.
StartFails == Fails /\ Verb = "unit" /\ Arg = "await" /\ mode = "guarded"

StartFailsSpec == Init /\ [][(Commands \/ Proceed \/ StartFails \/ RunnerServes) /\ ~blind']_vars
===============================================================================
