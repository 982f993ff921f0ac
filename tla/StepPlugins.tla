---------------------------- MODULE StepPlugins ----------------------------
(***************************************************************************)
(* The plugins behind three of a handler's steps that depend on documents  *)
(* and records held elsewhere and cached here: validateSign with the       *)
(* registry client, checkPolicy with the policy checker, and schema        *)
(* mediation, the last two through the manifest loader.  A handler's       *)
(* configuration lists its steps; each behaviour has one of them, which    *)
(* share nothing at run time but the loader.                               *)
(***************************************************************************)
EXTENDS RegistryLookup, PolicyCheck, SchemaMediation

VARIABLE step   \* the step that the handler is configured with

vars == <<step, lookupVars, loaderVars, policyVars, mediationVars>>

\* What an absent plugin's variables are fixed to.
NoLookup == subject = "key" /\ held.left = 0 /\ Usable
NoReload == file = (CHOOSE f \in Files : TRUE)
NoMediator == ~policy.onboarded
NoLoader == entry = [k \in Keys |-> NoEntry]

Init ==
    /\ LookupInit /\ LoaderInit /\ PolicyInit /\ MediationInit
    /\ \/ step = "validateSign" /\ NoReload /\ NoMediator /\ NoLoader
       \/ step = "checkPolicy" /\ NoLookup /\ NoMediator
       \/ step = "mediate" /\ NoLookup /\ NoReload

ValidateSign ==
    /\ step = "validateSign"
    /\ LookupNext
    /\ UNCHANGED <<step, loaderVars, policyVars, mediationVars>>

CheckPolicy ==
    /\ step = "checkPolicy"
    /\ PolicyNext
    /\ UNCHANGED <<step, lookupVars, mediationVars>>

MediateSchema ==
    /\ step = "mediate"
    /\ MediationNext
    /\ UNCHANGED <<step, lookupVars, policyVars>>

Next == ValidateSign \/ CheckPolicy \/ MediateSchema

\* The refresh loop runs while the process does, and time passes.
RefreshLoop == CheckPolicy /\ Reloading
Time == CheckPolicy /\ PolicyTick

Spec == Init /\ [][Next]_vars /\ WF_vars(RefreshLoop) /\ SF_vars(Time)
=============================================================================
