----------------------------- MODULE Conditions -----------------------------
(***************************************************************************)
(* The primary conditions of an object's status, as pkg/conditions keeps   *)
(* them: Ready, Progressing and Degraded, set together by every operation  *)
(* of the condition manager.  reason is the reason given for Ready; it is  *)
(* what makes two statuses with the same three booleans differ.  Messages  *)
(* and timestamps are left out.  "DependencyCheckFailed" is the reason     *)
(* DependenciesNotMet given together with a condition DependenciesMet that *)
(* says that the check itself has failed.                                  *)
(***************************************************************************)

Reasons == {"", "Initializing", "FullyReconciled", "Paused",
            "DependenciesNotMet", "DependencyCheckFailed",
            "ValuesNotResolved", "WaitingForStableValues",
            "ApplicationFailed", "NotSynced",
            "TargetAddonNotFound", "EvaluationFailed", "PatchFailed",
            "TemplateNotFound", "TemplateRenderFailed", "SecretNotFound", "SecretInvalid",
            "RemoteClientFailed", "RemoteNotReady", "RemoteRequestInvalid",
            "RemoteOperationFailed", "AddonNotReady"}

Conditions == [ready : BOOLEAN, progressing : BOOLEAN, degraded : BOOLEAN, reason : Reasons]

Primary(r, p, d, why) == [ready |-> r, progressing |-> p, degraded |-> d, reason |-> why]

\* A new object has no conditions at all.
NoConditions == Primary(FALSE, FALSE, FALSE, "")

SetReady(why)       == Primary(TRUE, FALSE, FALSE, why)
SetProgressing(why) == Primary(FALSE, TRUE, FALSE, why)
SetDegraded(why)    == Primary(FALSE, FALSE, TRUE, why)

\* SetCondition on Ready and Progressing alone: Degraded stays as it is.
SetPaused(c) == [c EXCEPT !.ready = FALSE, !.progressing = FALSE, !.reason = "Paused"]

EnsureAllConditions(c) == IF c = NoConditions THEN SetProgressing("Initializing") ELSE c

=============================================================================
