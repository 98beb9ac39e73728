-------------------------- MODULE InferenceLibrary --------------------------
(***************************************************************************)
(* The inference library as the proxy process uses it: the routing of a    *)
(* prompt, the masker its texts go through, the configuration it is routed *)
(* by and the service that may answer for it, and what they promise        *)
(* together.                                                               *)
(***************************************************************************)
EXTENDS InferenceConfig, InferenceRemote, Masker

\* A prompt leaves for the model the configuration names, under our credential, with its secrets
\* masked and the rest as it was, or does not leave at all; a configuration is loaded only when it
\* can route, and a remote answer counts only when all of it has come (inference router.rs, config,
\* proxy inference_uds.rs).
PromptsAreGuarded ==
  /\ InfTypeOK /\ FailClosed /\ AuthIsOurs /\ PicksLeastPriority
  /\ SanitizedHasNoSecret /\ RewriteKeepsTheRest
  /\ LoadedIsRoutable /\ DefaultsAreLegal
  /\ UdsTypeOK /\ OnlyWholeAnswersCount /\ KeptIsBounded
=============================================================================
