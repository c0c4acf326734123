---------------------------- MODULE ModelOptions ----------------------------
(***************************************************************************)
(* How one turn's model and reasoning effort are settled (service.py       *)
(* _reasoning_effort, _resolved_model_option, _model_option_policies;      *)
(* reasoning.py resolve_efforts).  Four parties narrow the efforts: the    *)
(* operator's profile, its option policy, the provider's catalog, and the  *)
(* adapter's transport.                                                    *)
(*                                                                         *)
(* A discovery is a record: supported, failed (a detail code that is not   *)
(* the maintained catalog's) and details, a function from model to what    *)
(* the catalog says of it.  The identifier of a catalog option is a digest *)
(* of profile and model: here it is the model itself.                      *)
(***************************************************************************)
EXTENDS Configuration

CONSTANTS Models,      \* model identities
          Options,     \* configured option identifiers
          Transport,   \* per connection, the efforts the route can encode
          Verified,    \* per connection, per model, the efforts observed
          Refused      \* a RuntimeFailure, or the answer of a failed step

ASSUME ModelOptionsAssumption ==
  /\ Transport \in [Providers -> SUBSET Efforts]
  /\ Verified \in [Providers -> [Models -> SUBSET Efforts]]
  /\ \A c \in Providers, m \in Models : Verified[c][m] \subseteq Transport[c]
  /\ Refused \notin Efforts \cup {NoEffort}

(* A ModelProfile: the fields that settle an effort.                       *)
ModelProfile(profile) ==
  /\ {"provider", "model", "efforts", "default", "options"} \subseteq DOMAIN profile
  /\ profile.model \in Models

(* resolve_efforts: a declaration outside the transport, or a default      *)
(* outside the result, is invalid_configuration when the adapter is asked. *)
ResolveEfforts(profile) ==
  LET efforts == IF profile.efforts # {} THEN profile.efforts
                 ELSE Verified[profile.provider][profile.model]
  IN IF \/ ~(profile.efforts \subseteq Transport[profile.provider])
        \/ profile.default \notin efforts \cup {NoEffort}
     THEN Refused ELSE efforts

(* _reasoning_effort for a turn that asks for value (NoEffort: nothing).   *)
TurnEffort(profile, value) ==
  LET supported == ResolveEfforts(profile)
  IN IF supported = Refused THEN Refused
     ELSE IF value = NoEffort
          THEN IF profile.default \in supported THEN profile.default ELSE NoEffort
     ELSE IF value \in supported THEN value ELSE Refused

(* _model_option_policies: exact options, or one per discovered reasoning  *)
(* model when the operator qualified the whole catalog.                    *)
OptionPolicies(profile, discovery) ==
  IF DOMAIN profile.options # {} THEN profile.options
  ELSE LET reasoning == {m \in DOMAIN discovery.details :
                           discovery.details[m].kind = "reasoning"}
       IN [m \in IF profile.catalogTasks = {} THEN {} ELSE reasoning |->
             [model |-> m, tasks |-> profile.catalogTasks,
              efforts |-> profile.efforts, default |-> profile.default]]

CatalogUsable(discovery) ==
  discovery.supported /\ (discovery.failed => DOMAIN discovery.details # {})

(* The efforts an option offers: the policy's or else the catalog's,       *)
(* narrowed to what the catalog knows the model accepts.                   *)
OptionEfforts(policy, item) ==
  LET stated == IF policy.efforts # {} THEN policy.efforts ELSE item.efforts
  IN IF item.known THEN stated \cap item.efforts ELSE stated

(* The profile _resolved_model_option derives, before the transport check. *)
Derived(profile, policy, item) ==
  LET efforts == OptionEfforts(policy, item)
      default == IF policy.default # NoEffort THEN policy.default ELSE item.default
  IN [profile EXCEPT !.model = policy.model,
                     !.efforts = efforts,
                     !.default = IF default \in efforts THEN default ELSE NoEffort,
                     !.options = [o \in {} |-> Refused]]

(* _resolved_model_option: the derived profile or a refusal.  task is      *)
(* Refused when the caller names none.                                     *)
ResolvedOption(profile, option, task, discovery) ==
  LET policies == OptionPolicies(profile, discovery)
      policy   == policies[option]
      item     == discovery.details[policy.model]
      derived  == Derived(profile, policy, item)
      stated   == IF policy.efforts # {} THEN policy.efforts ELSE item.efforts
      offered  ==
        /\ CatalogUsable(discovery)
        /\ option \in DOMAIN policies
        /\ policy.model \in DOMAIN discovery.details
        /\ item.kind = "reasoning"
        /\ task # Refused => task \in policy.tasks
        /\ item.known /\ DOMAIN profile.options # {} => stated \subseteq item.efforts
        /\ ResolveEfforts(derived) = derived.efforts
  IN IF offered THEN derived ELSE Refused
=============================================================================
