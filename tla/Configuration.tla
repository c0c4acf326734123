--------------------------- MODULE Configuration ---------------------------
(***************************************************************************)
(* What load_configuration (configuration.py) accepts, as far as the rest  *)
(* of the runtime relies on it: every identifier resolves, no limit leaves *)
(* its range, a disabled profile is neither the default nor a task's       *)
(* route, and an effort policy is consistent.  A configuration is a record *)
(* of functions: the YAML layer, the spelling of identifiers, endpoints    *)
(* and commands are left out.                                              *)
(***************************************************************************)
EXTENDS Integers

CONSTANTS Profiles,   \* profile identifiers
          Providers,  \* provider connections
          External,   \* connections whose driver is not lmstudio
          Tasks,      \* task codes
          Efforts,    \* ReasoningEffort
          NoEffort    \* no default_reasoning_effort

ASSUME ConfigurationAssumption ==
  External \subseteq Providers /\ NoEffort \notin Efforts

(* _limits: the ranges of one profile's limits.                            *)
LimitsAccepted(l) ==
  /\ l.timeout \in 1..900
  /\ l.input \in 1000..200000
  /\ l.output \in 1000..100000
  /\ l.tokens \in 1..128000
  /\ l.rounds \in 0..32

(* A declared default belongs to the declared efforts, if any are.         *)
DefaultDeclared(efforts, default) ==
  default # NoEffort /\ efforts # {} => default \in efforts

(* _model_options: models are exact and distinct, tasks are named.         *)
OptionsAccepted(options) ==
  /\ \A o \in DOMAIN options :
       /\ options[o].tasks # {}
       /\ DefaultDeclared(options[o].efforts, options[o].default)
  /\ \A o, other \in DOMAIN options :
       options[o].model = options[other].model => o = other

(* The profile's part of load_configuration.                               *)
ProfileAccepted(p) ==
  /\ p.provider \in Providers
  /\ p.provider \in External => p.external
  /\ LimitsAccepted(p.limits)
  /\ OptionsAccepted(p.options)
  /\ p.catalogTasks = {} \/ DOMAIN p.options = {}
  /\ DefaultDeclared(p.efforts, p.default)

(* The default profile and the task routes name configured profiles.       *)
RoutesAccepted(c) ==
  /\ c.default \in DOMAIN c.profiles
  /\ \A t \in DOMAIN c.routes : c.routes[t] \in DOMAIN c.profiles

(* The activation policy: managed profiles start as the operator says, and *)
(* neither the default nor a routed profile starts disabled.               *)
ActivationAccepted(c) ==
  /\ DOMAIN c.managed \subseteq DOMAIN c.profiles
  /\ \A p \in DOMAIN c.managed : c.managed[p] \in BOOLEAN
  /\ c.default \in DOMAIN c.managed => c.managed[c.default]
  /\ \A t \in DOMAIN c.routes :
       c.routes[t] \in DOMAIN c.managed => c.managed[c.routes[t]]

(* load_configuration returns instead of raising invalid_configuration.    *)
Accepted(c) ==
  /\ DOMAIN c.profiles # {}
  /\ \A p \in DOMAIN c.profiles : ProfileAccepted(c.profiles[p])
  /\ RoutesAccepted(c)
  /\ ActivationAccepted(c)

Routed(c) == {c.routes[t] : t \in DOMAIN c.routes}
=============================================================================
