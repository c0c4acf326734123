----------------------------- MODULE Activation -----------------------------
(***************************************************************************)
(* Which profiles a consumer may use: RuntimeService's activation and      *)
(* selection (service.py), the two files that keep them across restarts    *)
(* (adapters/activation.py, adapters/selection.py), and the calls that     *)
(* read them before an await and use them after it.                        *)
(*                                                                         *)
(* A step is what the event loop does between two awaits.  A file is       *)
(* written inside one such step, but the process may die in the middle of  *)
(* it: the write has a begin (the temporary file) and an end (its          *)
(* replacement, or an OSError), and while saving is set no handler runs.   *)
(* A request that is refused changes nothing and is not a step.            *)
(***************************************************************************)
EXTENDS ModelOptions

CONSTANTS Configurations, \* what the operator may put in the YAML file
          Asked,          \* option identifiers callers ask for
          Discoveries,    \* answers of a provider's model catalog
          Session,        \* session identities
          Caller,         \* requests that may be awaiting a provider
          Retention,      \* the 1800 seconds an idle session is kept, in ticks
          None

ASSUME ActivationAssumption ==
  /\ Retention \in Nat /\ None \notin Profiles \cup Session \cup Caller
  /\ Asked \subseteq (Options \cup Models) \ {None}
  /\ \A c \in Configurations :
       /\ DOMAIN c.profiles \subseteq Profiles
       /\ \A p \in DOMAIN c.profiles : ModelProfile(c.profiles[p])

VARIABLES
  config,     \* the operator's configuration file
  overlay,    \* activation.json, None when there is no such file
  choice,     \* selection.json
  phase,      \* the runtime process
  overrides,  \* RuntimeService._activation_state
  saving,     \* the file write in progress
  sessions,   \* per identity the profile in use, as far as activation cares
  calls       \* per caller, what a suspended request remembers

memory == <<phase, overrides, saving, sessions, calls>>
files == <<config, overlay, choice>>
vars == <<files, memory>>

Overrides == UNION {[D -> BOOLEAN] : D \in SUBSET Profiles}
NoOverrides == [p \in {} |-> TRUE]
Idle == [op |-> "idle"]
Ages == 0 .. Retention + 1

(* The policy fingerprint bootstrap.build_runtime binds the overlay to.    *)
Fingerprint(c) ==
  [p \in DOMAIN c.managed |-> [enabled |-> c.managed[p], profile |-> c.profiles[p]]]

Files == [policy : {Fingerprint(c) : c \in Configurations}, profiles : Overrides]

ASSUME FilesAssumption == None \notin Files

(* _enabled.                                                               *)
EnabledUnder(c, state, p) ==
  IF p \in DOMAIN state THEN state[p]
  ELSE p \in DOMAIN c.managed => c.managed[p]

Enabled(p) == EnabledUnder(config, overrides, p)
EnabledProfiles == {p \in DOMAIN config.profiles : Enabled(p)}

(* ActivationStore.read accepts the file.                                  *)
OverlayAccepted(c, file) == file # None => file.policy = Fingerprint(c)

OverlayState(file) == IF file = None THEN NoOverrides ELSE file.profiles

(* RuntimeService.__init__ returns.                                        *)
StartAccepts(c, file) ==
  /\ OverlayAccepted(c, file)
  /\ DOMAIN OverlayState(file) \subseteq DOMAIN c.managed
  /\ \A p \in {c.default} \cup Routed(c) : EnabledUnder(c, OverlayState(file), p)

(* selected_profile: what the file says, if that profile may be used.      *)
Chosen == IF choice = None THEN config.default ELSE choice
SelectionValid == Chosen \in EnabledProfiles

(* A session whose profile may still be asked to run a turn.               *)
Held(s) == sessions[s] # None /\ (sessions[s].running \/ sessions[s].age <= Retention)

\* Mutant: only a running turn holds its profile.
InUseWhileRunning(p) ==
  \E s \in Session : sessions[s] # None /\ sessions[s].profile = p /\ sessions[s].running

InUse(p) == \E s \in Session : Held(s) /\ sessions[s].profile = p

\* Mutant: the selected profile is not looked at.
BlockedUnselected(p, unread) ==
  \/ p = config.default
  \/ Enabled(p) /\ (p \in Routed(config) \/ InUse(p))

(* _activation_blocker for a managed profile.  unread: selection.json      *)
(* could not be read just now, and then its blocker is left out.           *)
Blocked(p, unread) ==
  \/ p = config.default
  \/ /\ Enabled(p)
     /\ \/ ~unread /\ SelectionValid /\ p = Chosen
        \/ p \in Routed(config)
        \/ InUse(p)

-----------------------------------------------------------------------------
Init ==
  /\ config \in {c \in Configurations : Accepted(c)}
  /\ overlay = None /\ choice = None
  /\ phase = "down" /\ overrides = NoOverrides /\ saving = None
  /\ sessions = [s \in Session |-> None]
  /\ calls = [c \in Caller |-> Idle]

Serving == phase = "up" /\ saving = None

(* What the state of the profiles becomes when p is switched.              *)
Switched(p, enabled) ==
  [q \in DOMAIN overrides \cup {p} |-> IF q = p THEN enabled ELSE overrides[q]]

(* build_runtime and RuntimeService.__init__; a refusal leaves it down.    *)
Start ==
  /\ phase = "down"
  /\ StartAccepts(config, overlay)
  /\ phase' = "up"
  /\ overrides' = OverlayState(overlay)
  /\ UNCHANGED <<files, saving, sessions, calls>>

(* The process dies: memory and a half-written temporary file are lost.    *)
Crash ==
  /\ phase = "up"
  /\ phase' = "down" /\ overrides' = NoOverrides /\ saving' = None
  /\ sessions' = [s \in Session |-> None]
  /\ calls' = [c \in Caller |-> Idle]
  /\ UNCHANGED files

(* While the runtime is down the operator edits the configuration, or      *)
(* removes a stale overlay.                                                *)
Reconfigure ==
  /\ phase = "down"
  /\ config' \in {c \in Configurations : Accepted(c)}
  /\ UNCHANGED <<overlay, choice, memory>>

RemoveOverlay ==
  /\ phase = "down"
  /\ overlay' = None
  /\ UNCHANGED <<config, choice, memory>>

\* Mutant: memory is changed before the file is.
SetActivationEagerly(p, enabled, unread) ==
  /\ Serving
  /\ p \in DOMAIN config.managed
  /\ Enabled(p) # enabled
  /\ ~Blocked(p, unread)
  /\ overrides' = Switched(p, enabled)
  /\ saving' = [file |-> "overlay", unread |-> unread, value |-> overrides']
  /\ UNCHANGED <<files, phase, sessions, calls>>

(* set_adapter_activation up to the temporary file.                        *)
SetActivation(p, enabled, unread) ==
  /\ Serving
  /\ p \in DOMAIN config.managed
  /\ Enabled(p) # enabled
  /\ ~Blocked(p, unread)
  /\ saving' = [file |-> "overlay", unread |-> unread, value |-> Switched(p, enabled)]
  /\ UNCHANGED <<files, phase, overrides, sessions, calls>>

(* ActivationStore.write replaces the file, then memory follows.           *)
SaveOverlay ==
  /\ saving # None /\ saving.file = "overlay"
  /\ overlay' = [policy |-> Fingerprint(config), profiles |-> saving.value]
  /\ overrides' = saving.value
  /\ saving' = None
  /\ UNCHANGED <<config, choice, phase, sessions, calls>>

(* select_profile up to the temporary file.                                *)
SelectProfile(p) ==
  /\ Serving
  /\ p \in EnabledProfiles
  /\ saving' = [file |-> "selection", unread |-> FALSE, value |-> p]
  /\ UNCHANGED <<files, phase, overrides, sessions, calls>>

SaveSelection ==
  /\ saving # None /\ saving.file = "selection"
  /\ choice' = saving.value
  /\ saving' = None
  /\ UNCHANGED <<config, overlay, phase, overrides, sessions, calls>>

(* An OSError before the replacement: the request fails with 503.          *)
SaveFails ==
  /\ saving # None
  /\ saving' = None
  /\ UNCHANGED <<files, phase, overrides, sessions, calls>>

-----------------------------------------------------------------------------
(* create_session's choice of profile: a task's route, or else whatever    *)
(* the caller names, the selected profile when it names none.              *)
Targets(task) ==
  IF task # None THEN {config.routes[t] : t \in DOMAIN config.routes \cap {task}}
  ELSE DOMAIN config.profiles

(* The registry after create_session purged it and registered the record.  *)
(* efforts: what the adapter of the record's own profile supports.         *)
Register(s, p, option, efforts, effort) ==
  sessions' = [r \in Session |->
    IF r = s THEN [profile |-> p, option |-> option, efforts |-> efforts, effort |-> effort,
                   running |-> TRUE, age |-> 0]
    ELSE IF sessions[r] # None /\ ~Held(r) THEN None ELSE sessions[r]]

(* create_session without a model option: no await before the dispatch.    *)
Create(s, p, task, value) ==
  /\ Serving /\ sessions[s] = None
  /\ p \in Targets(task) /\ Enabled(p)
  /\ LET effort == TurnEffort(config.profiles[p], value)
     IN effort # Refused /\ Register(s, p, None, ResolveEfforts(config.profiles[p]), effort)
  /\ UNCHANGED <<files, phase, overrides, saving, calls>>

(* create_session with a model option, up to the await of the catalog.     *)
AskOption(c, p, task, option, value) ==
  /\ Serving /\ calls[c] = Idle
  /\ p \in Targets(task) /\ Enabled(p)
  /\ calls' = [calls EXCEPT ![c] =
       [op |-> "create", profile |-> p, task |-> task, option |-> option, value |-> value]]
  /\ UNCHANGED <<files, phase, overrides, saving, sessions>>

Return(c) == calls' = [calls EXCEPT ![c] = Idle]

\* Mutant: an option that does not resolve is dispatched all the same.
CreateWithOptionUnresolved(c, s, discovery) ==
  /\ Serving /\ calls[c].op = "create" /\ sessions[s] = None
  /\ LET call    == calls[c]
         derived == ResolvedOption(config.profiles[call.profile], call.option,
                                   IF call.task = None THEN Refused ELSE call.task, discovery)
     IN Register(s, call.profile, call.option,
                 IF derived = Refused THEN {} ELSE derived.efforts,
                 IF derived = Refused THEN Refused ELSE TurnEffort(derived, call.value))
  /\ Return(c)
  /\ UNCHANGED <<files, phase, overrides, saving>>

(* The rest of it, once the catalog answered: the option is resolved and   *)
(* the session dispatched.  Whether the profile is still enabled is not    *)
(* asked again.                                                            *)
CreateWithOption(c, s, discovery) ==
  /\ Serving /\ calls[c].op = "create" /\ sessions[s] = None
  /\ LET call    == calls[c]
         derived == ResolvedOption(config.profiles[call.profile], call.option,
                                   IF call.task = None THEN Refused ELSE call.task, discovery)
         effort  == IF derived = Refused THEN Refused ELSE TurnEffort(derived, call.value)
     IN effort # Refused /\ Register(s, call.profile, call.option, derived.efforts, effort)
  /\ Return(c)
  /\ UNCHANGED <<files, phase, overrides, saving>>

(* Its catalog failed, the option is refused or the caller went away.      *)
CreateRefused(c) ==
  /\ Serving /\ calls[c].op = "create"
  /\ Return(c)
  /\ UNCHANGED <<files, phase, overrides, saving, sessions>>

(* profile_state with probes, up to the await: one adapter per profile     *)
(* enabled now.                                                            *)
AskProfiles(c) ==
  /\ Serving /\ calls[c] = Idle
  /\ SelectionValid
  /\ calls' = [calls EXCEPT ![c] =
       [op |-> "profiles", selected |-> Chosen, adapters |-> EnabledProfiles]]
  /\ UNCHANGED <<files, phase, overrides, saving, sessions>>

(* The probes are in: adapters[profile_id] is looked up for every profile  *)
(* enabled by now, and its efforts are resolved.                           *)
ListProfiles(c) ==
  /\ Serving /\ calls[c].op = "profiles"
  /\ EnabledProfiles \subseteq calls[c].adapters
  /\ \A p \in EnabledProfiles : ResolveEfforts(config.profiles[p]) # Refused
  /\ calls' = [calls EXCEPT ![c] =
       [op |-> "listed", selected |-> calls[c].selected, profiles |-> EnabledProfiles]]
  /\ UNCHANGED <<files, phase, overrides, saving, sessions>>

(* A lookup failed (KeyError) or an effort policy cannot be delivered: the *)
(* whole listing is an error.                                              *)
ListingBreaks(c) ==
  /\ Serving /\ calls[c].op = "profiles"
  /\ \/ ~(EnabledProfiles \subseteq calls[c].adapters)
     \/ \E p \in EnabledProfiles : ResolveEfforts(config.profiles[p]) = Refused
  /\ Return(c)
  /\ UNCHANGED <<files, phase, overrides, saving, sessions>>

TakeListing(c) ==
  /\ Serving /\ calls[c].op = "listed"
  /\ Return(c)
  /\ UNCHANGED <<files, phase, overrides, saving, sessions>>

-----------------------------------------------------------------------------
(* A turn's last event makes the record fresh and idle.                    *)
TurnEnds(s) ==
  /\ Serving /\ sessions[s] # None /\ sessions[s].running
  /\ sessions' = [sessions EXCEPT ![s].running = FALSE, ![s].age = 0]
  /\ UNCHANGED <<files, phase, overrides, saving, calls>>

\* Mutant: the effort of a follow-up is taken as it comes.
ContinueUnchecked(s, value) ==
  /\ Serving /\ sessions[s] # None /\ ~sessions[s].running /\ Held(s)
  /\ LET effort == IF value = NoEffort THEN sessions[s].effort ELSE value
     IN sessions' = [sessions EXCEPT ![s].running = TRUE, ![s].age = 0, ![s].effort = effort]
  /\ UNCHANGED <<files, phase, overrides, saving, calls>>

(* A follow-up, or tool results when value is NoEffort: the record's own   *)
(* profile runs again, if _record still finds it.  A follow-up may ask for *)
(* another of its profile's efforts; else the session keeps the one it has.*)
Continue(s, value) ==
  /\ Serving /\ sessions[s] # None /\ ~sessions[s].running /\ Held(s)
  /\ value \in sessions[s].efforts \cup {NoEffort}
  /\ LET effort == IF value = NoEffort THEN sessions[s].effort ELSE value
     IN sessions' = [sessions EXCEPT ![s].running = TRUE, ![s].age = 0, ![s].effort = effort]
  /\ UNCHANGED <<files, phase, overrides, saving, calls>>

(* _record deletes an expired session it is asked for.                     *)
Forget(s) ==
  /\ Serving /\ sessions[s] # None /\ ~Held(s)
  /\ sessions' = [sessions EXCEPT ![s] = None]
  /\ UNCHANGED <<files, phase, overrides, saving, calls>>

(* Time passes over an idle session.                                       *)
Grow(s) ==
  /\ phase = "up" /\ sessions[s] # None /\ ~sessions[s].running
  /\ sessions[s].age <= Retention
  /\ sessions' = [sessions EXCEPT ![s].age = @ + 1]
  /\ UNCHANGED <<files, phase, overrides, saving, calls>>

Turn(s) ==
  \/ TurnEnds(s) \/ Forget(s) \/ Grow(s)
  \/ \E v \in Efforts \cup {NoEffort} : Continue(s, v)

Request(c) ==
  \/ AskProfiles(c) \/ ListProfiles(c) \/ ListingBreaks(c) \/ TakeListing(c)
  \/ CreateRefused(c)
  \/ \E p \in Profiles, t \in Tasks \cup {None}, o \in Asked,
        v \in Efforts \cup {NoEffort} : AskOption(c, p, t, o, v)
  \/ \E s \in Session, d \in Discoveries : CreateWithOption(c, s, d)

Save == SaveOverlay \/ SaveSelection \/ SaveFails

Operate == Start \/ Crash \/ Reconfigure \/ RemoveOverlay

Next ==
  \/ Operate \/ Save
  \/ \E p \in Profiles, e, unread \in BOOLEAN : SetActivation(p, e, unread)
  \/ \E p \in Profiles : SelectProfile(p)
  \/ \E s \in Session, p \in Profiles, t \in Tasks \cup {None},
        v \in Efforts \cup {NoEffort} : Create(s, p, t, v)
  \/ \E s \in Session : Turn(s)
  \/ \E c \in Caller : Request(c)

Spec == Init /\ [][Next]_vars

-----------------------------------------------------------------------------
Deciding == [op : {"create"}, profile : Profiles, task : Tasks \cup {None},
             option : Asked, value : Efforts \cup {NoEffort}]
Listing == [op : {"profiles"}, selected : Profiles, adapters : SUBSET Profiles]
Listed == [op : {"listed"}, selected : Profiles, profiles : SUBSET Profiles]
Record == [profile : Profiles, option : Asked \cup {None},
           efforts : SUBSET Efforts, effort : Efforts \cup {NoEffort},
           running : BOOLEAN, age : Ages]
Write == [file : {"overlay"}, unread : BOOLEAN, value : Overrides]
         \cup [file : {"selection"}, unread : BOOLEAN, value : Profiles]

(* Every variable has its type; a dead process has no memory.              *)
TypeOK ==
  /\ config \in Configurations /\ Accepted(config)
  /\ overlay \in Files \cup {None}
  /\ choice \in Profiles \cup {None}
  /\ phase \in {"down", "up"}
  /\ overrides \in Overrides
  /\ saving \in Write \cup {None}
  /\ sessions \in [Session -> Record \cup {None}]
  /\ calls \in [Caller -> Deciding \cup Listing \cup Listed \cup {Idle}]
  /\ phase = "down" => saving = None /\ overrides = NoOverrides

(* Whatever the moment of a crash, the runtime starts again on the files   *)
(* it left and enables the same profiles; an accepted configuration with   *)
(* no overlay always starts (ActivationStore.write, __init__).             *)
RestartSafe ==
  /\ phase = "down" /\ overlay = None => StartAccepts(config, overlay)
  /\ phase = "up" => /\ StartAccepts(config, overlay)
                     /\ overrides = OverlayState(overlay)

(* While the runtime serves, no call, and no two calls together, leave the *)
(* selection on a disabled profile; only a disable that could not read     *)
(* selection.json does (_activation_blocker, select_profile).              *)
SelectionStaysValid ==
  [][phase = "up" /\ phase' = "up" /\ SelectionValid /\ ~SelectionValid'
       => saving.unread]_vars

(* A session that may still run a turn was created on a profile that is    *)
(* enabled now, unless it was created with a model option: disabling waits *)
(* exactly as long as a record can be continued (_activation_blocker,      *)
(* _record).                                                               *)
DirectSessionsEnabled ==
  phase = "up" =>
    \A s \in Session : Held(s) /\ sessions[s].option = None => Enabled(sessions[s].profile)

(* "Disabled profiles remain visible as catalog options but cannot be      *)
(* selected or dispatched": what provider-adapters.md says of every        *)
(* session.                                                                *)
SessionsEnabled ==
  phase = "up" => \A s \in Session : Held(s) => Enabled(sessions[s].profile)

(* No turn, be it the first one or a follow-up, asks for an effort its     *)
(* route cannot encode, nor for one that the catalog the session was       *)
(* created with says the chosen model refuses (resolve_efforts,            *)
(* _resolved_model_option, continue_session).                              *)
EffortDeliverable ==
  [][/\ \A s \in Session : sessions'[s] # None =>
          sessions'[s].effort \in
            {NoEffort} \cup
            (sessions'[s].efforts \cap
             Transport[config.profiles[sessions'[s].profile].provider])
     /\ \A s \in Session : sessions[s] # None /\ sessions'[s] # None =>
          sessions'[s].efforts = sessions[s].efforts
     /\ \A c \in Caller, s \in Session, d \in Discoveries :
          CreateWithOption(c, s, d) =>
            LET profile == config.profiles[calls[c].profile]
                model   == OptionPolicies(profile, d)[calls[c].option].model
            IN d.details[model].known =>
                 sessions'[s].efforts \subseteq d.details[model].efforts]_vars
=============================================================================
