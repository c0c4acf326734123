-------------------------- MODULE ActivationProofs --------------------------
(***************************************************************************)
(* Proofs about Activation, for any operator policies, catalogs, sessions  *)
(* and callers.                                                            *)
(*                                                                         *)
(* What a file will hold is decided when its temporary copy is begun and   *)
(* takes effect when the copy replaces it.  The invariant therefore says   *)
(* of a write in progress what the property says of the finished one:      *)
(* SavingSound.                                                            *)
(***************************************************************************)
EXTENDS Activation, TLAPS

(* Files and memory hold booleans over managed profiles.                   *)
Booleans(state) == state \in Overrides

(* Sessions and calls are functions, and a session is a record.            *)
Registry ==
  /\ sessions = [s \in Session |-> sessions[s]]
  /\ calls = [c \in Caller |-> calls[c]]
  /\ \A s \in Session : sessions[s] # None =>
       sessions[s] = [profile |-> sessions[s].profile, option |-> sessions[s].option,
                      efforts |-> sessions[s].efforts, effort |-> sessions[s].effort,
                      running |-> sessions[s].running, age |-> sessions[s].age]
  /\ \A c \in Caller : calls[c].op = "create" => calls[c].option \in Asked

Shape ==
  /\ config \in Configurations /\ Accepted(config)
  /\ phase \in {"down", "up"}
  /\ phase = "down" => saving = None /\ \A s \in Session : sessions[s] = None
  /\ Booleans(overrides)
  /\ overlay # None => Booleans(overlay.profiles)
  /\ Registry

(* The policy's part of StartAccepts, for a state of the profiles.         *)
Admits(state) ==
  /\ DOMAIN state \subseteq DOMAIN config.managed
  /\ \A p \in {config.default} \cup Routed(config) : EnabledUnder(config, state, p)

DirectEnabledUnder(state) ==
  \A s \in Session : Held(s) /\ sessions[s].option = None =>
    EnabledUnder(config, state, sessions[s].profile)

SavingSound ==
  saving # None =>
    /\ saving.file \in {"overlay", "selection"}
    /\ saving.file = "overlay" =>
         /\ Booleans(saving.value)
         /\ Admits(saving.value)
         /\ DirectEnabledUnder(saving.value)
         /\ ~saving.unread /\ SelectionValid => EnabledUnder(config, saving.value, Chosen)
    /\ saving.file = "selection" => saving.value \in EnabledProfiles

Inv == Shape /\ RestartSafe /\ DirectSessionsEnabled /\ SavingSound

-----------------------------------------------------------------------------
(* Without an overlay the configuration decides, and an accepted one       *)
(* starts with its default and its routes enabled.                         *)
LEMMA FreshStart == ASSUME NEW c, Accepted(c) PROVE StartAccepts(c, None)
<1>1. ASSUME NEW p \in {c.default} \cup Routed(c)
      PROVE EnabledUnder(c, NoOverrides, p)
  BY DEF EnabledUnder, NoOverrides, Accepted, ActivationAccepted, Routed
<1>2. DOMAIN NoOverrides \subseteq DOMAIN c.managed
  BY DEF NoOverrides
<1> QED BY <1>1, <1>2 DEF StartAccepts, OverlayAccepted, OverlayState

(* Enabled is a boolean.                                                   *)
LEMMA EnabledIsBoolean ==
  ASSUME Shape, NEW state, Booleans(state), NEW p PROVE EnabledUnder(config, state, p) \in BOOLEAN
<1>1. PICK D \in SUBSET Profiles : state \in [D -> BOOLEAN]
  BY DEF Booleans, Overrides
<1> QED BY <1>1 DEF EnabledUnder, Shape, Accepted, ActivationAccepted

(* Switching p changes what is enabled at p alone.                         *)
LEMMA SwitchedElsewhere ==
  ASSUME NEW p \in Profiles, NEW e \in BOOLEAN
  PROVE /\ EnabledUnder(config, Switched(p, e), p) = e
        /\ \A q : q # p => EnabledUnder(config, Switched(p, e), q) = Enabled(q)
        /\ DOMAIN Switched(p, e) = DOMAIN overrides \cup {p}
        /\ Booleans(overrides) => Booleans(Switched(p, e))
<1>1. ASSUME Booleans(overrides) PROVE Booleans(Switched(p, e))
  <2>1. PICK D \in SUBSET Profiles : overrides \in [D -> BOOLEAN]
    BY <1>1 DEF Booleans, Overrides
  <2>2. Switched(p, e) \in [D \cup {p} -> BOOLEAN] BY <2>1 DEF Switched
  <2> QED BY <2>2 DEF Booleans, Overrides
<1> QED BY <1>1 DEF EnabledUnder, Switched, Enabled

LEMMA NothingSwitched == Booleans(NoOverrides)
<1>1. NoOverrides \in [{} -> BOOLEAN] BY DEF NoOverrides
<1> QED BY <1>1 DEF Booleans, Overrides

LEMMA InitInv == Init => Inv
<1> SUFFICES ASSUME Init PROVE Inv OBVIOUS
<1>1. Accepted(config) /\ config \in Configurations BY DEF Init
<1>2. StartAccepts(config, overlay) BY <1>1, FreshStart DEF Init
<1>4. Shape BY <1>1, NothingSwitched DEF Init, Shape, Registry, Idle
<1> QED BY <1>2, <1>4 DEF Init, Inv, RestartSafe, DirectSessionsEnabled, SavingSound

(* A step that leaves files, memory and write alone and adds no session    *)
(* keeps the invariant; with a session added, see Registered.              *)
LEMMA Unsaved ==
  ASSUME Inv, phase = "up", UNCHANGED <<files, phase, overrides, saving>>,
         Registry',
         \A s \in Session : Held(s)' => \/ /\ Held(s)
                                           /\ sessions'[s].profile = sessions[s].profile
                                           /\ sessions'[s].option = sessions[s].option
                                        \/ /\ saving = None
                                           /\ sessions'[s].option = None =>
                                                Enabled(sessions'[s].profile)
  PROVE  Inv'
<1>1. Shape' BY DEF Inv, Shape, Registry, files, Booleans
<1>2. RestartSafe' BY DEF Inv, RestartSafe, files, OverlayState
<1>3. DirectSessionsEnabled'
  BY DEF Inv, DirectSessionsEnabled, files, Enabled, EnabledUnder
<1>4. SavingSound'
  <2> SUFFICES ASSUME saving # None PROVE SavingSound'
    BY DEF SavingSound
  <2>1. DirectEnabledUnder(saving.value) => DirectEnabledUnder(saving.value)'
    BY DEF DirectEnabledUnder, files, EnabledUnder
  <2>2. Admits(saving.value) => Admits(saving.value)'
    BY DEF Admits, files, EnabledUnder, Routed
  <2>3. SelectionValid' = SelectionValid /\ Chosen' = Chosen /\ EnabledProfiles' = EnabledProfiles
    BY DEF SelectionValid, Chosen, EnabledProfiles, files, Enabled, EnabledUnder
  <2>4. saving' = saving /\ config' = config BY DEF files
  <2> QED
    BY <2>1, <2>2, <2>3, <2>4 DEF Inv, SavingSound, EnabledUnder, Booleans
<1> QED BY <1>1, <1>2, <1>3, <1>4 DEF Inv

-----------------------------------------------------------------------------
(* Starting and stopping: the files decide, memory begins empty.           *)
LEMMA OperateInv == Inv /\ Operate => Inv'
<1> SUFFICES ASSUME Inv, Operate PROVE Inv' OBVIOUS
<1>1. CASE Start
  <2>1. Shape' BY <1>1, NothingSwitched DEF Start, Inv, Shape, Registry, files, Booleans, OverlayState
  <2>2. RestartSafe' BY <1>1 DEF Start, RestartSafe, files
  <2>3. \A s \in Session : sessions'[s] = None
    BY <1>1 DEF Start, Inv, Shape
  <2>4. DirectSessionsEnabled' BY <2>3 DEF DirectSessionsEnabled, Held
  <2>5. SavingSound' BY <1>1 DEF Start, Inv, Shape, SavingSound
  <2> QED BY <2>1, <2>2, <2>4, <2>5 DEF Inv
<1>2. CASE Crash
  <2>1. Shape' BY <1>2, NothingSwitched DEF Crash, Inv, Shape, Registry, files, Booleans, Idle
  <2>2. RestartSafe' BY <1>2, FreshStart DEF Crash, RestartSafe, files, Inv, Shape
  <2>3. DirectSessionsEnabled' /\ SavingSound'
    BY <1>2 DEF Crash, DirectSessionsEnabled, SavingSound
  <2> QED BY <2>1, <2>2, <2>3 DEF Inv
<1>3. CASE Reconfigure
  <2>1. Shape' BY <1>3 DEF Reconfigure, memory, Inv, Shape, Registry, Booleans
  <2>2. RestartSafe' BY <2>1, <1>3, FreshStart DEF Reconfigure, memory, RestartSafe, Shape
  <2>3. DirectSessionsEnabled' /\ SavingSound'
    BY <1>3 DEF Reconfigure, memory, Inv, Shape, DirectSessionsEnabled, SavingSound
  <2> QED BY <2>1, <2>2, <2>3 DEF Inv
<1>4. CASE RemoveOverlay
  <2>1. Shape' BY <1>4 DEF RemoveOverlay, memory, Inv, Shape, Registry, Booleans
  <2>2. RestartSafe' BY <2>1, <1>4, FreshStart DEF RemoveOverlay, memory, RestartSafe, Shape
  <2>3. DirectSessionsEnabled' /\ SavingSound'
    BY <1>4 DEF RemoveOverlay, memory, Inv, Shape, DirectSessionsEnabled, SavingSound
  <2> QED BY <2>1, <2>2, <2>3 DEF Inv
<1> QED BY <1>1, <1>2, <1>3, <1>4 DEF Operate

(* A write may be begun only if its result is sound: this is where the     *)
(* blockers of set_adapter_activation are needed.                          *)
LEMMA SetActivationInv ==
  ASSUME Inv, NEW p \in Profiles, NEW e \in BOOLEAN, NEW unread \in BOOLEAN,
         SetActivation(p, e, unread)
  PROVE  Inv'
<1> DEFINE v == Switched(p, e)
<1>1. /\ UNCHANGED <<files, phase, overrides, sessions, calls>>
      /\ phase = "up" /\ saving = None
      /\ p \in DOMAIN config.managed /\ Enabled(p) # e /\ ~Blocked(p, unread)
      /\ saving' = [file |-> "overlay", unread |-> unread, value |-> v]
  BY DEF SetActivation, Serving
<1>2. /\ \A q : q # p => EnabledUnder(config, v, q) = Enabled(q)
      /\ EnabledUnder(config, v, p) = e
      /\ DOMAIN v = DOMAIN overrides \cup {p}
      /\ Booleans(v)
  BY SwitchedElsewhere DEF Inv, Shape
<1>3. Enabled(p) \in BOOLEAN BY EnabledIsBoolean DEF Enabled, Inv, Shape
<1>4. e = FALSE => Enabled(p) BY <1>1, <1>3
<1>5. Shape' BY <1>1 DEF Inv, Shape, Registry, files, Booleans
<1>6. RestartSafe' BY <1>1 DEF Inv, RestartSafe, files
<1>7. DirectSessionsEnabled'
  BY <1>1 DEF Inv, DirectSessionsEnabled, files, Held, Enabled, EnabledUnder
<1>8. Admits(v)
  <2>1. DOMAIN v \subseteq DOMAIN config.managed
    BY <1>1, <1>2 DEF Inv, RestartSafe, StartAccepts
  <2>2. \A q \in {config.default} \cup Routed(config) : Enabled(q)
    BY <1>1 DEF Inv, RestartSafe, StartAccepts, Enabled
  <2>3. \A q \in {config.default} \cup Routed(config) : EnabledUnder(config, v, q)
    <3> TAKE q \in {config.default} \cup Routed(config)
    <3>1. CASE q # p BY <3>1, <2>2, <1>2
    <3>2. CASE q = p
      <4>1. e = FALSE => FALSE BY <1>1, <1>4, <3>2 DEF Blocked
      <4> QED BY <4>1, <3>2, <1>2
    <3> QED BY <3>1, <3>2
  <2> QED BY <2>1, <2>3 DEF Admits
<1>9. DirectEnabledUnder(v)
  <2> SUFFICES ASSUME NEW s \in Session, Held(s), sessions[s].option = None
               PROVE  EnabledUnder(config, v, sessions[s].profile)
    BY DEF DirectEnabledUnder
  <2>1. Enabled(sessions[s].profile)
    BY <1>1 DEF Inv, DirectSessionsEnabled
  <2>2. CASE sessions[s].profile # p BY <2>1, <2>2, <1>2
  <2>3. CASE sessions[s].profile = p
    <3>1. e = FALSE => FALSE BY <1>1, <1>4, <2>3 DEF Blocked, InUse
    <3> QED BY <3>1, <2>3, <1>2
  <2> QED BY <2>2, <2>3
<1>10. ~unread /\ SelectionValid => EnabledUnder(config, v, Chosen)
  <2> SUFFICES ASSUME ~unread, SelectionValid PROVE EnabledUnder(config, v, Chosen)
    OBVIOUS
  <2>1. Enabled(Chosen) BY DEF SelectionValid, EnabledProfiles
  <2>2. CASE Chosen # p BY <2>1, <2>2, <1>2
  <2>3. CASE Chosen = p
    <3>1. e = FALSE => FALSE BY <1>1, <1>4, <2>3 DEF Blocked
    <3> QED BY <3>1, <2>3, <1>2
  <2> QED BY <2>2, <2>3
<1>11. SavingSound'
  <2>1. config' = config /\ choice' = choice BY <1>1 DEF files
  <2>2. Admits(v)' BY <1>8, <2>1, <1>1 DEF Admits, EnabledUnder, Routed, Switched
  <2>3. DirectEnabledUnder(v)'
    BY <1>9, <2>1, <1>1 DEF DirectEnabledUnder, EnabledUnder, Held, Switched
  <2>4. (~unread /\ SelectionValid => EnabledUnder(config, v, Chosen))'
    BY <1>10, <2>1, <1>1 DEF SelectionValid, Chosen, EnabledProfiles, Enabled, EnabledUnder, Switched
  <2>5. Booleans(v)' BY <1>2, <1>1 DEF Booleans, Switched
  <2>6. v' = v BY <1>1 DEF Switched
  <2>7. saving'.file = "overlay" /\ saving'.value = v /\ saving'.unread = unread BY <1>1
  <2> QED BY <2>2, <2>3, <2>4, <2>5, <2>6, <2>7 DEF SavingSound
<1> QED BY <1>5, <1>6, <1>7, <1>11 DEF Inv

LEMMA SelectProfileInv ==
  ASSUME Inv, NEW p \in Profiles, SelectProfile(p) PROVE Inv'
<1>1. Shape' BY DEF SelectProfile, Serving, Inv, Shape, Registry, files, Booleans
<1>2. RestartSafe' BY DEF SelectProfile, Inv, RestartSafe, files
<1>3. DirectSessionsEnabled'
  BY DEF SelectProfile, Inv, DirectSessionsEnabled, files, Held, Enabled, EnabledUnder
<1>4. saving'.file = "selection" /\ saving'.value \in EnabledProfiles'
  BY DEF SelectProfile, files, EnabledProfiles, Enabled, EnabledUnder
<1> QED BY <1>1, <1>2, <1>3, <1>4 DEF Inv, SavingSound

(* What was begun soundly ends soundly.                                    *)
LEMMA SaveInv == Inv /\ Save => Inv'
<1> SUFFICES ASSUME Inv, Save PROVE Inv' OBVIOUS
<1>0. phase = "up" /\ saving # None /\ saving' = None
  BY DEF Save, SaveOverlay, SaveSelection, SaveFails, Inv, Shape
<1>1. SavingSound' BY <1>0 DEF SavingSound
<1>2. CASE SaveOverlay
  <2>1. /\ Booleans(saving.value) /\ Admits(saving.value) /\ DirectEnabledUnder(saving.value)
    BY <1>2, <1>0 DEF SaveOverlay, Inv, SavingSound
  <2>2. Shape' BY <1>2, <1>0, <2>1 DEF SaveOverlay, Inv, Shape, Registry, Booleans
  <2>3. OverlayState(overlay)' = saving.value
    <3>1. overlay' \in Files
      BY <1>2, <2>1 DEF SaveOverlay, Files, Booleans, Inv, Shape
    <3> QED BY <3>1, <1>2, FilesAssumption DEF SaveOverlay, OverlayState
  <2>4. RestartSafe'
    BY <1>2, <1>0, <2>1, <2>3
    DEF SaveOverlay, RestartSafe, StartAccepts, OverlayAccepted, Admits, EnabledUnder, Routed
  <2>5. DirectSessionsEnabled'
    BY <1>2, <2>1 DEF SaveOverlay, DirectSessionsEnabled, DirectEnabledUnder, Enabled, EnabledUnder, Held
  <2> QED BY <2>2, <2>4, <2>5, <1>1 DEF Inv
<1>3. CASE SaveSelection
  <2>1. Shape' BY <1>3, <1>0 DEF SaveSelection, Inv, Shape, Registry, Booleans
  <2>2. RestartSafe' BY <1>3 DEF SaveSelection, Inv, RestartSafe
  <2>3. DirectSessionsEnabled'
    BY <1>3 DEF SaveSelection, Inv, DirectSessionsEnabled, Enabled, EnabledUnder, Held
  <2> QED BY <2>1, <2>2, <2>3, <1>1 DEF Inv
<1>4. CASE SaveFails
  <2>1. Shape' BY <1>4, <1>0 DEF SaveFails, files, Inv, Shape, Registry, Booleans
  <2>2. RestartSafe' BY <1>4 DEF SaveFails, files, Inv, RestartSafe
  <2>3. DirectSessionsEnabled'
    BY <1>4 DEF SaveFails, files, Inv, DirectSessionsEnabled, Enabled, EnabledUnder, Held
  <2> QED BY <2>1, <2>2, <2>3, <1>1 DEF Inv
<1> QED BY <1>2, <1>3, <1>4 DEF Save

-----------------------------------------------------------------------------
(* Register adds the one session s and may only drop others.               *)
LEMMA Registered ==
  ASSUME NEW s \in Session, NEW p, NEW option, NEW efforts, NEW effort,
         Register(s, p, option, efforts, effort)
  PROVE  /\ sessions'[s].profile = p /\ sessions'[s].option = option
         /\ \A r \in Session : r # s /\ Held(r)' => Held(r) /\ sessions'[r] = sessions[r]
  BY DEF Register, Held

LEMMA NewRegistry ==
  ASSUME Registry, NEW s \in Session, NEW p, NEW option, NEW efforts, NEW effort,
         Register(s, p, option, efforts, effort)
  PROVE  /\ sessions' = [r \in Session |-> sessions'[r]]
         /\ \A r \in Session : sessions'[r] # None =>
              sessions'[r] = [profile |-> sessions'[r].profile, option |-> sessions'[r].option,
                              efforts |-> sessions'[r].efforts, effort |-> sessions'[r].effort,
                              running |-> sessions'[r].running, age |-> sessions'[r].age]
<1>1. sessions' = [r \in Session |-> sessions'[r]] BY DEF Register
<1>2. ASSUME NEW r \in Session, sessions'[r] # None
      PROVE  sessions'[r] = [profile |-> sessions'[r].profile, option |-> sessions'[r].option,
                             efforts |-> sessions'[r].efforts, effort |-> sessions'[r].effort,
                             running |-> sessions'[r].running, age |-> sessions'[r].age]
  <2>1. CASE r = s
    <3>1. sessions'[r] = [profile |-> p, option |-> option, efforts |-> efforts,
                          effort |-> effort, running |-> TRUE, age |-> 0]
      BY <2>1 DEF Register
    <3> QED BY <3>1
  <2>2. CASE r # s
    <3>1. sessions'[r] = sessions[r] BY <1>2, <2>2 DEF Register
    <3> QED BY <3>1, <1>2 DEF Registry
  <2> QED BY <2>1, <2>2
<1> QED BY <1>1, <1>2

LEMMA CreateInv ==
  ASSUME Inv, NEW s \in Session, NEW p \in Profiles, NEW t, NEW v, Create(s, p, t, v)
  PROVE  Inv'
<1> DEFINE effort  == TurnEffort(config.profiles[p], v)
           efforts == ResolveEfforts(config.profiles[p])
<1>1. /\ phase = "up" /\ saving = None /\ Enabled(p)
      /\ Register(s, p, None, efforts, effort)
      /\ UNCHANGED <<files, phase, overrides, saving, calls>>
  BY DEF Create, Serving
<1>2. \A r \in Session : Held(r)' =>
        \/ Held(r) /\ sessions'[r].profile = sessions[r].profile
                   /\ sessions'[r].option = sessions[r].option
        \/ saving = None /\ (sessions'[r].option = None => Enabled(sessions'[r].profile))
  <2> HIDE DEF effort, efforts
  <2> QED BY <1>1, Registered
<1>3. Registry'
  <2> HIDE DEF effort, efforts
  <2> QED BY <1>1, NewRegistry DEF Inv, Shape, Registry
<1> QED BY <1>1, <1>2, <1>3, Unsaved

(* What a session's turns leave alone.                                      *)
LEMMA TurnKeeps ==
  ASSUME NEW s \in Session, Turn(s)
  PROVE  /\ phase = "up" /\ sessions[s] # None
         /\ UNCHANGED <<files, phase, overrides, saving, calls>>
         /\ sessions = [r \in Session |-> sessions[r]] =>
              /\ sessions' = [r \in Session |-> sessions'[r]]
              /\ \A r \in Session : r # s => sessions'[r] = sessions[r]
<1>1. CASE TurnEnds(s) BY <1>1 DEF TurnEnds, Serving
<1>2. CASE \E v \in Efforts \cup {NoEffort} : Continue(s, v)
  <2>1. PICK v \in Efforts \cup {NoEffort} : Continue(s, v) BY <1>2
  <2> QED BY <2>1 DEF Continue, Serving
<1>3. CASE Forget(s) BY <1>3 DEF Forget, Serving
<1>4. CASE Grow(s) BY <1>4 DEF Grow
<1> QED BY <1>1, <1>2, <1>3, <1>4 DEF Turn

LEMMA TurnInv == ASSUME Inv, NEW s \in Session, Turn(s) PROVE Inv'
<1>1. phase = "up" /\ UNCHANGED <<files, phase, overrides, saving, calls>>
  BY TurnKeeps
<1>2. /\ sessions = [r \in Session |-> sessions[r]]
      /\ sessions[s] # None
      /\ sessions[s] = [profile |-> sessions[s].profile, option |-> sessions[s].option,
                        efforts |-> sessions[s].efforts, effort |-> sessions[s].effort,
                        running |-> sessions[s].running, age |-> sessions[s].age]
  BY TurnKeeps DEF Inv, Shape, Registry
<1> DEFINE Was == sessions[s]
           With(effort, running, age) ==
             [profile |-> Was.profile, option |-> Was.option, efforts |-> Was.efforts,
              effort |-> effort, running |-> running, age |-> age]
<1>3. \A r \in Session : r # s => sessions'[r] = sessions[r]
  BY <1>2, TurnKeeps
<1>4. \/ sessions'[s] = None
      \/ Held(s) /\ \E effort, running, age : sessions'[s] = With(effort, running, age)
  <2>1. CASE TurnEnds(s)
    <3>1. sessions'[s] = With(Was.effort, FALSE, 0) BY <2>1, <1>2 DEF TurnEnds
    <3> QED BY <3>1, <2>1 DEF TurnEnds, Held
  <2>2. CASE \E v \in Efforts \cup {NoEffort} : Continue(s, v)
    <3>1. PICK v \in Efforts \cup {NoEffort} : Continue(s, v) BY <2>2
    <3>2. sessions'[s] = With(IF v = NoEffort THEN Was.effort ELSE v, TRUE, 0)
      BY <3>1, <1>2 DEF Continue
    <3> QED BY <3>1, <3>2 DEF Continue
  <2>3. CASE Forget(s) BY <2>3, <1>2 DEF Forget
  <2>4. CASE Grow(s)
    <3>1. sessions'[s] = With(Was.effort, Was.running, Was.age + 1) BY <2>4, <1>2 DEF Grow
    <3> QED BY <3>1, <2>4 DEF Grow, Held
  <2> QED BY <2>1, <2>2, <2>3, <2>4 DEF Turn
<1>5. ASSUME NEW r \in Session, Held(r)'
      PROVE  /\ Held(r)
             /\ sessions'[r].profile = sessions[r].profile
             /\ sessions'[r].option = sessions[r].option
  <2>1. CASE r # s BY <1>5, <2>1, <1>3 DEF Held
  <2>2. CASE r = s
    <3>1. sessions'[s] # None BY <1>5, <2>2 DEF Held
    <3>2. Held(s) BY <3>1, <1>4
    <3>3. PICK effort, running, age : sessions'[s] = With(effort, running, age) BY <3>1, <1>4
    <3>4. sessions'[s].profile = sessions[s].profile /\ sessions'[s].option = sessions[s].option
      BY <3>3
    <3> QED BY <3>2, <3>4, <2>2
  <2> QED BY <2>1, <2>2
<1>6. Registry'
  <2>1. sessions' = [r \in Session |-> sessions'[r]] BY <1>2, TurnKeeps
  <2>2. \A r \in Session : sessions'[r] # None =>
          sessions'[r] = [profile |-> sessions'[r].profile, option |-> sessions'[r].option,
                          efforts |-> sessions'[r].efforts, effort |-> sessions'[r].effort,
                          running |-> sessions'[r].running, age |-> sessions'[r].age]
    BY <1>3, <1>4 DEF Inv, Shape, Registry
  <2> QED BY <2>1, <2>2, <1>1 DEF Inv, Shape, Registry
<1> QED BY <1>1, <1>5, <1>6, Unsaved

LEMMA RequestInv == ASSUME Inv, NEW c \in Caller, Request(c) PROVE Inv'
<1>0. calls = [k \in Caller |-> calls[k]] BY DEF Inv, Shape, Registry
<1>1. phase = "up" /\ saving = None /\ UNCHANGED <<files, phase, overrides, saving>>
  BY DEF Request, AskProfiles, ListProfiles, ListingBreaks, TakeListing, CreateRefused,
         AskOption, CreateWithOption, Serving
<1>2. \A k \in Caller : calls'[k].op = "create" => calls'[k].option \in Asked
  <2>0. \A k \in Caller : k # c => calls'[k] = calls[k]
    BY <1>0 DEF Request, AskProfiles, ListProfiles, ListingBreaks, TakeListing, CreateRefused,
           AskOption, CreateWithOption, Return
  <2>1. calls'[c].op = "create" => calls'[c].option \in Asked
    <3>0. Registry /\ calls = [k \in Caller |-> calls[k]] BY <1>0 DEF Inv, Shape
    <3> USE <3>0 DEF Return, Idle, Registry
    <3>1. CASE AskProfiles(c) BY <3>1 DEF AskProfiles
    <3>2. CASE ListProfiles(c) BY <3>2 DEF ListProfiles
    <3>3. CASE ListingBreaks(c) BY <3>3 DEF ListingBreaks
    <3>4. CASE TakeListing(c) BY <3>4 DEF TakeListing
    <3>5. CASE CreateRefused(c) BY <3>5 DEF CreateRefused
    <3>6. CASE \E p \in Profiles, t \in Tasks \cup {None}, o \in Asked,
                  v \in Efforts \cup {NoEffort} : AskOption(c, p, t, o, v)
      BY <3>6 DEF AskOption
    <3>7. CASE \E s \in Session, d \in Discoveries : CreateWithOption(c, s, d)
      <4>1. calls' = [calls EXCEPT ![c] = Idle] BY <3>7 DEF CreateWithOption
      <4> QED BY <4>1
    <3> QED BY <3>1, <3>2, <3>3, <3>4, <3>5, <3>6, <3>7 DEF Request
  <2> QED BY <2>0, <2>1 DEF Inv, Shape, Registry
<1>3. \A r \in Session : Held(r)' =>
        \/ Held(r) /\ sessions'[r].profile = sessions[r].profile
                   /\ sessions'[r].option = sessions[r].option
        \/ saving = None /\ (sessions'[r].option = None => Enabled(sessions'[r].profile))
  <2>1. CASE UNCHANGED sessions BY <2>1 DEF Held
  <2>2. CASE \E s \in Session, d \in Discoveries : CreateWithOption(c, s, d)
    <3>1. PICK s \in Session, d \in Discoveries : CreateWithOption(c, s, d) BY <2>2
    <3> DEFINE call    == calls[c]
               derived == ResolvedOption(config.profiles[call.profile], call.option,
                            IF call.task = None THEN Refused ELSE call.task, d)
               effort  == IF derived = Refused THEN Refused ELSE TurnEffort(derived, call.value)
    <3>2. Register(s, call.profile, call.option, derived.efforts, effort) /\ call.op = "create"
      BY <3>1 DEF CreateWithOption
    <3>3. call.option # None
      BY <3>2, ActivationAssumption DEF Inv, Shape, Registry
    <3> HIDE DEF effort, call, derived
    <3> QED BY <1>1, <3>2, <3>3, Registered
  <2> QED BY <2>1, <2>2 DEF Request, AskProfiles, ListProfiles, ListingBreaks, TakeListing,
                            CreateRefused, AskOption
<1>4. calls' = [k \in Caller |-> calls'[k]]
  BY <1>0 DEF Request, AskProfiles, ListProfiles, ListingBreaks, TakeListing, CreateRefused,
              AskOption, CreateWithOption, Return
<1>5. Registry'
  <2>1. CASE UNCHANGED sessions BY <2>1, <1>2, <1>4 DEF Inv, Shape, Registry
  <2>2. CASE \E s \in Session, d \in Discoveries : CreateWithOption(c, s, d)
    <3>1. PICK s \in Session : \E p, option, efforts, effort :
            Register(s, p, option, efforts, effort)
      BY <2>2 DEF CreateWithOption
    <3>2. PICK p, option, efforts, effort : Register(s, p, option, efforts, effort) BY <3>1
    <3> QED BY <3>2, <1>2, <1>4, NewRegistry DEF Inv, Shape, Registry
  <2> QED BY <2>1, <2>2 DEF Request, AskProfiles, ListProfiles, ListingBreaks, TakeListing,
                            CreateRefused, AskOption
<1> QED BY <1>1, <1>3, <1>5, Unsaved

LEMMA NextInv == Inv /\ [Next]_vars => Inv'
<1> SUFFICES ASSUME Inv, [Next]_vars PROVE Inv' OBVIOUS
<1>1. CASE UNCHANGED vars
  <2>1. Shape' BY <1>1 DEF vars, files, memory, Inv, Shape, Registry, Booleans
  <2>2. RestartSafe' BY <1>1 DEF vars, files, memory, Inv, RestartSafe
  <2>3. DirectSessionsEnabled'
    BY <1>1 DEF vars, files, memory, Inv, DirectSessionsEnabled, Held, Enabled, EnabledUnder
  <2>4. SavingSound'
    BY <1>1 DEF vars, files, memory, Inv, SavingSound, Booleans, Admits, DirectEnabledUnder,
                EnabledUnder, Held, Routed, SelectionValid, Chosen, EnabledProfiles, Enabled
  <2> QED BY <2>1, <2>2, <2>3, <2>4 DEF Inv
<1>2. CASE Operate BY <1>2, OperateInv
<1>3. CASE Save BY <1>3, SaveInv
<1>4. CASE \E p \in Profiles, e, unread \in BOOLEAN : SetActivation(p, e, unread)
  BY <1>4, SetActivationInv
<1>5. CASE \E p \in Profiles : SelectProfile(p) BY <1>5, SelectProfileInv
<1>6. CASE \E s \in Session, p \in Profiles, t \in Tasks \cup {None},
              v \in Efforts \cup {NoEffort} : Create(s, p, t, v)
  BY <1>6, CreateInv
<1>7. CASE \E s \in Session : Turn(s) BY <1>7, TurnInv
<1>8. CASE \E c \in Caller : Request(c) BY <1>8, RequestInv
<1> QED BY <1>1, <1>2, <1>3, <1>4, <1>5, <1>6, <1>7, <1>8 DEF Next

LEMMA Invariance == Spec => []Inv
<1>1. Init => Inv BY InitInv
<1>2. Inv /\ [Next]_vars => Inv' BY NextInv
<1> QED BY <1>1, <1>2, PTL DEF Spec

(* A crash at any moment leaves files on which the runtime starts again    *)
(* with the same profiles enabled.                                         *)
THEOREM RestartIsSafe == Spec => []RestartSafe
<1>1. Inv => RestartSafe BY DEF Inv
<1> QED BY <1>1, Invariance, PTL

(* A session created without a model option keeps its profile enabled for  *)
(* as long as it can be continued.                                         *)
THEOREM DirectSessionsStayEnabled == Spec => []DirectSessionsEnabled
<1>1. Inv => DirectSessionsEnabled BY DEF Inv
<1> QED BY <1>1, Invariance, PTL

(* Only a disable that could not read selection.json leaves the selection  *)
(* on a disabled profile while the runtime serves.                         *)
LEMMA SelectionStep ==
  ASSUME Inv, Next, phase = "up", phase' = "up", SelectionValid, ~SelectionValid'
  PROVE  saving.unread
<1>1. CASE SaveOverlay
  <2>1. saving # None /\ saving.file = "overlay" BY <1>1 DEF SaveOverlay
  <2>2. Chosen' = Chosen /\ config' = config BY <1>1 DEF SaveOverlay, Chosen
  <2>3. SUFFICES ASSUME ~saving.unread PROVE FALSE OBVIOUS
  <2>4. EnabledUnder(config, saving.value, Chosen) BY <2>1, <2>3 DEF Inv, SavingSound
  <2>5. Chosen \in EnabledProfiles'
    BY <2>4, <2>2, <1>1 DEF SaveOverlay, SelectionValid, EnabledProfiles, Enabled, EnabledUnder
  <2> QED BY <2>5, <2>2 DEF SelectionValid
<1>2. CASE SaveSelection
  <2>1. saving # None /\ saving.file = "selection" BY <1>2 DEF SaveSelection
  <2>2. saving.value \in EnabledProfiles BY <2>1 DEF Inv, SavingSound
  <2>3. saving.value # None
    <3>1. saving.value \in DOMAIN config.profiles BY <2>2 DEF EnabledProfiles
    <3> QED BY <3>1, ActivationAssumption DEF Inv, Shape
  <2>4. Chosen' = saving.value /\ EnabledProfiles' = EnabledProfiles
    BY <2>3, <1>2 DEF SaveSelection, Chosen, EnabledProfiles, Enabled, EnabledUnder
  <2> QED BY <2>2, <2>4 DEF SelectionValid
<1>3. CASE UNCHANGED <<files, overrides>>
  BY <1>3 DEF files, SelectionValid, Chosen, EnabledProfiles, Enabled, EnabledUnder
<1>4. CASE ~SaveOverlay /\ ~SaveSelection
  <2>1. ~Operate BY DEF Operate, Start, Crash, Reconfigure, RemoveOverlay, memory
  <2> QED
    BY <1>3, <1>4, <2>1, TurnKeeps
    DEF Next, Save, SaveFails, SetActivation, SelectProfile, Create, Request, AskProfiles,
        ListProfiles, ListingBreaks, TakeListing, CreateRefused, AskOption, CreateWithOption
<1> QED BY <1>1, <1>2, <1>4

(* A selection on an enabled profile stays on one through every switch and *)
(* selection and their failures, but for the disable that could not read   *)
(* selection.json (_activation_blocker, select_profile).                   *)
THEOREM SelectionIsKept == Spec => SelectionStaysValid
<1>1. Inv /\ [Next]_vars =>
        [phase = "up" /\ phase' = "up" /\ SelectionValid /\ ~SelectionValid'
           => saving.unread]_vars
  BY SelectionStep
<1> QED BY <1>1, Invariance, PTL DEF Spec, SelectionStaysValid

-----------------------------------------------------------------------------
(* What resolve_efforts returns: the declared efforts, all of which the    *)
(* route encodes, or what was observed of the model.                       *)
LEMMA EffortsResolved ==
  ASSUME NEW profile, ResolveEfforts(profile) # Refused
  PROVE  /\ ResolveEfforts(profile) = IF profile.efforts # {} THEN profile.efforts
                                      ELSE Verified[profile.provider][profile.model]
         /\ profile.efforts \subseteq Transport[profile.provider]
  BY DEF ResolveEfforts

(* A turn's effort is among those resolved for its profile, or there is    *)
(* none.                                                                   *)
LEMMA TurnEffortResolved ==
  ASSUME NEW profile, NEW value, TurnEffort(profile, value) # Refused
  PROVE  /\ ResolveEfforts(profile) # Refused
         /\ TurnEffort(profile, value) \in ResolveEfforts(profile) \cup {NoEffort}
  BY DEF TurnEffort

(* A profile of the configuration: its route encodes the efforts its turns *)
(* may ask for, observed efforts included.                                 *)
LEMMA ProfileEffort ==
  ASSUME NEW profile, ModelProfile(profile), ProfileAccepted(profile), NEW value,
         TurnEffort(profile, value) # Refused
  PROVE  /\ TurnEffort(profile, value) \in ResolveEfforts(profile) \cup {NoEffort}
         /\ ResolveEfforts(profile) \subseteq Transport[profile.provider]
<1>1. Verified[profile.provider][profile.model] \subseteq Transport[profile.provider]
  BY ModelOptionsAssumption DEF ModelProfile, ProfileAccepted
<1>2. ResolveEfforts(profile) \subseteq Transport[profile.provider]
  BY <1>1, TurnEffortResolved, EffortsResolved
<1> QED BY <1>2, TurnEffortResolved

(* The profile derived for an option keeps its route, takes the option's   *)
(* model and is left the narrowed efforts.                                 *)
LEMMA DerivedFields ==
  ASSUME NEW profile, ModelProfile(profile), NEW policy, NEW item
  PROVE  /\ Derived(profile, policy, item).provider = profile.provider
         /\ Derived(profile, policy, item).model = policy.model
         /\ Derived(profile, policy, item).efforts = OptionEfforts(policy, item)
  BY DEF ModelProfile, Derived

(* An option that resolves is one of the policies, its model is in the     *)
(* catalog, and the transport took exactly the efforts derived for it.     *)
LEMMA OptionResolved ==
  ASSUME NEW profile, NEW option, NEW task, NEW discovery,
         ResolvedOption(profile, option, task, discovery) # Refused
  PROVE  LET policy  == OptionPolicies(profile, discovery)[option]
             derived == Derived(profile, policy, discovery.details[policy.model])
         IN /\ ResolvedOption(profile, option, task, discovery) = derived
            /\ ResolveEfforts(derived) = derived.efforts
  BY DEF ResolvedOption

(* The efforts an option leaves its turns are ones its route encodes and,  *)
(* when the catalog knows the model's efforts, ones the model accepts.     *)
LEMMA OptionEffort ==
  ASSUME NEW profile, ModelProfile(profile), NEW option, NEW task, NEW discovery, NEW value,
         ResolvedOption(profile, option, task, discovery) # Refused,
         TurnEffort(ResolvedOption(profile, option, task, discovery), value) # Refused
  PROVE  LET resolved == ResolvedOption(profile, option, task, discovery)
             item     == discovery.details[OptionPolicies(profile, discovery)[option].model]
         IN /\ TurnEffort(resolved, value) \in resolved.efforts \cup {NoEffort}
            /\ resolved.efforts \subseteq Transport[profile.provider]
            /\ item.known => resolved.efforts \subseteq item.efforts
<1> DEFINE policy  == OptionPolicies(profile, discovery)[option]
           item    == discovery.details[policy.model]
           derived == Derived(profile, policy, item)
<1>1. /\ ResolvedOption(profile, option, task, discovery) = derived
      /\ ResolveEfforts(derived) = derived.efforts
  BY OptionResolved
<1>2. derived.provider = profile.provider /\ derived.efforts = OptionEfforts(policy, item)
  BY DerivedFields
<1>3. item.known => OptionEfforts(policy, item) \subseteq item.efforts
  BY DEF OptionEfforts
<1> HIDE DEF derived, item
<1>4. /\ ResolveEfforts(derived) # Refused
      /\ TurnEffort(derived, value) \in derived.efforts \cup {NoEffort}
  BY <1>1, TurnEffortResolved
<1>5. derived.efforts \subseteq Transport[derived.provider]
  BY <1>4, EffortsResolved
<1> QED BY <1>1, <1>2, <1>3, <1>4, <1>5 DEF item

-----------------------------------------------------------------------------
(* What the registration and the resolution of an effort put in a record.  *)
LEMMA RegisterType ==
  ASSUME sessions \in [Session -> Record \cup {None}], NEW s \in Session,
         NEW p \in Profiles, NEW option \in Asked \cup {None}, NEW efforts \in SUBSET Efforts,
         NEW effort \in Efforts \cup {NoEffort}, Register(s, p, option, efforts, effort)
  PROVE  sessions' \in [Session -> Record \cup {None}]
<1>1. [profile |-> p, option |-> option, efforts |-> efforts, effort |-> effort,
       running |-> TRUE, age |-> 0] \in Record
  BY ActivationAssumption DEF Record, Ages
<1> QED BY <1>1 DEF Register

(* A profile of the accepted configuration.                                *)
LEMMA ConfiguredProfile ==
  ASSUME TypeOK, NEW p \in DOMAIN config.profiles
  PROVE  /\ ModelProfile(config.profiles[p]) /\ ProfileAccepted(config.profiles[p])
         /\ Transport[config.profiles[p].provider] \subseteq Efforts
<1>1. ModelProfile(config.profiles[p]) BY ActivationAssumption DEF TypeOK
<1>2. ProfileAccepted(config.profiles[p]) BY DEF TypeOK, Accepted
<1> QED BY <1>1, <1>2, ModelOptionsAssumption DEF ProfileAccepted

LEMMA TargetsConfigured ==
  ASSUME TypeOK, NEW task, NEW p \in Targets(task)
  PROVE  p \in DOMAIN config.profiles /\ p \in Profiles
  BY ActivationAssumption DEF TypeOK, Accepted, RoutesAccepted, Targets

LEMMA ChosenType == TypeOK => Chosen \in Profiles
  BY ActivationAssumption DEF TypeOK, Accepted, RoutesAccepted, Chosen

LEMMA OverlayStateType == TypeOK => OverlayState(overlay) \in Overrides
  BY NothingSwitched, FilesAssumption DEF TypeOK, Files, OverlayState, Booleans

LEMMA OperateType == TypeOK /\ Operate => TypeOK'
<1> SUFFICES ASSUME TypeOK, Operate PROVE TypeOK' OBVIOUS
<1>0. NoOverrides \in Overrides BY NothingSwitched DEF Booleans
<1>1. CASE Start BY <1>1, OverlayStateType DEF Start, files, TypeOK
<1>2. CASE Crash BY <1>0, <1>2 DEF Crash, files, TypeOK
<1>3. CASE Reconfigure BY <1>3 DEF Reconfigure, memory, TypeOK
<1>4. CASE RemoveOverlay BY <1>4 DEF RemoveOverlay, memory, TypeOK
<1> QED BY <1>1, <1>2, <1>3, <1>4 DEF Operate

LEMMA SaveType == TypeOK /\ Save => TypeOK'
<1> SUFFICES ASSUME TypeOK, Save PROVE TypeOK' OBVIOUS
<1>0. saving \in Write /\ phase = "up"
  BY DEF Save, SaveOverlay, SaveSelection, SaveFails, TypeOK
<1>1. CASE SaveOverlay
  <2>1. saving.value \in Overrides BY <1>0, <1>1 DEF SaveOverlay, Write
  <2>2. overlay' \in Files BY <2>1, <1>1 DEF SaveOverlay, Files, TypeOK
  <2> QED BY <1>0, <1>1, <2>1, <2>2 DEF SaveOverlay, TypeOK
<1>2. CASE SaveSelection
  <2>1. saving.value \in Profiles BY <1>0, <1>2 DEF SaveSelection, Write
  <2> QED BY <1>0, <1>2, <2>1 DEF SaveSelection, TypeOK
<1>3. CASE SaveFails BY <1>0, <1>3 DEF SaveFails, files, TypeOK
<1> QED BY <1>1, <1>2, <1>3 DEF Save

LEMMA WriteType ==
  ASSUME TypeOK, NEW p \in Profiles, NEW e \in BOOLEAN, NEW unread \in BOOLEAN,
         SetActivation(p, e, unread) \/ SelectProfile(p)
  PROVE  TypeOK'
<1>1. phase = "up" /\ UNCHANGED <<files, phase, overrides, sessions, calls>>
  BY DEF SetActivation, SelectProfile, Serving
<1>2. saving' \in Write
  <2>1. CASE SetActivation(p, e, unread)
    <3>1. Switched(p, e) \in Overrides BY SwitchedElsewhere DEF TypeOK, Booleans
    <3> QED BY <2>1, <3>1 DEF SetActivation, Write
  <2>2. CASE SelectProfile(p) BY <2>2 DEF SelectProfile, Write
  <2> QED BY <2>1, <2>2
<1> QED BY <1>1, <1>2 DEF files, TypeOK

(* What a session may ask for: its route encodes it.                       *)
EffortSound(s) ==
  sessions[s] # None =>
    /\ sessions[s].efforts \subseteq Transport[config.profiles[sessions[s].profile].provider]
    /\ sessions[s].effort \in {NoEffort} \cup sessions[s].efforts

LEMMA CreateType ==
  ASSUME TypeOK, NEW s \in Session, NEW p \in Profiles, NEW t, NEW v, Create(s, p, t, v)
  PROVE  TypeOK' /\ EffortSound(s)'
<1> DEFINE effort  == TurnEffort(config.profiles[p], v)
           efforts == ResolveEfforts(config.profiles[p])
<1>1. /\ phase = "up" /\ p \in Targets(t) /\ effort # Refused
      /\ Register(s, p, None, efforts, effort)
      /\ UNCHANGED <<files, phase, overrides, saving, calls>>
  BY DEF Create, Serving
<1>2. /\ effort \in efforts \cup {NoEffort}
      /\ efforts \subseteq Transport[config.profiles[p].provider]
      /\ Transport[config.profiles[p].provider] \subseteq Efforts
  BY <1>1, TargetsConfigured, ConfiguredProfile, ProfileEffort
<1> HIDE DEF effort, efforts
<1>3. sessions' \in [Session -> Record \cup {None}]
  <2>1. efforts \in SUBSET Efforts /\ effort \in Efforts \cup {NoEffort} BY <1>2
  <2> QED BY <1>1, <2>1, RegisterType DEF TypeOK
<1>4. sessions'[s] = [profile |-> p, option |-> None, efforts |-> efforts, effort |-> effort,
                      running |-> TRUE, age |-> 0]
  BY <1>1 DEF Register
<1>5. EffortSound(s)'
  BY <1>1, <1>2, <1>4 DEF EffortSound, files
<1> QED BY <1>1, <1>3, <1>5 DEF files, TypeOK

(* The call that was suspended on an option is dispatched with efforts its *)
(* route encodes and its model accepts.                                    *)
LEMMA CreateWithOptionType ==
  ASSUME TypeOK, NEW c \in Caller, NEW s \in Session, NEW d, CreateWithOption(c, s, d),
         calls[c].profile \in DOMAIN config.profiles
  PROVE  /\ TypeOK' /\ EffortSound(s)'
         /\ LET profile == config.profiles[calls[c].profile]
                item    == d.details[OptionPolicies(profile, d)[calls[c].option].model]
            IN item.known => sessions'[s].efforts \subseteq item.efforts
<1> DEFINE profile == config.profiles[calls[c].profile]
           task    == IF calls[c].task = None THEN Refused ELSE calls[c].task
           derived == ResolvedOption(profile, calls[c].option, task, d)
           effort  == TurnEffort(derived, calls[c].value)
           item    == d.details[OptionPolicies(profile, d)[calls[c].option].model]
<1>1. /\ phase = "up" /\ calls[c].op = "create" /\ derived # Refused /\ effort # Refused
      /\ Register(s, calls[c].profile, calls[c].option, derived.efforts, effort)
      /\ calls' = [calls EXCEPT ![c] = Idle]
      /\ UNCHANGED <<files, phase, overrides, saving>>
  BY DEF CreateWithOption, Serving, Return
<1>2. ModelProfile(profile) /\ Transport[profile.provider] \subseteq Efforts
  BY ConfiguredProfile
<1>3. /\ effort \in derived.efforts \cup {NoEffort}
      /\ derived.efforts \subseteq Transport[profile.provider]
      /\ item.known => derived.efforts \subseteq item.efforts
  <2> HIDE DEF profile, task
  <2> QED BY <1>1, <1>2, OptionEffort
<1>4. calls[c] \in Deciding
  BY <1>1 DEF TypeOK, Listing, Listed, Idle
<1> HIDE DEF effort, item, derived
<1>5. sessions'[s] = [profile |-> calls[c].profile, option |-> calls[c].option,
                      efforts |-> derived.efforts, effort |-> effort,
                      running |-> TRUE, age |-> 0]
  BY <1>1 DEF Register
<1>6. calls[c].profile \in Profiles /\ calls[c].option \in Asked
  BY <1>4 DEF Deciding
<1>7. sessions' \in [Session -> Record \cup {None}]
  BY <1>1, <1>2, <1>3, <1>6, RegisterType DEF TypeOK
<1>8. TypeOK'
  BY <1>1, <1>7 DEF files, TypeOK
<1>9. EffortSound(s)'
  BY <1>1, <1>3, <1>5 DEF EffortSound, files
<1>10. item.known => sessions'[s].efforts \subseteq item.efforts
  BY <1>3, <1>5
<1> QED BY <1>8, <1>9, <1>10 DEF item

(* A call suspended on an option remembers a profile of the configuration, *)
(* which changes only while the runtime is down and nothing is suspended.  *)
CallsConfigured ==
  /\ phase = "down" => \A c \in Caller : calls[c] = Idle
  /\ \A c \in Caller : calls[c].op = "create" => calls[c].profile \in DOMAIN config.profiles

Typed == TypeOK /\ CallsConfigured

LEMMA InitTyped == Init => Typed
<1> SUFFICES ASSUME Init PROVE Typed OBVIOUS
<1>1. NoOverrides \in Overrides BY NothingSwitched DEF Booleans
<1>2. TypeOK BY <1>1 DEF Init, TypeOK
<1> QED BY <1>2 DEF Init, Typed, CallsConfigured, Idle

LEMMA TurnType == ASSUME TypeOK, NEW s \in Session, Turn(s) PROVE TypeOK'
<1>1. phase = "up" /\ UNCHANGED <<files, phase, overrides, saving, calls>>
  BY TurnKeeps
<1>2. sessions[s] \in Record /\ sessions = [r \in Session |-> sessions[r]]
  BY TurnKeeps DEF TypeOK
<1> DEFINE With(effort, running, age) ==
             [profile |-> sessions[s].profile, option |-> sessions[s].option,
              efforts |-> sessions[s].efforts, effort |-> effort,
              running |-> running, age |-> age]
<1>3. /\ sessions[s] = With(sessions[s].effort, sessions[s].running, sessions[s].age)
      /\ sessions[s].running \in BOOLEAN /\ sessions[s].age \in Ages
      /\ sessions[s].effort \in Efforts \cup {NoEffort}
      /\ \A effort \in Efforts \cup {NoEffort}, running \in BOOLEAN, age \in Ages :
           With(effort, running, age) \in Record
  BY <1>2 DEF Record
<1>4. /\ DOMAIN sessions' = Session /\ sessions' = [r \in Session |-> sessions'[r]]
      /\ \A r \in Session \ {s} : sessions'[r] = sessions[r]
  BY <1>2, TurnKeeps
<1>5. sessions'[s] \in Record \cup {None}
  <2>0. 0 \in Ages BY ActivationAssumption DEF Ages
  <2>1. CASE TurnEnds(s)
    <3>1. sessions'[s] = With(sessions[s].effort, FALSE, 0) BY <1>2, <1>3, <2>1 DEF TurnEnds
    <3> QED BY <1>3, <2>0, <3>1
  <2>2. CASE \E v \in Efforts \cup {NoEffort} : Continue(s, v)
    <3>1. PICK v \in Efforts \cup {NoEffort} : Continue(s, v) BY <2>2
    <3>2. sessions'[s] = With(IF v = NoEffort THEN sessions[s].effort ELSE v, TRUE, 0)
      BY <1>2, <1>3, <3>1 DEF Continue
    <3> QED BY <1>3, <2>0, <3>2
  <2>3. CASE Forget(s) BY <1>2, <2>3 DEF Forget
  <2>4. CASE Grow(s)
    <3>1. sessions'[s] = With(sessions[s].effort, sessions[s].running, sessions[s].age + 1)
      BY <1>2, <1>3, <2>4 DEF Grow
    <3>2. sessions[s].age + 1 \in Ages
      BY <1>3, <2>4, ActivationAssumption DEF Grow, Ages
    <3> QED BY <1>3, <3>1, <3>2
  <2> QED BY <2>1, <2>2, <2>3, <2>4 DEF Turn
<1>6. sessions' \in [Session -> Record \cup {None}]
  BY <1>4, <1>5 DEF TypeOK
<1> QED BY <1>1, <1>6 DEF files, TypeOK

(* A request that suspends remembers what it has read; one that returns    *)
(* remembers nothing.                                                      *)
LEMMA RequestTyped ==
  ASSUME Typed, NEW c \in Caller, Request(c)
  PROVE  Typed'
<1>1. phase = "up" /\ UNCHANGED <<files, phase, overrides, saving>>
  BY DEF Request, AskProfiles, ListProfiles, ListingBreaks, TakeListing, CreateRefused,
         AskOption, CreateWithOption, Serving
<1>2. calls \in [Caller -> Deciding \cup Listing \cup Listed \cup {Idle}]
  BY DEF Typed, TypeOK
<1> DEFINE Remembers(r) == /\ r \in Deciding \cup Listing \cup Listed \cup {Idle}
                           /\ r.op = "create" => r.profile \in DOMAIN config.profiles
<1>3. \E r : Remembers(r) /\ calls' = [calls EXCEPT ![c] = r]
  <2>1. CASE ListingBreaks(c) \/ TakeListing(c) \/ CreateRefused(c)
             \/ \E s \in Session, d \in Discoveries : CreateWithOption(c, s, d)
    <3>1. Remembers(Idle) BY DEF Idle
    <3>2. calls' = [calls EXCEPT ![c] = Idle]
      BY <2>1 DEF ListingBreaks, TakeListing, CreateRefused, CreateWithOption, Return
    <3> QED BY <3>1, <3>2
  <2>2. CASE AskProfiles(c)
    <3> DEFINE r == [op |-> "profiles", selected |-> Chosen, adapters |-> EnabledProfiles]
    <3>1. EnabledProfiles \subseteq Profiles
      BY ActivationAssumption DEF Typed, TypeOK, EnabledProfiles
    <3>2. r \in Listing BY <3>1, ChosenType DEF Typed, Listing
    <3>3. calls' = [calls EXCEPT ![c] = r] BY <2>2 DEF AskProfiles
    <3> QED BY <3>2, <3>3
  <2>3. CASE ListProfiles(c)
    <3> DEFINE r == [op |-> "listed", selected |-> calls[c].selected, profiles |-> EnabledProfiles]
    <3>1. calls[c] \in Listing
      BY <1>2, <2>3 DEF ListProfiles, Deciding, Listed, Idle
    <3>2. EnabledProfiles \subseteq Profiles
      BY ActivationAssumption DEF Typed, TypeOK, EnabledProfiles
    <3>3. r \in Listed BY <3>1, <3>2 DEF Listing, Listed
    <3>4. calls' = [calls EXCEPT ![c] = r] BY <2>3 DEF ListProfiles
    <3> QED BY <3>3, <3>4
  <2>4. CASE \E p \in Profiles, t \in Tasks \cup {None}, o \in Asked,
                v \in Efforts \cup {NoEffort} : AskOption(c, p, t, o, v)
    <3>1. PICK p \in Profiles, t \in Tasks \cup {None}, o \in Asked,
               v \in Efforts \cup {NoEffort} : AskOption(c, p, t, o, v)
      BY <2>4
    <3> DEFINE r == [op |-> "create", profile |-> p, task |-> t, option |-> o, value |-> v]
    <3>2. r \in Deciding BY DEF Deciding
    <3>3. r.profile \in DOMAIN config.profiles
      BY <3>1, TargetsConfigured DEF AskOption, Typed
    <3>4. calls' = [calls EXCEPT ![c] = r] BY <3>1 DEF AskOption
    <3> QED BY <3>2, <3>3, <3>4
  <2> QED BY <2>1, <2>2, <2>3, <2>4 DEF Request
<1>4. PICK r : Remembers(r) /\ calls' = [calls EXCEPT ![c] = r] BY <1>3
<1>5. CallsConfigured'
  BY <1>1, <1>2, <1>4 DEF Typed, CallsConfigured, files
<1>6. TypeOK'
  <2>1. CASE \E s \in Session, d \in Discoveries : CreateWithOption(c, s, d)
    <3>1. calls[c].profile \in DOMAIN config.profiles
      BY <2>1 DEF CreateWithOption, Typed, CallsConfigured
    <3> QED BY <2>1, <3>1, CreateWithOptionType DEF Typed
  <2>2. CASE UNCHANGED sessions
    <3>1. calls' \in [Caller -> Deciding \cup Listing \cup Listed \cup {Idle}]
      BY <1>2, <1>4
    <3> QED BY <1>1, <2>2, <3>1 DEF files, Typed, TypeOK
  <2> QED BY <2>1, <2>2 DEF Request, AskProfiles, ListProfiles, ListingBreaks, TakeListing,
                            CreateRefused, AskOption
<1> QED BY <1>5, <1>6 DEF Typed

LEMMA NextTyped == Typed /\ [Next]_vars => Typed'
<1> SUFFICES ASSUME Typed, [Next]_vars PROVE Typed' OBVIOUS
<1>1. CASE UNCHANGED vars
  BY <1>1 DEF vars, files, memory, Typed, TypeOK, CallsConfigured
<1>2. CASE Operate
  <2>1. CallsConfigured'
    BY <1>2 DEF Operate, Start, Crash, Reconfigure, RemoveOverlay, files, memory, Typed,
                CallsConfigured, Idle
  <2> QED BY <1>2, <2>1, OperateType DEF Typed
<1>3. CASE Save
  <2>1. CallsConfigured'
    BY <1>3 DEF Save, SaveOverlay, SaveSelection, SaveFails, files, Typed, CallsConfigured
  <2> QED BY <1>3, <2>1, SaveType DEF Typed
<1>4. CASE \E p \in Profiles, e, unread \in BOOLEAN :
              SetActivation(p, e, unread) \/ SelectProfile(p)
  <2>1. CallsConfigured'
    BY <1>4 DEF SetActivation, SelectProfile, files, Typed, CallsConfigured
  <2> QED BY <1>4, <2>1, WriteType DEF Typed
<1>5. CASE \E s \in Session, p \in Profiles, t \in Tasks \cup {None},
              v \in Efforts \cup {NoEffort} : Create(s, p, t, v)
  <2>1. CallsConfigured' BY <1>5 DEF Create, files, Typed, CallsConfigured
  <2> QED BY <1>5, <2>1, CreateType DEF Typed
<1>6. CASE \E s \in Session : Turn(s)
  <2>1. CallsConfigured'
    BY <1>6, TurnKeeps DEF files, Typed, CallsConfigured
  <2> QED BY <1>6, <2>1, TurnType DEF Typed
<1>7. CASE \E c \in Caller : Request(c) BY <1>7, RequestTyped
<1> QED BY <1>1, <1>2, <1>3, <1>4, <1>5, <1>6, <1>7 DEF Next

(* Files, memory, records and suspended calls keep their types, and a dead *)
(* process has no memory.                                                  *)
THEOREM ActivationTypeCorrect == Spec => []TypeOK
<1>1. Typed => TypeOK BY DEF Typed
<1> QED BY <1>1, InitTyped, NextTyped, PTL DEF Spec

(* A record appears only through create_session.                           *)
LEMMA RecordsAppear ==
  ASSUME Typed, Next, NEW s \in Session, sessions[s] = None, sessions'[s] # None
  PROVE  \/ \E p \in Profiles : \E t, v : Create(s, p, t, v)
         \/ \E c \in Caller : \E d : CreateWithOption(c, s, d)
<1>1. ASSUME NEW r \in Session, NEW p, NEW option, NEW efforts, NEW effort,
             Register(r, p, option, efforts, effort)
      PROVE  r = s
  BY <1>1 DEF Register
<1>2. ~UNCHANGED sessions OBVIOUS
<1>3. CASE Operate
  BY <1>2, <1>3 DEF Operate, Start, Crash, Reconfigure, RemoveOverlay, memory
<1>4. CASE Save BY <1>2, <1>4 DEF Save, SaveOverlay, SaveSelection, SaveFails
<1>5. CASE \E r \in Session : Turn(r)
  <2>1. PICK r \in Session : Turn(r) BY <1>5
  <2>2. sessions[r] # None /\ (r # s => sessions'[s] = sessions[s])
    BY <2>1, TurnKeeps DEF Typed, TypeOK
  <2> QED BY <2>2
<1>6. CASE \E p \in Profiles, e, unread \in BOOLEAN :
              SetActivation(p, e, unread) \/ SelectProfile(p)
  BY <1>2, <1>6 DEF SetActivation, SelectProfile
<1>7. CASE \E r \in Session, p \in Profiles, t \in Tasks \cup {None},
              v \in Efforts \cup {NoEffort} : Create(r, p, t, v)
  BY <1>1, <1>7 DEF Create
<1>8. CASE \E c \in Caller : Request(c)
  <2>1. PICK c \in Caller : Request(c) BY <1>8
  <2>2. PICK r \in Session, d \in Discoveries : CreateWithOption(c, r, d)
    BY <1>2, <2>1 DEF Request, AskProfiles, ListProfiles, ListingBreaks, TakeListing,
                      CreateRefused, AskOption
  <2>3. r = s BY <1>1, <2>2 DEF CreateWithOption
  <2> QED BY <2>2, <2>3
<1> QED BY <1>3, <1>4, <1>5, <1>6, <1>7, <1>8 DEF Next

(* The policy does not change under a session.                             *)
LEMMA RecordsKeepPolicy ==
  ASSUME Inv, Next, NEW s \in Session, sessions'[s] # None
  PROVE  config' = config
<1>1. CASE Operate
  <2>1. phase = "down" => sessions[s] = None BY DEF Inv, Shape
  <2> QED BY <1>1, <2>1 DEF Operate, Start, Crash, Reconfigure, RemoveOverlay, memory, files
<1>2. CASE Save BY <1>2 DEF Save, SaveOverlay, SaveSelection, SaveFails, files
<1>3. CASE \E r \in Session : Turn(r)
  BY <1>3, TurnKeeps DEF files
<1>4. CASE \E p \in Profiles, e, unread \in BOOLEAN :
              SetActivation(p, e, unread) \/ SelectProfile(p)
  BY <1>4 DEF SetActivation, SelectProfile, files
<1>5. CASE \E r \in Session, p \in Profiles, t \in Tasks \cup {None},
              v \in Efforts \cup {NoEffort} : Create(r, p, t, v)
  BY <1>5 DEF Create, files
<1>6. CASE \E c \in Caller : Request(c)
  BY <1>6 DEF Request, AskProfiles, ListProfiles, ListingBreaks, TakeListing, CreateRefused,
              AskOption, CreateWithOption, files
<1> QED BY <1>1, <1>2, <1>3, <1>4, <1>5, <1>6 DEF Next

(* A record that stays keeps its profile and its efforts, and its turn     *)
(* asks for the effort it had or for another of them.                      *)
LEMMA RecordsKept ==
  ASSUME Typed, Next, NEW s \in Session, sessions[s] # None, sessions'[s] # None
  PROVE  /\ sessions'[s].profile = sessions[s].profile
         /\ sessions'[s].efforts = sessions[s].efforts
         /\ \/ sessions'[s].effort = sessions[s].effort
            \/ sessions'[s].effort \in sessions[s].efforts
<1> DEFINE Kept == /\ sessions'[s].profile = sessions[s].profile
                   /\ sessions'[s].efforts = sessions[s].efforts
                   /\ \/ sessions'[s].effort = sessions[s].effort
                      \/ sessions'[s].effort \in sessions[s].efforts
<1>0. /\ sessions[s] \in Record /\ sessions = [r \in Session |-> sessions[r]]
      /\ DOMAIN sessions[s] = {"profile", "option", "efforts", "effort", "running", "age"}
  BY DEF Typed, TypeOK, Record
<1>1. ASSUME NEW r \in Session, NEW p, NEW option, NEW efforts, NEW effort,
             sessions[r] = None, Register(r, p, option, efforts, effort)
      PROVE  sessions'[s] = sessions[s]
  BY <1>1 DEF Register
<1>2. CASE UNCHANGED sessions BY <1>2
<1>3. CASE Operate
  BY <1>2, <1>3 DEF Operate, Start, Crash, Reconfigure, RemoveOverlay, memory
<1>4. CASE \E r \in Session : Turn(r)
  <2>1. PICK r \in Session : Turn(r) BY <1>4
  <2>2. CASE r # s
    BY <1>0, <1>2, <2>1, <2>2, TurnKeeps
  <2>3. CASE r = s /\ \E v \in Efforts \cup {NoEffort} : Continue(s, v)
    <3>1. PICK v \in Efforts \cup {NoEffort} : Continue(s, v) BY <2>3
    <3>2. v = NoEffort \/ v \in sessions[s].efforts BY <3>1 DEF Continue
    <3>3. sessions' = [sessions EXCEPT ![s].running = TRUE, ![s].age = 0,
                         ![s].effort = IF v = NoEffort THEN sessions[s].effort ELSE v]
      BY <3>1 DEF Continue
    <3> QED BY <1>0, <3>2, <3>3
  <2>4. CASE r = s /\ (TurnEnds(s) \/ Forget(s) \/ Grow(s))
    BY <1>0, <2>4 DEF TurnEnds, Forget, Grow
  <2> QED BY <2>1, <2>2, <2>3, <2>4 DEF Turn
<1>5. CASE \E r \in Session, p \in Profiles, t \in Tasks \cup {None},
              v \in Efforts \cup {NoEffort} : Create(r, p, t, v)
  BY <1>1, <1>2, <1>5 DEF Create
<1>6. CASE \E c \in Caller : Request(c)
  BY <1>1, <1>2, <1>6 DEF Request, AskProfiles, ListProfiles, ListingBreaks, TakeListing,
                          CreateRefused, AskOption, CreateWithOption
<1>7. CASE Save BY <1>2, <1>7 DEF Save, SaveOverlay, SaveSelection, SaveFails
<1>8. CASE \E p \in Profiles, e, unread \in BOOLEAN :
              SetActivation(p, e, unread) \/ SelectProfile(p)
  BY <1>2, <1>8 DEF SetActivation, SelectProfile
<1> QED BY <1>3, <1>4, <1>5, <1>6, <1>7, <1>8 DEF Next

(* A session keeps its efforts, and each of its turns asks for one of them. *)
LEMMA EffortStep ==
  ASSUME Typed, Inv, \A s \in Session : EffortSound(s), Next, NEW s \in Session
  PROVE  /\ EffortSound(s)'
         /\ sessions[s] # None /\ sessions'[s] # None =>
              sessions'[s].efforts = sessions[s].efforts
<1>1. CASE sessions'[s] = None BY <1>1 DEF EffortSound
<1>2. CASE sessions[s] = None /\ sessions'[s] # None
  <2>1. CASE \E p \in Profiles : \E t, v : Create(s, p, t, v)
    BY <1>2, <2>1, CreateType DEF Typed
  <2>2. CASE \E c \in Caller : \E d : CreateWithOption(c, s, d)
    <3>1. PICK c \in Caller : \E d : CreateWithOption(c, s, d) BY <2>2
    <3>2. PICK d : CreateWithOption(c, s, d) BY <3>1
    <3>3. calls[c].profile \in DOMAIN config.profiles
      BY <3>2 DEF CreateWithOption, Typed, CallsConfigured
    <3> QED BY <1>2, <3>2, <3>3, CreateWithOptionType DEF Typed
  <2> QED BY <1>2, <2>1, <2>2, RecordsAppear
<1>3. CASE sessions[s] # None /\ sessions'[s] # None
  <2>1. config' = config BY <1>3, RecordsKeepPolicy
  <2>2. /\ sessions'[s].profile = sessions[s].profile
        /\ sessions'[s].efforts = sessions[s].efforts
        /\ \/ sessions'[s].effort = sessions[s].effort
           \/ sessions'[s].effort \in sessions[s].efforts
    BY <1>3, RecordsKept
  <2> QED BY <1>3, <2>1, <2>2 DEF EffortSound
<1> QED BY <1>1, <1>2, <1>3

(* Whatever the operator's profiles and the provider's catalog say, no     *)
(* turn, a follow-up's included, asks for an effort its route cannot       *)
(* encode or the catalog of its creation says the model refuses.           *)
THEOREM EffortIsDeliverable == Spec => EffortDeliverable
<1> DEFINE Sound == \A s \in Session : EffortSound(s)
           Encoded(s) ==
             sessions'[s] # None =>
               sessions'[s].effort \in
                 {NoEffort} \cup
                 (sessions'[s].efforts \cap
                  Transport[config.profiles[sessions'[s].profile].provider])
           Kept(s) == sessions[s] # None /\ sessions'[s] # None =>
                        sessions'[s].efforts = sessions[s].efforts
           Accepts(c, s, d) ==
             CreateWithOption(c, s, d) =>
               LET profile == config.profiles[calls[c].profile]
                   model   == OptionPolicies(profile, d)[calls[c].option].model
               IN d.details[model].known =>
                    sessions'[s].efforts \subseteq d.details[model].efforts
<1>1. Init => Sound BY DEF Init, EffortSound
<1>2. Typed /\ Inv /\ Sound /\ [Next]_vars => Sound'
  <2>1. CASE UNCHANGED vars BY <2>1 DEF vars, files, memory, EffortSound
  <2> QED BY <2>1, EffortStep
<1>3. ASSUME Typed, NEW c \in Caller, NEW s \in Session, NEW d \in Discoveries
      PROVE  Accepts(c, s, d)
  <2>1. CreateWithOption(c, s, d) => calls[c].profile \in DOMAIN config.profiles
    BY <1>3 DEF CreateWithOption, Typed, CallsConfigured
  <2> QED BY <1>3, <2>1, CreateWithOptionType DEF Typed
<1>4. ASSUME Typed, Inv, Sound, Next, NEW s \in Session PROVE Encoded(s) /\ Kept(s)
  <2>1. EffortSound(s)' /\ Kept(s) BY <1>4, EffortStep
  <2>2. sessions'[s] # None => config' = config BY <1>4, RecordsKeepPolicy
  <2> QED BY <2>1, <2>2 DEF EffortSound
<1>5. Typed /\ Inv /\ Sound /\ [Next]_vars =>
        [/\ \A s \in Session : Encoded(s)
         /\ \A s \in Session : Kept(s)
         /\ \A c \in Caller, s \in Session, d \in Discoveries : Accepts(c, s, d)]_vars
  BY <1>3, <1>4
<1> HIDE DEF Sound
<1> QED BY <1>1, <1>2, <1>5, InitTyped, NextTyped, Invariance, PTL DEF Spec, EffortDeliverable
=============================================================================
