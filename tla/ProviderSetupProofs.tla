-------------------------- MODULE ProviderSetupProofs --------------------------
(***************************************************************************)
(* Theorems about the two ends of a provider setup: the wizard that asks   *)
(* for it, for any providers and values, and the locks under which the     *)
(* daemon carries it out, for any aliases and handlers. What is between    *)
(* the two, the save itself, is the subject of ProviderOperationsProofs.   *)
(***************************************************************************)
EXTENDS OnboardingInvariant, ProviderLocks, TLAPS

-----------------------------------------------------------------------------
(***************************************************************************)
(* The catalog.                                                            *)
(***************************************************************************)
(* The way through the wizard of a kind of provider.                       *)
LEMMA Catalog ==
  ASSUME NEW p \in Providers
  PROVE  /\ External(p) => /\ p \notin HasSettings \cup PromptBaseURL
                           /\ p \notin CredentialRequired \cup ModelManual
                           /\ ~Device(p) /\ Auth[p] \notin {"anthropic", "api_key"}
                           /\ p # "ollama"
         /\ p \in CredentialRequired => Device(p) \/ Auth[p] \in {"anthropic", "api_key"}
         /\ p \in ModelManual => p \notin PromptBaseURL /\ p \in HasSettings
         /\ p = "ollama" => /\ p \notin CredentialRequired
                           /\ p \in HasSettings \cap PromptBaseURL
                           /\ Auth[p] = "none"
<1>1. p \in {"anthropic", "openai", "custom", "openai_azure", "copilot",
             "openai_chatgpt", "ollama", "llama_cpp", "claude_code"}
  BY OnboardingAssumption DEF Auth
<1> QED
  BY <1>1 DEF Auth, External, Device, HasSettings, PromptBaseURL,
              CredentialRequired, ModelManual

-----------------------------------------------------------------------------
(***************************************************************************)
(* What the operators on a wizard return.                                  *)
(***************************************************************************)
(* Nothing of a save is touched, and the flow is the same one.             *)
SameSave(r, w) ==
  /\ r.id = w.id /\ r.spent = w.spent
  /\ r.adding = w.adding /\ r.testing = w.testing /\ r.operation = w.operation
  /\ r.unresolved = w.unresolved /\ r.added = w.added /\ r.saved = w.saved
  /\ r.tested = w.tested

SameGathered(r, w) ==
  /\ r.provider = w.provider /\ r.token = w.token /\ r.settings = w.settings
  /\ r.url = w.url /\ r.model = w.model /\ r.cli = w.cli

(* A wizard that is at another step.                                       *)
LEMMA ToStep ==
  ASSUME NEW w \in Wizard, NEW s \in Steps
  PROVE  LET r == [w EXCEPT !.step = s] IN
         /\ r \in Wizard /\ SameSave(r, w) /\ SameGathered(r, w)
         /\ r.flow = w.flow /\ r.step = s /\ r.models = w.models
         /\ r.next = w.next
<1> DEFINE r == [w EXCEPT !.step = s]
<1>1. r \in Wizard BY Zenon DEF Wizard
<1>2. SameSave(r, w) BY Zenon DEF Wizard, SameSave
<1>3. SameGathered(r, w) BY Zenon DEF Wizard, SameGathered
<1>4. r.flow = w.flow /\ r.step = s /\ r.models = w.models /\ r.next = w.next
  BY Zenon DEF Wizard
<1> QED BY <1>1, <1>2, <1>3, <1>4, Zenon

(* Asking for models forgets those that were listed before.                *)
LEMMA ToFetch ==
  ASSUME NEW w \in Wizard
  PROVE  LET r == FetchModels(w) IN
         /\ r \in Wizard /\ SameSave(r, w) /\ SameGathered(r, w)
         /\ r.flow = w.flow /\ r.step = "fetchModels" /\ r.models = None
<1> DEFINE r == FetchModels(w)
<1>0. "fetchModels" \in Steps BY DEF Steps
<1>1. r \in Wizard BY <1>0, Zenon DEF Wizard, FetchModels
<1>2. SameSave(r, w) BY Zenon DEF Wizard, SameSave, FetchModels
<1>3. SameGathered(r, w) BY Zenon DEF Wizard, SameGathered, FetchModels
<1>4. r.flow = w.flow /\ r.step = "fetchModels" /\ r.models = None
  BY Zenon DEF Wizard, FetchModels
<1> QED BY <1>1, <1>2, <1>3, <1>4, Zenon

(* A model is typed where the provider lists none.                         *)
LEMMA ToTyping ==
  ASSUME NEW w \in Wizard
  PROVE  LET r == TypeModel(w) IN
         /\ r \in Wizard /\ SameSave(r, w) /\ SameGathered(r, w)
         /\ r.flow = w.flow /\ r.step = "selectModel" /\ r.models = w.models
<1> DEFINE r == TypeModel(w)
<1>0. "selectModel" \in Steps BY DEF Steps
<1>1. r \in Wizard BY <1>0, Zenon DEF Wizard, TypeModel
<1>2. SameSave(r, w) BY Zenon DEF Wizard, SameSave, TypeModel
<1>3. SameGathered(r, w) BY Zenon DEF Wizard, SameGathered, TypeModel
<1>4. r.flow = w.flow /\ r.step = "selectModel" /\ r.models = w.models
  BY Zenon DEF Wizard, TypeModel
<1> QED BY <1>1, <1>2, <1>3, <1>4, Zenon

(* The settings are entered before the step that follows them.             *)
LEMMA ToSettings ==
  ASSUME NEW w \in Wizard, NEW n \in {"fetchModels", "enterBaseURL", "ollamaSetup"}
  PROVE  LET r == Settings(w, n) IN
         /\ r \in Wizard /\ SameSave(r, w) /\ SameGathered(r, w)
         /\ r.flow = w.flow /\ r.step = "enterSettings" /\ r.models = w.models
         /\ r.next = n
<1> DEFINE r == Settings(w, n)
<1>0. "enterSettings" \in Steps BY DEF Steps
<1>1. r \in Wizard BY <1>0, Zenon DEF Wizard, Settings
<1>2. SameSave(r, w) BY Zenon DEF Wizard, SameSave, Settings
<1>3. SameGathered(r, w) BY Zenon DEF Wizard, SameGathered, Settings
<1>4. r.flow = w.flow /\ r.step = "enterSettings" /\ r.models = w.models /\ r.next = n
  BY Zenon DEF Wizard, Settings
<1> QED BY <1>1, <1>2, <1>3, <1>4, Zenon

(* What follows the settings and the address.                              *)
LEMMA AfterSettings ==
  ASSUME NEW w \in Wizard, w.provider \in Providers
  PROVE  LET r == ModelStrategy(w) IN
         /\ r \in Wizard /\ SameSave(r, w) /\ SameGathered(r, w) /\ r.flow = w.flow
         /\ \/ External(w.provider) /\ r.step = "review" /\ r.models = w.models
            \/ /\ ~External(w.provider) /\ w.provider \in ModelManual
               /\ r.step = "selectModel" /\ r.models = w.models
            \/ /\ ~External(w.provider) /\ w.provider \notin ModelManual
               /\ r.step = "fetchModels" /\ r.models = None
<1>0. "review" \in Steps BY DEF Steps
<1>1. CASE External(w.provider)
  <2>1. ModelStrategy(w) = [w EXCEPT !.step = "review"]
    BY <1>1, Catalog, SMT DEF ModelStrategy
  <2> QED BY <1>0, <1>1, <2>1, ToStep, SMT
<1>2. CASE ~External(w.provider) /\ w.provider \in ModelManual
  <2>1. ModelStrategy(w) = TypeModel(w)
    BY <1>2, SMT DEF ModelStrategy
  <2> QED BY <1>2, <2>1, ToTyping, Zenon
<1>3. CASE ~External(w.provider) /\ w.provider \notin ModelManual
  <2>1. ModelStrategy(w) = FetchModels(w)
    BY <1>3, SMT DEF ModelStrategy
  <2> QED BY <1>3, <2>1, ToFetch, Zenon
<1> QED BY <1>1, <1>2, <1>3

(* What follows the credential.                                            *)
LEMMA AfterCredentials ==
  ASSUME NEW w \in Wizard, w.provider \in Providers
  PROVE  LET r == AfterCredential(w) IN
         /\ r \in Wizard /\ SameSave(r, w) /\ SameGathered(r, w) /\ r.flow = w.flow
         /\ \/ /\ w.provider \in HasSettings /\ r.step = "enterSettings"
               /\ r.models = w.models /\ r.next # "ollamaSetup"
            \/ /\ w.provider \in PromptBaseURL \ HasSettings
               /\ r.step = "enterBaseURL" /\ r.models = w.models
            \/ /\ w.provider \notin PromptBaseURL \cup HasSettings
               /\ r = ModelStrategy(w)
<1>0. "enterBaseURL" \in Steps BY DEF Steps
<1>1. CASE w.provider \in HasSettings
  <2> DEFINE n == IF w.provider \in PromptBaseURL THEN "enterBaseURL" ELSE "fetchModels"
  <2>1. AfterCredential(w) = Settings(w, n) /\ n \in {"fetchModels", "enterBaseURL"}
    BY <1>1, SMT DEF AfterCredential
  <2>2. n # "ollamaSetup" /\ n \in {"fetchModels", "enterBaseURL", "ollamaSetup"}
    BY <2>1
  <2> HIDE DEF n
  <2> QED BY <1>1, <2>1, <2>2, ToSettings, SMT
<1>2. CASE w.provider \in PromptBaseURL \ HasSettings
  <2>1. AfterCredential(w) = [w EXCEPT !.step = "enterBaseURL"]
    BY <1>2, SMT DEF AfterCredential
  <2> QED BY <1>0, <1>2, <2>1, ToStep, SMT
<1>3. CASE w.provider \notin PromptBaseURL \cup HasSettings
  <2>1. AfterCredential(w) = ModelStrategy(w)
    BY <1>3, SMT DEF AfterCredential
  <2> QED BY <1>3, <2>1, AfterSettings, Zenon
<1> QED BY <1>1, <1>2, <1>3

-----------------------------------------------------------------------------
(***************************************************************************)
(* What a move of the wizard must establish.                               *)
(***************************************************************************)
Owned(c, w) == c.id = w.id /\ c.flow = w.flow

(* The wizard is at w, has dropped some calls and made the calls new.      *)
MovesTo(w, old, new) ==
  /\ page = "wizard" /\ UNCHANGED <<page, known, saves>>
  /\ foreign' \in BOOLEAN /\ (foreign => foreign')
  /\ mail' \in [Letters -> Nat] /\ late' \subseteq Operations /\ hurried' \in Nat
  /\ m' = w /\ calls' = old \cup new /\ old \subseteq calls

Moves(w, old, new) == MovesTo(w, old, new) /\ UNCHANGED <<request, mail, late>>

(* What holds of w whatever has been used.                                 *)
Sound(w, new) ==
  /\ WizardOK(w) /\ w.id = m.id /\ w.flow >= m.flow
  /\ w.saved # None => OnRecord(w.saved)
  /\ \A c \in new : CallOK(c) /\ Owned(c, w)

(* Every save is settled that was not sent with a message under way.       *)
AllSettled == \A o \in Submitted \ late : Settled(o)

(* What holds of w when no answer to an earlier wizard has been used.      *)
Consistent(w, old, new) ==
  /\ Gathered(w) /\ OnItsWay(w) /\ KnowsSaved(w)
  /\ w.adding => w.testing
  /\ m.saved # None => w.saved # None
  /\ \A c \in new : Waits(w, c) /\ (c.kind = "test" => w.saved # None)
  /\ \A c, d \in new : c = d
  /\ \/ \A c \in old : ~Owned(c, w)
     \/ new = {} /\ w.flow = m.flow /\ \A c \in old : Own(c) => Waits(w, c)

Orderly(w, old, new) ==
  /\ Consistent(w, old, new)
  /\ \A o \in Submitted \ late : Settled(o) \/ (~Moving /\ Holds(w, o))

(* What every step keeps but the handling of a message that changes the    *)
(* page: such a message is asked for only when all that was sent is settled. *)
Carries ==
  /\ OnboardingInv' /\ UNCHANGED page /\ m'.id = m.id
  /\ foreign \/ mail' = mail \/ AllSettled

LEMMA MoveToKeeps ==
  ASSUME OnboardingInv, NEW w, NEW old, NEW new,
         MovesTo(w, old, new), Sound(w, new), RecordsOK',
         ~foreign' => Consistent(w, old, new) /\ MailIsTrue' /\ NothingUnseen',
         foreign \/ mail' = mail \/ AllSettled
  PROVE  Carries
<1> USE DEF MovesTo
<1>1. StateOK'
  <2>1. WizardOK(w) /\ w.id = m.id /\ w.flow >= m.flow BY DEF Sound
  <2>2. m.id \in Nat /\ m.flow \in Nat /\ w.flow \in Nat
    BY <2>1 DEF OnboardingInv, StateOK, WizardOK, Wizard
  <2>3. \A c \in calls : CallOK(c) /\ Past(c) BY DEF OnboardingInv, StateOK
  <2>4. \A c \in old : CallOK(c) /\ Past(c)' BY <2>1, <2>2, <2>3 DEF Past, CallOK
  <2>5. \A c \in new : CallOK(c) /\ Past(c)'
    BY <2>1, <2>2 DEF Sound, Past, Owned
  <2>7. WizardOK(m)' BY <2>1 DEF WizardOK
  <2>8. /\ page' \in {"wizard", "chat", "over"}
        /\ known' \subseteq Providers /\ foreign' \in BOOLEAN
    BY DEF OnboardingInv, StateOK
  <2>9. \A c \in calls' : CallOK(c) /\ Past(c)' BY <2>4, <2>5
  <2> QED BY <2>7, <2>8, <2>9 DEF StateOK, CallOK
<1>2. SavedOnRecord' BY DEF Sound, SavedOnRecord, OnRecord
<1>3. ReportIsTrue'
  BY DEF OnboardingInv, StateOK, ReportIsTrue
<1>4. ASSUME ~foreign' PROVE MailIsTrue' /\ NothingUnseen' /\ InOrder'
  <2>0. ~foreign /\ Consistent(w, old, new) BY <1>4
  <2>1. MailIsTrue' /\ NothingUnseen' BY <1>4
  <2>2. Gathered(w)' /\ OnItsWay(w)' /\ KnowsSaved(w)'
    BY <2>0 DEF Consistent, Gathered, OnItsWay, KnowsSaved, Inputs
  <2>3. \A c \in calls' : Own(c)' => Waits(w, c)
    <3>1. ASSUME NEW c \in calls', Own(c)' PROVE Waits(w, c)
      <4>1. CASE c \in new BY <2>0, <4>1 DEF Consistent
      <4>2. CASE c \in old
        <5>1. Owned(c, w) BY <3>1 DEF Own, Owned
        <5>2. w.flow = m.flow /\ (Own(c) => Waits(w, c))
          BY <2>0, <4>2, <5>1 DEF Consistent
        <5>3. Own(c) BY <5>1, <5>2 DEF Own, Owned, Sound
        <5> QED BY <5>2, <5>3
      <4> QED BY <4>1, <4>2
    <3> QED BY <3>1
  <2>4. \A c, d \in calls' : Own(c)' /\ Own(d)' => c = d
    <3>1. CASE \A c \in old : ~Owned(c, w)
      BY <2>0, <3>1 DEF Consistent, Own, Owned
    <3>2. CASE new = {} /\ w.flow = m.flow
      <4>1. InOrder BY <2>0 DEF OnboardingInv
      <4>2. \A c \in calls' : Own(c)' => Own(c) BY <3>2 DEF Own, Sound
      <4> QED BY <3>2, <4>1, <4>2 DEF InOrder, OneAnswer
    <3> QED BY <2>0, <3>1, <3>2 DEF Consistent
  <2>5. TestsSaved'
    <3>1. InOrder BY <2>0 DEF OnboardingInv
    <3>2. ASSUME NEW c \in calls', c.kind = "test", c.id = w.id PROVE w.saved # None
      <4>1. CASE c \in new BY <2>0, <3>2, <4>1 DEF Consistent
      <4>2. CASE c \in old
        BY <2>0, <3>1, <3>2, <4>2 DEF Consistent, Sound, InOrder, TestsSaved
      <4> QED BY <4>1, <4>2
    <3> QED BY <3>2 DEF TestsSaved
  <2>6. (m.adding => m.testing)' BY <2>0 DEF Consistent
  <2>7. \A c \in calls' : Own(c)' => Waits(m, c)' BY <2>3 DEF Waits, Inputs
  <2>8. OneAnswer' BY <2>4, <2>7 DEF OneAnswer
  <2>9. Gathered(m)' /\ OnItsWay(m)' /\ KnowsSaved(m)'
    BY <2>2 DEF Gathered, OnItsWay, KnowsSaved, Inputs
  <2> QED BY <2>1, <2>5, <2>6, <2>8, <2>9 DEF InOrder
<1>5. UNCHANGED page /\ m'.id = m.id BY DEF Sound
<1> QED BY <1>1, <1>2, <1>3, <1>4, <1>5 DEF OnboardingInv, Carries

LEMMA MoveKeeps ==
  ASSUME OnboardingInv, NEW w, NEW old, NEW new,
         Moves(w, old, new), Sound(w, new), ~foreign' => Orderly(w, old, new)
  PROVE  Carries
<1>1. MovesTo(w, old, new) BY DEF Moves
<1>2. RecordsOK' BY DEF Moves, MovesTo, OnboardingInv, StateOK, RecordsOK
<1>3. ASSUME ~foreign' PROVE Consistent(w, old, new) /\ MailIsTrue' /\ NothingUnseen'
  <2>1. Consistent(w, old, new) BY <1>3 DEF Orderly
  <2>2. MailIsTrue' BY <1>3 DEF Moves, MovesTo, OnboardingInv, MailIsTrue, OnRecord
  <2>3. NothingUnseen'
    <3>1. (Moving)' = Moving BY DEF Moves, Moving
    <3>2. Submitted' = Submitted /\ \A o : Settled(o)' = Settled(o)
      BY DEF Moves, MovesTo, Submitted, Unused, Settled
    <3> QED BY <1>3, <3>1, <3>2 DEF Moves, MovesTo, Orderly, NothingUnseen, Holds
  <2> QED BY <2>1, <2>2, <2>3
<1>4. mail' = mail BY DEF Moves
<1> QED BY <1>1, <1>2, <1>3, <1>4, MoveToKeeps

(* The command of a step is one that the step waits for.                   *)
LEMMA StartedWaits ==
  ASSUME NEW w, WizardOK(w), w.step # "selectProvider"
  PROVE  /\ \A c \in Started(w) : CallOK(c) /\ Owned(c, w) /\ Waits(w, c) /\ c.kind # "test"
         /\ \A c, d \in Started(w) : c = d
<1>1. /\ w.provider \in Providers /\ w.flow \in Nat \ {0} /\ w.id \in Nat
      /\ Inputs(w) \in InputSet
  BY DEF WizardOK, Wizard, Inputs, InputSet, TokenSet
<1>2. CASE w.step = "fetchModels"
  <2>1. Started(w) = {Call(w, "models", Inputs(w))} BY <1>2 DEF Started
  <2> QED BY <1>1, <1>2, <2>1 DEF Call, CallOK, Owned, Waits, Kinds, Setup, About
<1>3. CASE w.step = "cliSetup"
  <2>1. Started(w) = {Call(w, "cli", w.provider)} BY <1>3 DEF Started
  <2> QED BY <1>1, <1>3, <2>1 DEF Call, CallOK, Owned, Waits, Kinds, Setup, About
<1>4. CASE w.step = "ollamaSetup"
  <2>1. Started(w) = {Call(w, "ollama", w.provider)} BY <1>4 DEF Started
  <2> QED BY <1>1, <1>4, <2>1 DEF Call, CallOK, Owned, Waits, Kinds, Setup, About
<1>5. CASE w.step = "browserAuth" /\ w.authing
  <2> DEFINE kind == IF Device(w.provider) THEN "code" ELSE "auth"
  <2>1. Started(w) = {Call(w, kind, w.provider)} BY <1>5 DEF Started
  <2>2. ASSUME NEW k \in {"code", "auth"}
        PROVE  LET c == Call(w, k, w.provider) IN
               CallOK(c) /\ Owned(c, w) /\ Waits(w, c) /\ c.kind # "test"
    <3>1. CASE k = "code"
      BY <1>1, <1>5, <3>1 DEF Call, CallOK, Owned, Waits, Kinds, Setup, About
    <3>2. CASE k = "auth"
      BY <1>1, <1>5, <3>2 DEF Call, CallOK, Owned, Waits, Kinds, Setup, About
    <3> QED BY <3>1, <3>2
  <2>3. kind \in {"code", "auth"} OBVIOUS
  <2> HIDE DEF kind
  <2> QED BY <2>1, <2>2, <2>3
<1>6. CASE /\ w.step \notin {"fetchModels", "cliSetup", "ollamaSetup"}
           /\ ~(w.step = "browserAuth" /\ w.authing)
  <2>1. Started(w) = {} BY <1>6 DEF Started
  <2> QED BY <2>1
<1> QED BY <1>2, <1>3, <1>4, <1>5, <1>6

(* Nothing is under way, and every save is settled.                        *)
AtRest == (\A c \in calls : ~Own(c)) /\ AllSettled

RestSteps == {"selectProvider", "anthropicAuthChoice", "enterAPIKey", "ollamaChoice",
              "enterSettings", "enterBaseURL", "selectModel", "review"}

LEMMA Resting ==
  ASSUME OnboardingInv, ~foreign, page = "wizard",
         \/ m.step \in RestSteps
         \/ m.step = "browserAuth" /\ ~m.authing
         \/ m.step = "pullModel" /\ ~m.pulling
  PROVE  AtRest
<1>1. InOrder /\ NothingUnseen BY DEF OnboardingInv
<1>2. \A c \in calls : c.kind \in Kinds BY DEF OnboardingInv, StateOK, CallOK
<1>3. ASSUME NEW c \in calls, Own(c) PROVE FALSE
  <2>1. Waits(m, c) BY <1>1, <1>3 DEF InOrder, OneAnswer
  <2> QED BY <1>2, <2>1 DEF Waits, RestSteps, Kinds, Setup
<1>4. m.step # "testConnection" BY DEF RestSteps
<1> QED BY <1>1, <1>3, <1>4 DEF AtRest, AllSettled, NothingUnseen, Holds

(* Away from the test of the connection every save is settled, and with a  *)
(* message under way that changes the page.                                *)
LEMMA SettledElsewhere ==
  ASSUME OnboardingInv, ~foreign,
         \/ m.step # "testConnection" \/ page # "wizard" \/ Moving
         \/ ~m.unresolved /\ (~m.adding \/ ~m.testing)
  PROVE  AllSettled
BY DEF OnboardingInv, NothingUnseen, Holds, AllSettled

(* No call has been made in a flow the wizard has not counted yet.         *)
LEMMA NextFlow ==
  ASSUME OnboardingInv, page = "wizard", NEW w, w.id = m.id, w.flow = m.flow + 1,
         NEW c \in calls
  PROVE  ~Owned(c, w)
BY DEF OnboardingInv, StateOK, CallOK, Past, Owned, WizardOK, Wizard

(* A step of the setup, away from the save.                                *)
SetupStep(w) ==
  /\ w \in Wizard /\ SameSave(w, m)
  /\ w.flow = m.flow \/ (w.flow = m.flow + 1 /\ MayAbandon)
  /\ w.step # "selectProvider" => w.flow > 0
  /\ w.flow > 0 => w.provider \in Providers

Undisturbed(w) ==
  /\ Gathered(w) /\ OnItsWay(w)
  /\ \A c \in calls : ~Owned(c, w)
  /\ AllSettled

LEMMA SetupSound ==
  ASSUME OnboardingInv, NEW w, SetupStep(w)
  PROVE  Sound(w, {})
<1>1. WizardOK(m) /\ m.flow \in Nat /\ m.spent \in Nat /\ hurried \in Nat
  BY DEF OnboardingInv, StateOK, WizardOK, Wizard
<1>2. w.flow = m.flow \/ (w.flow = m.flow + 1 /\ m.spent + m.flow < MaxFlow)
  BY <1>1, OnboardingAssumption DEF SetupStep, MayAbandon
<1>3. w.spent + w.flow <= MaxFlow /\ w.flow >= m.flow
  BY <1>1, <1>2, OnboardingAssumption DEF SetupStep, SameSave, WizardOK
<1>4. WizardOK(w) BY <1>1, <1>3 DEF WizardOK, SetupStep, SameSave
<1> QED BY <1>3, <1>4 DEF Sound, OnboardingInv, SetupStep, SameSave, SavedOnRecord

LEMMA SetupOrderly ==
  ASSUME OnboardingInv, ~foreign, page = "wizard", NEW w, SetupStep(w), Undisturbed(w)
  PROVE  Orderly(w, calls, {})
<1>1. InOrder BY DEF OnboardingInv
<1> QED
  BY <1>1 DEF InOrder, Undisturbed, AllSettled, SetupStep, SameSave, Orderly, Consistent,
              KnowsSaved

LEMMA EnterKeeps ==
  ASSUME OnboardingInv, page = "wizard", NEW w, SetupStep(w),
         ~foreign => Undisturbed(w), Enter(w)
  PROVE  Carries
<1>1. Sound(w, {}) BY SetupSound
<1>2. ~foreign => Orderly(w, calls, {}) BY SetupOrderly
<1>3. CASE w.step = "selectProvider"
  <2>1. Started(w) = {} BY <1>3 DEF Started
  <2>2. Moves(w, calls, {})
    BY <2>1 DEF Enter, Pressed, Hurry, Moves, MovesTo, app, records, OnboardingInv, StateOK
  <2>3. ~foreign' => ~foreign BY DEF Enter, Pressed
  <2> QED BY <1>1, <1>2, <2>2, <2>3, MoveKeeps
<1>4. CASE w.step # "selectProvider"
  <2> DEFINE new == Started(w)
  <2>1. Moves(w, calls, new)
    BY DEF Enter, Pressed, Hurry, Moves, MovesTo, app, records, OnboardingInv, StateOK
  <2>2. /\ \A c \in new : CallOK(c) /\ Owned(c, w) /\ Waits(w, c) /\ c.kind # "test"
        /\ \A c, d \in new : c = d
    BY <1>1, <1>4, StartedWaits DEF Sound
  <2> HIDE DEF new
  <2>3. Sound(w, new) BY <1>1, <2>2 DEF Sound
  <2>4. ~foreign' => Orderly(w, calls, new)
    BY <1>2, <2>2 DEF Orderly, Consistent, Undisturbed, Enter, Pressed
  <2> QED BY <2>1, <2>3, <2>4, MoveKeeps
<1> QED BY <1>3, <1>4

LEMMA StayKeeps ==
  ASSUME OnboardingInv, page = "wizard", NEW w, SetupStep(w),
         ~foreign => Undisturbed(w), Stay(w)
  PROVE  Carries
<1>1. Sound(w, {}) BY SetupSound
<1>2. ~foreign' => Orderly(w, calls, {}) BY SetupOrderly DEF Stay, Pressed
<1>3. Moves(w, calls, {})
  BY DEF Stay, Pressed, Hurry, Moves, MovesTo, app, records, OnboardingInv, StateOK
<1> QED BY <1>1, <1>2, <1>3, MoveKeeps

-----------------------------------------------------------------------------
(***************************************************************************)
(* The keys before a save.                                                 *)
(***************************************************************************)
(* The credential is in place, and nothing is listed where nothing is.     *)
Ready(w) ==
  /\ w \in Wizard /\ w.provider \in Providers /\ ~External(w.provider)
  /\ w.token # None => w.token.provider = w.provider
  /\ w.provider \in CredentialRequired => w.token # None
  /\ w.provider \in ModelManual => w.models = None

LEMMA StrategyFits ==
  ASSUME NEW w, Ready(w)
  PROVE  LET r == ModelStrategy(w) IN Gathered(r) /\ OnItsWay(r)
<1> DEFINE r == ModelStrategy(w)
<1>1. /\ SameGathered(r, w)
      /\ \/ /\ w.provider \in ModelManual
            /\ r.step = "selectModel" /\ r.models = w.models
         \/ /\ w.provider \notin ModelManual
            /\ r.step = "fetchModels" /\ r.models = None
  BY AfterSettings, Zenon DEF Ready
<1> QED
  BY <1>1 DEF Ready, SameGathered, Gathered, OnItsWay, Credentialed, Listing, Chosen

LEMMA CredentialFits ==
  ASSUME NEW w, Ready(w)
  PROVE  LET r == AfterCredential(w) IN Gathered(r) /\ OnItsWay(r)
<1> DEFINE r == AfterCredential(w)
<1>1. /\ SameGathered(r, w)
      /\ \/ r.step = "enterSettings" /\ r.models = w.models /\ r.next # "ollamaSetup"
         \/ r.step = "enterBaseURL" /\ r.models = w.models
         \/ r = ModelStrategy(w)
  BY AfterCredentials, Zenon DEF Ready
<1>2. CASE r = ModelStrategy(w) BY <1>2, StrategyFits, Zenon
<1>3. CASE r.step \in {"enterSettings", "enterBaseURL"} /\ r.models = w.models
           /\ (r.step = "enterSettings" => r.next # "ollamaSetup")
  BY <1>1, <1>3 DEF Ready, SameGathered, Gathered, OnItsWay, Credentialed, Listing, Chosen
<1> QED BY <1>1, <1>2, <1>3

(* What the two operators return is a step of the setup too.               *)
LEMMA StrategyStep ==
  ASSUME NEW w, SetupStep(w), w.provider \in Providers, w.flow > 0
  PROVE  LET r == ModelStrategy(w) IN SetupStep(r) /\ r.flow = w.flow
<1> DEFINE r == ModelStrategy(w)
<1>1. r \in Wizard /\ SameSave(r, w) /\ SameGathered(r, w) /\ r.flow = w.flow
  BY AfterSettings, Zenon DEF SetupStep
<1> QED BY <1>1 DEF SetupStep, SameSave, SameGathered

LEMMA CredentialStep ==
  ASSUME NEW w, SetupStep(w), w.provider \in Providers, w.flow > 0
  PROVE  LET r == AfterCredential(w) IN SetupStep(r) /\ r.flow = w.flow
<1> DEFINE r == AfterCredential(w)
<1>1. r \in Wizard /\ SameSave(r, w) /\ SameGathered(r, w) /\ r.flow = w.flow
  BY AfterCredentials, Zenon DEF SetupStep
<1> QED BY <1>1 DEF SetupStep, SameSave, SameGathered

(* A wizard at rest that stays in its flow is not disturbed.               *)
LEMMA SameFlow ==
  ASSUME OnboardingInv, AtRest, NEW w, w.id = m.id, w.flow = m.flow,
         Gathered(w), OnItsWay(w)
  PROVE  Undisturbed(w)
BY DEF AtRest, Undisturbed, Own, Owned

(* Another step from a step of the setup.                                  *)
LEMMA OtherStep ==
  ASSUME NEW v, SetupStep(v), v.flow > 0, v.provider \in Providers, NEW s \in Steps
  PROVE  LET w == [v EXCEPT !.step = s] IN
         /\ SetupStep(w) /\ SameGathered(w, v) /\ w.flow = v.flow
         /\ w.step = s /\ w.models = v.models /\ w.next = v.next
<1> DEFINE w == [v EXCEPT !.step = s]
<1>1. /\ w \in Wizard /\ SameSave(w, v) /\ SameGathered(w, v)
      /\ w.flow = v.flow /\ w.step = s /\ w.models = v.models /\ w.next = v.next
  BY ToStep, Zenon DEF SetupStep
<1>2. SetupStep(w)
  <2> HIDE DEF w
  <2> QED BY <1>1 DEF SetupStep, SameSave, SameGathered
<1> QED BY <1>1, <1>2, Zenon

(* A step that waits for a login.                                          *)
LEMMA ToAuth ==
  ASSUME NEW v, SetupStep(v), v.flow > 0, v.provider \in Providers
  PROVE  LET w == BeginDevice(v) IN
         /\ SetupStep(w) /\ SameGathered(w, v) /\ w.flow = v.flow
         /\ w.step = "browserAuth" /\ w.authing /\ w.models = v.models
<1> DEFINE w == BeginDevice(v)
<1>0. v \in Wizard BY DEF SetupStep
<1>1. "browserAuth" \in Steps BY DEF Steps
<1>2. w \in Wizard BY <1>0, <1>1, Zenon DEF Wizard, BeginDevice
<1>3. SameSave(w, v) BY <1>0, Zenon DEF Wizard, SameSave, BeginDevice
<1>4. SameGathered(w, v) BY <1>0, Zenon DEF Wizard, SameGathered, BeginDevice
<1>5. w.flow = v.flow /\ w.step = "browserAuth" /\ w.authing /\ w.models = v.models
  BY <1>0, Zenon DEF Wizard, BeginDevice
<1> QED BY <1>2, <1>3, <1>4, <1>5 DEF SetupStep, SameSave, SameGathered

(* The wizard itself is at a step of the setup.                            *)
LEMMA Itself ==
  ASSUME OnboardingInv
  PROVE  SetupStep(m)
BY DEF OnboardingInv, StateOK, WizardOK, SetupStep, SameSave

(* The wizard knows its provider away from the first step.                 *)
LEMMA Underway ==
  ASSUME OnboardingInv, m.step # "selectProvider" \/ m.flow > 0
  PROVE  m \in Wizard /\ m.flow > 0 /\ m.provider \in Providers /\ m.flow \in Nat
BY DEF OnboardingInv, StateOK, WizardOK, Wizard

LEMMA KeepsSelectProvider ==
  ASSUME OnboardingInv, SelectProvider
  PROVE  Carries
<1>0. page = "wizard" /\ m.step = "selectProvider" /\ MayAbandon
  BY DEF SelectProvider, Key
<1> DEFINE W(p) == [m EXCEPT !.flow = @ + 1, !.provider = p, !.token = None,
                             !.settings = None, !.url = None, !.models = None,
                             !.model = None, !.manual = FALSE, !.cli = None]
           R(p) == CASE External(p) -> [W(p) EXCEPT !.step = "cliSetup"]
                     [] Auth[p] = "anthropic" -> [W(p) EXCEPT !.step = "anthropicAuthChoice"]
                     [] Device(p) -> BeginDevice(W(p))
                     [] Auth[p] = "api_key" -> [W(p) EXCEPT !.step = "enterAPIKey"]
                     [] p = "ollama" -> [W(p) EXCEPT !.step = "ollamaChoice"]
                     [] OTHER -> AfterCredential(W(p))
<1>1. PICK p \in Providers : Enter(R(p)) BY DEF SelectProvider
<1>2. m \in Wizard /\ m.flow \in Nat /\ m.flow + 1 \in Nat
  BY DEF OnboardingInv, StateOK, WizardOK, Wizard
<1>3. W(p) \in Wizard BY <1>2, Zenon DEF Wizard, Types
<1>4. /\ W(p).flow = m.flow + 1 /\ W(p).provider = p /\ W(p).token = None
      /\ W(p).models = None /\ W(p).model = None
  BY <1>2, Zenon DEF Wizard
<1>5. SameSave(W(p), m) BY <1>2, Zenon DEF Wizard, SameSave
<1> DEFINE w == W(p)
<1>6. SetupStep(w) /\ w.flow > 0 /\ w.provider = p
  <2> HIDE DEF W
  <2> QED BY <1>0, <1>2, <1>3, <1>4, <1>5 DEF SetupStep
<1>7. ASSUME NEW r, r = R(p), SetupStep(r), r.flow = m.flow + 1,
             Gathered(r), OnItsWay(r)
      PROVE  Carries
  <2> HIDE DEF R
  <2>1. r.id = m.id BY <1>7 DEF SetupStep, SameSave
  <2>2. ~foreign => Undisturbed(r)
    BY <1>0, <1>7, <2>1, NextFlow, SettledElsewhere DEF Undisturbed
  <2> QED BY <1>0, <1>1, <1>7, <2>2, EnterKeeps
<1>8. ASSUME NEW s \in {"cliSetup", "anthropicAuthChoice", "enterAPIKey", "ollamaChoice"},
             NEW r, r = [w EXCEPT !.step = s],
             s = "cliSetup" <=> External(p), s = "ollamaChoice" => p = "ollama"
      PROVE  SetupStep(r) /\ r.flow = m.flow + 1 /\ Gathered(r) /\ OnItsWay(r)
  <2> HIDE DEF W
  <2>1. s \in Steps BY DEF Steps
  <2>2. /\ SetupStep(r) /\ SameGathered(r, w) /\ r.flow = m.flow + 1
        /\ r.step = s /\ r.models = w.models
    BY <1>4, <1>6, <1>8, <2>1, OtherStep
  <2> QED
    BY <1>4, <1>8, <2>2 DEF SameGathered, Gathered, OnItsWay, Credentialed, Listing, Chosen
<1>9. CASE External(p)
  <2>1. R(p) = [w EXCEPT !.step = "cliSetup"] BY <1>9, Catalog
  <2> HIDE DEF R, W
  <2> QED BY <1>7, <1>8, <1>9, <2>1, Catalog
<1>10. CASE Auth[p] = "anthropic"
  <2>1. R(p) = [w EXCEPT !.step = "anthropicAuthChoice"] /\ ~External(p)
    BY <1>10, Catalog DEF External, Device
  <2> HIDE DEF R, W
  <2> QED BY <1>7, <1>8, <2>1
<1>11. CASE Device(p)
  <2>1. R(p) = BeginDevice(w) /\ ~External(p)
    BY <1>11, Catalog DEF External, Device
  <2> HIDE DEF R, W
  <2>2. LET r == BeginDevice(w) IN
        /\ SetupStep(r) /\ SameGathered(r, w) /\ r.flow = m.flow + 1
        /\ r.step = "browserAuth" /\ r.models = w.models
    BY <1>4, <1>6, ToAuth
  <2>3. Gathered(BeginDevice(w)) /\ OnItsWay(BeginDevice(w))
    BY <1>4, <2>1, <2>2 DEF SameGathered, Gathered, OnItsWay, Credentialed, Listing, Chosen
  <2> QED BY <1>7, <2>1, <2>2, <2>3
<1>12. CASE Auth[p] = "api_key"
  <2>1. R(p) = [w EXCEPT !.step = "enterAPIKey"] /\ ~External(p)
    BY <1>12, Catalog DEF External, Device
  <2> HIDE DEF R, W
  <2> QED BY <1>7, <1>8, <2>1
<1>13. CASE p = "ollama"
  <2>1. R(p) = [w EXCEPT !.step = "ollamaChoice"] /\ ~External(p)
    BY <1>13, Catalog DEF External, Device
  <2> HIDE DEF R, W
  <2> QED BY <1>7, <1>8, <1>13, <2>1
<1>14. CASE ~External(p) /\ ~Device(p) /\ Auth[p] \notin {"anthropic", "api_key"}
            /\ p # "ollama"
  <2>1. R(p) = AfterCredential(w) BY <1>14
  <2> HIDE DEF R, W
  <2>2. Ready(w) BY <1>3, <1>4, <1>14, Catalog DEF Ready
  <2>3. LET r == AfterCredential(w) IN
        SetupStep(r) /\ r.flow = m.flow + 1 /\ Gathered(r) /\ OnItsWay(r)
    BY <1>4, <1>6, <2>2, CredentialStep, CredentialFits
  <2> QED BY <1>7, <2>1, <2>3
<1> QED BY <1>9, <1>10, <1>11, <1>12, <1>13, <1>14

LEMMA KeepsChooseAuth ==
  ASSUME OnboardingInv, ChooseAuth \/ RetryAuth
  PROVE  Carries
<1>0. /\ page = "wizard"
      /\ m.step = "anthropicAuthChoice" \/ (m.step = "browserAuth" /\ ~m.authing)
  BY Zenon DEF ChooseAuth, RetryAuth, Key
<1>1. m.flow > 0 /\ m.provider \in Providers BY <1>0, Underway
<1>2. ASSUME ~foreign
      PROVE  AtRest /\ Gathered(m) /\ ~External(m.provider)
  <2>1. AtRest BY <1>0, <1>2, Resting DEF RestSteps
  <2>2. InOrder BY <1>0, <1>2 DEF OnboardingInv
  <2> QED BY <1>0, <1>1, <2>1, <2>2 DEF InOrder, OnItsWay, Chosen
<1>3. ASSUME NEW w, SetupStep(w), SameGathered(w, m), w.flow = m.flow,
             w.step \in {"enterAPIKey", "browserAuth"}, w.models = m.models, Enter(w)
      PROVE  Carries
  <2>1. ~foreign => Gathered(w) /\ OnItsWay(w)
    BY <1>2, <1>3 DEF SameGathered, Gathered, OnItsWay, Credentialed, Listing, Chosen
  <2>2. ~foreign => Undisturbed(w)
    BY <1>2, <1>3, <2>1, SameFlow DEF SetupStep, SameSave
  <2> QED BY <1>0, <1>3, <2>2, EnterKeeps
<1>4. CASE Enter([m EXCEPT !.step = "enterAPIKey"])
  <2>1. "enterAPIKey" \in Steps BY DEF Steps
  <2> QED BY <1>1, <1>3, <1>4, <2>1, Itself, OtherStep
<1>5. CASE Enter(BeginDevice(m)) BY <1>1, <1>3, <1>5, Itself, ToAuth
<1> QED BY <1>4, <1>5 DEF ChooseAuth, RetryAuth, BeginDevice

LEMMA KeepsEnterAPIKey ==
  ASSUME OnboardingInv, EnterAPIKey
  PROVE  Carries
<1>0. page = "wizard" /\ m.step = "enterAPIKey" BY DEF EnterAPIKey, Key
<1>1. m.flow > 0 /\ m.provider \in Providers /\ m \in Wizard BY <1>0, Underway
<1>2. PICK t \in TokenSet \cup {None} :
         /\ Enter(AfterCredential([m EXCEPT !.token = t]))
         /\ t # None => t.provider = m.provider
         /\ m.provider \in CredentialRequired => t # None
  <2>1. PICK v \in Values \cup (IF m.provider \in CredentialRequired THEN {} ELSE {None}) :
          Enter(AfterCredential([m EXCEPT !.token = IF v = None THEN None
                                                    ELSE Token(m.provider, v)]))
    BY DEF EnterAPIKey
  <2>2. CASE v = None
    BY <1>1, <2>1, <2>2, OnboardingAssumption
  <2>3. CASE v # None
    <3>1. Token(m.provider, v) \in TokenSet BY <1>1, <2>1, <2>3 DEF Token, TokenSet
    <3>2. Token(m.provider, v) # None /\ Token(m.provider, v).provider = m.provider
      BY <3>1, OnboardingAssumption DEF Token, TokenSet
    <3> QED BY <2>1, <2>3, <3>1, <3>2
  <2> QED BY <2>2, <2>3
<1> DEFINE w == [m EXCEPT !.token = t]
<1>3. w \in Wizard BY <1>1, Zenon DEF Wizard
<1>4. /\ SameSave(w, m) /\ w.flow = m.flow /\ w.provider = m.provider /\ w.token = t
      /\ w.models = m.models /\ w.id = m.id /\ w.step = m.step
  BY <1>1, Zenon DEF Wizard, SameSave
<1>5. Enter(AfterCredential(w)) BY <1>2
<1> HIDE DEF w
<1>6. SetupStep(w) BY <1>1, <1>3, <1>4 DEF SetupStep
<1> DEFINE r == AfterCredential(w)
<1>7. SetupStep(r) /\ r.flow = m.flow BY <1>1, <1>4, <1>6, CredentialStep
<1>8. ASSUME ~foreign PROVE Undisturbed(r)
  <2>1. AtRest BY <1>0, <1>8, Resting DEF RestSteps
  <2>2. Gathered(m) /\ OnItsWay(m) BY <1>0, <1>8 DEF OnboardingInv, InOrder
  <2>3. Ready(w)
    BY <1>0, <1>1, <1>2, <1>3, <1>4, <2>2 DEF Ready, Gathered, OnItsWay, Chosen
  <2>4. Gathered(r) /\ OnItsWay(r) BY <2>3, CredentialFits
  <2> QED BY <1>7, <2>1, <2>4, SameFlow DEF SetupStep, SameSave
<1> QED BY <1>0, <1>5, <1>7, <1>8, EnterKeeps

LEMMA KeepsChooseOllama ==
  ASSUME OnboardingInv, ChooseOllama
  PROVE  Carries
<1>0. page = "wizard" /\ m.step = "ollamaChoice" BY DEF ChooseOllama, Key
<1>1. m.flow > 0 /\ m.provider \in Providers /\ m \in Wizard BY <1>0, Underway
<1>2. PICK n \in {"enterBaseURL", "ollamaSetup"} : Enter(Settings(m, n))
  BY DEF ChooseOllama
<1> DEFINE w == Settings(m, n)
<1>3. /\ w \in Wizard /\ SameSave(w, m) /\ SameGathered(w, m)
      /\ w.flow = m.flow /\ w.step = "enterSettings" /\ w.models = m.models
      /\ w.next = n
  BY <1>1, ToSettings
<1>4. SetupStep(w) BY <1>1, <1>3 DEF SetupStep, SameGathered
<1>5. ASSUME ~foreign PROVE Undisturbed(w)
  <2>1. AtRest BY <1>0, <1>5, Resting DEF RestSteps
  <2>2. Gathered(m) /\ OnItsWay(m) BY <1>0, <1>5 DEF OnboardingInv, InOrder
  <2>3. m.provider = "ollama" BY <1>0, <2>2 DEF OnItsWay
  <2>4. Gathered(w) /\ OnItsWay(w)
    BY <1>1, <1>3, <2>2, <2>3, Catalog
       DEF SameGathered, Gathered, OnItsWay, Credentialed, Listing, Chosen
  <2> QED BY <1>3, <2>1, <2>4, SameFlow DEF SameSave
<1> QED BY <1>0, <1>2, <1>4, <1>5, EnterKeeps

LEMMA KeepsEnterSettings ==
  ASSUME OnboardingInv, EnterSettings
  PROVE  Carries
<1>0. page = "wizard" /\ m.step = "enterSettings" BY DEF EnterSettings, Key
<1>1. m.flow > 0 /\ m.provider \in Providers /\ m \in Wizard BY <1>0, Underway
<1>2. PICK v \in Values :
        LET w == [m EXCEPT !.settings = v, !.next = "fetchModels"] IN
        Enter(IF m.next = "fetchModels" THEN ModelStrategy(w)
              ELSE [w EXCEPT !.step = m.next])
  BY DEF EnterSettings
<1> DEFINE w == [m EXCEPT !.settings = v, !.next = "fetchModels"]
<1>3. w \in Wizard BY <1>1, Zenon DEF Wizard
<1>4. /\ SameSave(w, m) /\ w.flow = m.flow /\ w.provider = m.provider
      /\ w.token = m.token /\ w.models = m.models /\ w.model = m.model /\ w.cli = m.cli
      /\ w.id = m.id /\ w.step = m.step
  BY <1>1, Zenon DEF Wizard, SameSave
<1>5. Enter(IF m.next = "fetchModels" THEN ModelStrategy(w) ELSE [w EXCEPT !.step = m.next])
  BY <1>2
<1> HIDE DEF w
<1>6. SetupStep(w) BY <1>1, <1>3, <1>4 DEF SetupStep
<1>7. ASSUME ~foreign
      PROVE  /\ AtRest /\ Ready(w)
             /\ m.next = "ollamaSetup" => m.provider = "ollama"
  <2>1. AtRest BY <1>0, <1>7, Resting DEF RestSteps
  <2>2. Gathered(m) /\ OnItsWay(m) BY <1>0, <1>7 DEF OnboardingInv, InOrder
  <2>3. Ready(w)
    BY <1>0, <1>1, <1>3, <1>4, <2>2 DEF Ready, Gathered, OnItsWay, Chosen, Credentialed
  <2> QED BY <1>0, <2>1, <2>2, <2>3 DEF OnItsWay
<1>8. CASE m.next = "fetchModels"
  <2> DEFINE r == ModelStrategy(w)
  <2>1. SetupStep(r) /\ r.flow = m.flow BY <1>1, <1>4, <1>6, StrategyStep
  <2>2. ASSUME ~foreign PROVE Undisturbed(r)
    <3>1. Gathered(r) /\ OnItsWay(r) BY <1>7, <2>2, StrategyFits
    <3> QED BY <1>7, <2>1, <2>2, <3>1, SameFlow DEF SetupStep, SameSave
  <2> QED BY <1>0, <1>5, <1>8, <2>1, <2>2, EnterKeeps
<1>9. CASE m.next # "fetchModels"
  <2> DEFINE r == [w EXCEPT !.step = m.next]
  <2>1. m.next \in {"enterBaseURL", "ollamaSetup"} BY <1>1, <1>9 DEF Wizard
  <2>2. m.next \in Steps BY <2>1 DEF Steps
  <2>3. /\ SetupStep(r) /\ SameGathered(r, w) /\ r.flow = w.flow
        /\ r.step = m.next /\ r.models = w.models
    BY <1>1, <1>4, <1>6, <2>2, OtherStep
  <2>4. Enter(r) BY <1>5, <1>9
  <2> HIDE DEF r
  <2>5. ASSUME ~foreign PROVE Undisturbed(r)
    <3>1. Gathered(r) /\ OnItsWay(r)
      BY <1>4, <1>7, <2>1, <2>3, <2>5
         DEF Ready, SameGathered, Gathered, OnItsWay, Credentialed, Listing, Chosen
    <3> QED BY <1>4, <1>7, <2>3, <2>5, <3>1, SameFlow DEF SetupStep, SameSave
  <2> QED BY <1>0, <2>3, <2>4, <2>5, EnterKeeps
<1> QED BY <1>8, <1>9

LEMMA KeepsEnterBaseURL ==
  ASSUME OnboardingInv, EnterBaseURL
  PROVE  Carries
<1>0. page = "wizard" /\ m.step = "enterBaseURL" BY DEF EnterBaseURL, Key
<1>1. m.flow > 0 /\ m.provider \in Providers /\ m \in Wizard BY <1>0, Underway
<1>2. PICK v \in Values : Enter(ModelStrategy([m EXCEPT !.url = v])) BY DEF EnterBaseURL
<1> DEFINE w == [m EXCEPT !.url = v]
<1>3. w \in Wizard BY <1>1, Zenon DEF Wizard
<1>4. /\ SameSave(w, m) /\ w.flow = m.flow /\ w.provider = m.provider
      /\ w.token = m.token /\ w.models = m.models /\ w.id = m.id /\ w.step = m.step
  BY <1>1, Zenon DEF Wizard, SameSave
<1>5. Enter(ModelStrategy(w)) BY <1>2
<1> HIDE DEF w
<1>6. SetupStep(w) BY <1>1, <1>3, <1>4 DEF SetupStep
<1> DEFINE r == ModelStrategy(w)
<1>7. SetupStep(r) /\ r.flow = m.flow BY <1>1, <1>4, <1>6, StrategyStep
<1>8. ASSUME ~foreign PROVE Undisturbed(r)
  <2>1. AtRest BY <1>0, <1>8, Resting DEF RestSteps
  <2>2. Gathered(m) /\ OnItsWay(m) BY <1>0, <1>8 DEF OnboardingInv, InOrder
  <2>3. Ready(w)
    BY <1>0, <1>1, <1>3, <1>4, <2>2 DEF Ready, Gathered, OnItsWay, Chosen, Credentialed
  <2>4. Gathered(r) /\ OnItsWay(r) BY <2>3, StrategyFits
  <2> QED BY <1>7, <2>1, <2>4, SameFlow DEF SetupStep, SameSave
<1> QED BY <1>0, <1>5, <1>7, <1>8, EnterKeeps

LEMMA KeepsStartPull ==
  ASSUME OnboardingInv, StartPull
  PROVE  Carries
<1>0. page = "wizard" /\ m.step = "pullModel" /\ ~m.pulling
  BY Zenon DEF StartPull, Key
<1>1. /\ m.flow > 0 /\ m.flow \in Nat /\ m.provider \in Providers /\ m \in Wizard
      /\ m.id \in Nat
  BY <1>0, Underway DEF Wizard
<1> DEFINE w == [m EXCEPT !.pulling = TRUE]
           c == Call(m, "pull", m.provider)
<1>2. w \in Wizard BY <1>1, Zenon DEF Wizard
<1>3. /\ SameSave(w, m) /\ SameGathered(w, m) /\ w.flow = m.flow /\ w.models = m.models
      /\ w.id = m.id /\ w.step = m.step /\ w.pulling /\ w.next = m.next
  BY <1>1, Zenon DEF Wizard, SameSave, SameGathered
<1>4. m' = w /\ calls' = calls \cup {c} /\ Pressed /\ UNCHANGED records
  BY DEF StartPull
<1> HIDE DEF w
<1>5. SetupStep(w) BY <1>1, <1>2, <1>3 DEF SetupStep, SameGathered
<1>6. CallOK(c) /\ Owned(c, w) /\ c.kind # "test" /\ Waits(w, c)
  BY <1>0, <1>1, <1>3
     DEF Call, CallOK, Kinds, Setup, About, Owned, Waits, SameGathered
<1> HIDE DEF c
<1>7. Sound(w, {c}) BY <1>5, <1>6, SetupSound DEF Sound
<1>8. ASSUME ~foreign PROVE Orderly(w, calls, {c})
  <2>1. AtRest BY <1>0, <1>8, Resting
  <2>2. Gathered(m) /\ OnItsWay(m) BY <1>0, <1>8 DEF OnboardingInv, InOrder
  <2>3. Gathered(w) /\ OnItsWay(w)
    BY <1>0, <1>3, <2>2
       DEF SameGathered, Gathered, OnItsWay, Credentialed, Listing, Chosen
  <2>4. Undisturbed(w) BY <1>3, <2>1, <2>3, SameFlow
  <2> QED BY <1>0, <1>5, <1>6, <1>8, <2>4, SetupOrderly DEF Orderly, Consistent, Undisturbed
<1>9. Moves(w, calls, {c})
  BY <1>0, <1>4 DEF Pressed, Hurry, Moves, MovesTo, app, records, OnboardingInv, StateOK
<1> QED BY <1>4, <1>7, <1>8, <1>9, MoveKeeps DEF Pressed

(* A key that keeps the wizard in its flow and starts nothing.             *)
LEMMA StayAtRest ==
  ASSUME OnboardingInv, page = "wizard", m.step \in RestSteps \ {"selectProvider"},
         NEW w, w \in Wizard, SameSave(w, m), w.flow = m.flow, w.provider = m.provider,
         Stay(w),
         ~foreign /\ Gathered(m) /\ OnItsWay(m) => Gathered(w) /\ OnItsWay(w)
  PROVE  Carries
<1>1. m.flow > 0 /\ m.provider \in Providers BY Underway
<1>2. SetupStep(w) BY <1>1 DEF SetupStep
<1>3. ASSUME ~foreign PROVE Undisturbed(w)
  <2>1. AtRest BY <1>3, Resting
  <2>2. Gathered(m) /\ OnItsWay(m) BY <1>3 DEF OnboardingInv, InOrder
  <2> QED BY <1>3, <2>1, <2>2, SameFlow DEF SameSave
<1> QED BY <1>2, <1>3, StayKeeps

(* esc to an earlier step. *)
LEMMA BackTo ==
  ASSUME OnboardingInv, page = "wizard", m.step \in RestSteps \ {"selectProvider"},
         NEW s \in {"selectProvider", "anthropicAuthChoice", "enterAPIKey",
                    "ollamaChoice", "enterBaseURL", "selectModel"},
         Stay([m EXCEPT !.step = s]),
         m.step = "review" /\ External(m.provider) => s = "selectProvider",
         s = "ollamaChoice" => m.provider = "ollama",
         s \in {"enterBaseURL", "selectModel"} => m.step \in Credentialed,
         s = "selectModel" => m.step \in Listing
  PROVE  Carries
<1>1. m.provider \in Providers /\ m \in Wizard BY Underway
<1>2. s \in Steps BY DEF Steps
<1> DEFINE w == [m EXCEPT !.step = s]
<1>3. /\ w \in Wizard /\ SameSave(w, m) /\ SameGathered(w, m)
      /\ w.flow = m.flow /\ w.step = s /\ w.models = m.models
  BY <1>1, <1>2, ToStep
<1>4. Stay(w) OBVIOUS
<1> HIDE DEF w
<1>5. ASSUME Gathered(m), OnItsWay(m) PROVE Gathered(w) /\ OnItsWay(w)
  BY <1>1, <1>3, <1>5
     DEF RestSteps, SameGathered, Gathered, OnItsWay, Credentialed, Listing, Chosen, Inputs
<1>6. w.provider = m.provider BY <1>3 DEF SameGathered
<1> QED BY <1>3, <1>4, <1>5, <1>6, StayAtRest

(* esc or a key that only turns typing on or off. *)
LEMMA TypingKeeps ==
  ASSUME OnboardingInv, page = "wizard", m.step = "selectModel",
         NEW b \in BOOLEAN, Stay([m EXCEPT !.manual = b])
  PROVE  Carries
<1>1. m \in Wizard BY Underway
<1> DEFINE w == [m EXCEPT !.manual = b]
<1>2. w \in Wizard BY <1>1, Zenon DEF Wizard
<1>3. /\ SameSave(w, m) /\ SameGathered(w, m) /\ w.flow = m.flow
      /\ w.step = m.step /\ w.models = m.models /\ w.next = m.next
  BY <1>1, Zenon DEF Wizard, SameSave, SameGathered
<1>4. Stay(w) OBVIOUS
<1> HIDE DEF w
<1>5. ASSUME Gathered(m), OnItsWay(m) PROVE Gathered(w) /\ OnItsWay(w)
  BY <1>3, <1>5 DEF SameGathered, Gathered, OnItsWay, Inputs
<1>6. w.provider = m.provider BY <1>3 DEF SameGathered
<1> QED BY <1>2, <1>3, <1>4, <1>5, <1>6, StayAtRest DEF RestSteps

LEMMA KeepsSelectModel ==
  ASSUME OnboardingInv, SelectModel \/ EnterModel
  PROVE  Carries
<1>0. page = "wizard" /\ m.step = "selectModel" BY Zenon DEF SelectModel, EnterModel, Key
<1>1. m \in Wizard /\ m.provider \in Providers BY <1>0, Underway
<1>2. "review" \in Steps BY DEF Steps
<1>3. ASSUME NEW w, w \in Wizard, SameSave(w, m), w.flow = m.flow, w.step = "review",
             w.models = m.models, w.provider = m.provider, w.token = m.token,
             w.settings = m.settings, w.url = m.url,
             w.model = Typed \/ (w.model = m.models /\ m.models # None),
             Stay(w)
      PROVE  Carries
  <2>1. ASSUME Gathered(m), OnItsWay(m) PROVE Gathered(w) /\ OnItsWay(w)
    BY <1>0, <1>1, <1>3, <2>1
       DEF Gathered, OnItsWay, Inputs, Credentialed, Listing, Chosen
  <2> QED BY <1>0, <1>3, <2>1, StayAtRest DEF RestSteps
<1>4. CASE m.models # None /\ Stay([m EXCEPT !.model = m.models, !.step = "review"])
  <2> DEFINE w == [m EXCEPT !.model = m.models, !.step = "review"]
  <2>0. m.models \in InputSet \cup {None, Typed} BY <1>1 DEF Wizard
  <2>1. w \in Wizard BY <1>1, <1>2, <2>0, Zenon DEF Wizard
  <2>2. /\ SameSave(w, m) /\ w.flow = m.flow /\ w.step = "review"
        /\ w.models = m.models /\ w.provider = m.provider /\ w.token = m.token
        /\ w.settings = m.settings /\ w.url = m.url /\ w.model = m.models
    BY <1>1, Zenon DEF Wizard, SameSave
  <2>3. Stay(w) BY <1>4
  <2> HIDE DEF w
  <2> QED BY <1>3, <1>4, <2>1, <2>2, <2>3
<1>5. CASE Stay([m EXCEPT !.model = Typed, !.manual = FALSE, !.step = "review"])
  <2> DEFINE w == [m EXCEPT !.model = Typed, !.manual = FALSE, !.step = "review"]
  <2>1. w \in Wizard BY <1>1, <1>2, Zenon DEF Wizard
  <2>2. /\ SameSave(w, m) /\ w.flow = m.flow /\ w.step = "review"
        /\ w.models = m.models /\ w.provider = m.provider /\ w.token = m.token
        /\ w.settings = m.settings /\ w.url = m.url /\ w.model = Typed
    BY <1>1, Zenon DEF Wizard, SameSave
  <2>3. Stay(w) BY <1>5
  <2> HIDE DEF w
  <2> QED BY <1>3, <2>1, <2>2, <2>3
<1>6. CASE Stay([m EXCEPT !.manual = TRUE]) BY <1>0, <1>6, TypingKeeps
<1> QED BY <1>4, <1>5, <1>6 DEF SelectModel, EnterModel

LEMMA KeepsBack ==
  ASSUME OnboardingInv, Back
  PROVE  Carries
<1> DEFINE To(s) == [m EXCEPT !.step = s]
<1>1. CASE /\ Key("enterAPIKey")
           /\ \E s \in {"anthropicAuthChoice", "selectProvider"} : Stay(To(s))
  <2>1. PICK s \in {"anthropicAuthChoice", "selectProvider"} : Stay(To(s)) BY <1>1
  <2>2. page = "wizard" /\ m.step = "enterAPIKey" BY <1>1 DEF Key
  <2> QED BY <2>1, <2>2, BackTo DEF RestSteps
<1>2. CASE /\ Key("enterSettings")
           /\ \/ m.provider = "ollama" /\ Stay(To("ollamaChoice"))
              \/ \E s \in {"enterAPIKey", "selectProvider"} : Stay(To(s))
  <2>1. PICK s \in {"ollamaChoice", "enterAPIKey", "selectProvider"} :
          Stay(To(s)) /\ (s = "ollamaChoice" => m.provider = "ollama")
    BY <1>2
  <2>2. page = "wizard" /\ m.step = "enterSettings" BY <1>2 DEF Key
  <2> QED BY <2>1, <2>2, BackTo DEF RestSteps
<1>3. CASE /\ Key("enterBaseURL")
           /\ \E s \in {"enterAPIKey", "selectProvider"} : Stay(To(s))
  <2>1. PICK s \in {"enterAPIKey", "selectProvider"} : Stay(To(s)) BY <1>3
  <2>2. page = "wizard" /\ m.step = "enterBaseURL" BY <1>3 DEF Key
  <2> QED BY <2>1, <2>2, BackTo DEF RestSteps
<1>4. CASE Key("enterBaseURL") /\ Stay(Settings(m, "enterBaseURL"))
  <2>0. page = "wizard" /\ m.step = "enterBaseURL" BY <1>4 DEF Key
  <2>1. m \in Wizard /\ m.provider \in Providers BY <2>0, Underway
  <2> DEFINE w == Settings(m, "enterBaseURL")
  <2>2. /\ w \in Wizard /\ SameSave(w, m) /\ SameGathered(w, m)
        /\ w.flow = m.flow /\ w.step = "enterSettings" /\ w.models = m.models
        /\ w.next = "enterBaseURL"
    BY <2>1, ToSettings
  <2>3. ASSUME Gathered(m), OnItsWay(m) PROVE Gathered(w) /\ OnItsWay(w)
    BY <2>0, <2>1, <2>2, <2>3
       DEF SameGathered, Gathered, OnItsWay, Credentialed, Listing, Chosen
  <2>4. w.provider = m.provider BY <2>2 DEF SameGathered
  <2> QED BY <1>4, <2>0, <2>2, <2>3, <2>4, StayAtRest DEF RestSteps
<1>5. CASE /\ Key("selectModel")
           /\ \/ Stay(To("selectProvider")) \/ Stay(To("enterBaseURL"))
  <2>1. PICK s \in {"enterBaseURL", "selectProvider"} : Stay(To(s)) BY <1>5
  <2>2. page = "wizard" /\ m.step = "selectModel" BY <1>5 DEF Key
  <2> QED BY <2>1, <2>2, BackTo DEF RestSteps, Credentialed
<1>6. CASE Key("selectModel") /\ Stay([m EXCEPT !.manual = FALSE])
  BY <1>6, TypingKeeps DEF Key
<1>7. CASE /\ Key("review")
           /\ Stay(IF External(m.provider) THEN To("selectProvider") ELSE To("selectModel"))
  <2>1. PICK s \in {"selectProvider", "selectModel"} :
          Stay(To(s)) /\ (External(m.provider) => s = "selectProvider")
    <3>1. CASE External(m.provider) BY <1>7, <3>1
    <3>2. CASE ~External(m.provider) BY <1>7, <3>2
    <3> QED BY <3>1, <3>2
  <2>2. page = "wizard" /\ m.step = "review" BY <1>7 DEF Key
  <2> QED BY <2>1, <2>2, BackTo DEF RestSteps, Credentialed, Listing
<1>8. \/ /\ Key("enterAPIKey")
         /\ Stay(To("anthropicAuthChoice")) \/ Stay(To("selectProvider"))
      \/ /\ Key("enterSettings")
         /\ \/ m.provider = "ollama" /\ Stay(To("ollamaChoice"))
            \/ Stay(To("enterAPIKey")) \/ Stay(To("selectProvider"))
      \/ /\ Key("enterBaseURL")
         /\ \/ Stay(Settings(m, "enterBaseURL"))
            \/ Stay(To("enterAPIKey")) \/ Stay(To("selectProvider"))
      \/ /\ Key("selectModel")
         /\ \/ Stay([m EXCEPT !.manual = FALSE])
            \/ Stay(To("selectProvider")) \/ Stay(To("enterBaseURL"))
      \/ /\ Key("review")
         /\ Stay(IF External(m.provider) THEN To("selectProvider") ELSE To("selectModel"))
  BY DEF Back
<1> HIDE DEF To
<1> QED BY <1>1, <1>2, <1>3, <1>4, <1>5, <1>6, <1>7, <1>8

LEMMA KeepsBackFromCommand ==
  ASSUME OnboardingInv, BackFromCommand
  PROVE  Carries
<1>0. page = "wizard" /\ MayAbandon BY Zenon DEF BackFromCommand, Key
<1>1. PICK s \in {"selectProvider", "ollamaChoice"} :
        /\ Stay([Abandon(m) EXCEPT !.step = s])
        /\ s = "ollamaChoice" => m.step = "ollamaSetup"
        /\ m.step \notin {"selectProvider", "testConnection"}
  <2>1. CASE /\ \E s \in {"anthropicAuthChoice", "browserAuth", "ollamaChoice",
                          "fetchModels", "pullModel", "cliSetup"} : Key(s)
             /\ Stay(Abandon(m))
    <3>1. m \in Wizard BY DEF OnboardingInv, StateOK, WizardOK
    <3>2. Abandon(m).step = "selectProvider" /\ "selectProvider" \in Steps
      BY <3>1, Zenon DEF Wizard, Abandon, Steps
    <3>3. [Abandon(m) EXCEPT !.step = "selectProvider"] = Abandon(m)
      BY <3>1, Zenon DEF Wizard, Abandon
    <3>4. m.step \notin {"selectProvider", "testConnection"} BY <2>1 DEF Key
    <3> QED BY <2>1, <3>3, <3>4
  <2>2. CASE Key("ollamaSetup") /\ Stay([Abandon(m) EXCEPT !.step = "ollamaChoice"])
    BY <2>2 DEF Key
  <2> QED BY <2>1, <2>2 DEF BackFromCommand
<1>2. m \in Wizard /\ m.flow \in Nat /\ m.flow + 1 \in Nat /\ m.provider \in Providers
  BY <1>1, Underway
<1> DEFINE w == [Abandon(m) EXCEPT !.step = s]
<1>3. s \in Steps BY DEF Steps
<1>4. w \in Wizard BY <1>2, <1>3, Zenon DEF Wizard, Abandon
<1>5. /\ SameSave(w, m) /\ SameGathered(w, m) /\ w.flow = m.flow + 1 /\ w.step = s
  BY <1>2, Zenon DEF Wizard, Abandon, SameSave, SameGathered
<1>6. Stay(w) BY <1>1
<1> HIDE DEF w
<1>7. SetupStep(w) BY <1>0, <1>2, <1>4, <1>5 DEF SetupStep, SameGathered
<1>8. ASSUME ~foreign PROVE Undisturbed(w)
  <2>1. Gathered(m) /\ OnItsWay(m) BY <1>0, <1>8 DEF OnboardingInv, InOrder
  <2>2. s = "ollamaChoice" => m.provider = "ollama" BY <1>1, <2>1 DEF OnItsWay
  <2>3. m.provider \in ModelManual => w.models = None
    <3>1. w.models = m.models BY <1>2, Zenon DEF Wizard, Abandon, w
    <3> QED BY <2>1, <3>1 DEF Gathered
  <2>4. External(m.provider) => w.models = None
    <3>1. w.models = m.models BY <1>2, Zenon DEF Wizard, Abandon, w
    <3> QED BY <1>2, <2>1, <3>1 DEF OnItsWay
  <2>5. External(m.provider) => s = "selectProvider"
    BY <1>2, <2>2, Catalog
  <2>6. Gathered(w) /\ OnItsWay(w)
    BY <1>2, <1>5, <2>1, <2>2, <2>3, <2>4, <2>5
       DEF SameGathered, Gathered, OnItsWay, Credentialed, Listing, Chosen
  <2>7. \A c \in calls : ~Owned(c, w) BY <1>0, <1>5, NextFlow DEF SameSave
  <2> QED BY <1>1, <1>8, <2>6, <2>7, SettledElsewhere DEF Undisturbed
<1> QED BY <1>0, <1>6, <1>7, <1>8, StayKeeps

-----------------------------------------------------------------------------
(***************************************************************************)
(* Answers before a save.                                                  *)
(***************************************************************************)
(* A wizard that counts a call's flow has a provider.                      *)
LEMMA Answering ==
  ASSUME OnboardingInv, NEW c \in calls, Current(c)
  PROVE  /\ page = "wizard" /\ m \in Wizard /\ m.flow > 0 /\ m.flow \in Nat /\ m.id \in Nat
         /\ m.provider \in Providers /\ CallOK(c)
BY DEF OnboardingInv, StateOK, CallOK, Current, WizardOK, Wizard

(* The answer this wizard waits for leaves it at rest.                     *)
LEMMA Awaited ==
  ASSUME OnboardingInv, ~foreign, NEW c \in calls, Current(c), c.id = m.id
  PROVE  /\ Own(c) /\ Waits(m, c) /\ Gathered(m) /\ OnItsWay(m)
         /\ \A d \in calls \ {c} : ~Own(d)
BY DEF OnboardingInv, InOrder, OneAnswer, Own, Current

LEMMA AnswerKeeps ==
  ASSUME OnboardingInv, NEW c \in calls, c.kind \in Setup, Current(c), Noted(c),
         UNCHANGED <<app, records>>,
         NEW w, SetupStep(w), w.flow = m.flow, m' = w,
         NEW new, calls' = (calls \ {c}) \cup new,
         \A d \in new : CallOK(d) /\ Owned(d, w) /\ d.kind # "test",
         \A d, e \in new : d = e,
         Waits(m, c) /\ Gathered(m) /\ OnItsWay(m) =>
           Gathered(w) /\ OnItsWay(w) /\ \A d \in new : Waits(w, d)
  PROVE  Carries
<1>1. page = "wizard" BY Answering
<1>2. Sound(w, new) BY SetupSound DEF Sound
<1>3. foreign' \in BOOLEAN /\ (foreign => foreign')
  BY DEF Noted, OnboardingInv, StateOK
<1>4. Moves(w, calls \ {c}, new)
  BY <1>1, <1>3 DEF Noted, Moves, MovesTo, app, records, OnboardingInv, StateOK
<1>5. ASSUME ~foreign' PROVE Orderly(w, calls \ {c}, new)
  <2>1. ~foreign /\ c.id = m.id BY <1>5 DEF Noted, OnboardingInv, StateOK
  <2>2. Waits(m, c) /\ Gathered(m) /\ OnItsWay(m) /\ \A d \in calls \ {c} : ~Own(d)
    BY <2>1, Awaited
  <2>3. m.step # "testConnection" BY <2>2 DEF Waits, Setup
  <2>4. AllSettled BY <2>1, <2>3, SettledElsewhere
  <2>5. InOrder BY <1>1, <2>1 DEF OnboardingInv
  <2>6. KnowsSaved(w) /\ (w.adding => w.testing) /\ w.saved = m.saved /\ w.id = m.id
    BY <2>5 DEF InOrder, KnowsSaved, SetupStep, SameSave
  <2>7. \A d \in calls \ {c} : ~Owned(d, w) BY <2>2, <2>6 DEF Own, Owned
  <2> QED BY <2>2, <2>4, <2>6, <2>7 DEF Orderly, Consistent, AllSettled
<1> QED BY <1>2, <1>4, <1>5, MoveKeeps

(* Its special case for an answer that starts nothing.                     *)
LEMMA QuietKeeps ==
  ASSUME OnboardingInv, NEW c \in calls, c.kind \in Setup, Current(c),
         UNCHANGED <<app, records>>,
         NEW w, SetupStep(w), w.flow = m.flow, m' = Quiet(w).wizard, Ended(c, Quiet(w).calls),
         Waits(m, c) /\ Gathered(m) /\ OnItsWay(m) => Gathered(w) /\ OnItsWay(w)
  PROVE  Carries
<1> DEFINE new == {}
<1>1. m' = w /\ Noted(c) /\ calls' = (calls \ {c}) \cup new BY DEF Quiet, Ended
<1>2. \A d \in new : FALSE OBVIOUS
<1> HIDE DEF new
<1> QED BY <1>1, <1>2, AnswerKeeps

(* And for one that enters a step, with its command.                       *)
LEMMA StartingKeeps ==
  ASSUME OnboardingInv, NEW c \in calls, c.kind \in Setup, Current(c),
         UNCHANGED <<app, records>>,
         NEW w, SetupStep(w), w.flow = m.flow, w.step # "selectProvider",
         m' = Starting(w).wizard, Ended(c, Starting(w).calls),
         Waits(m, c) /\ Gathered(m) /\ OnItsWay(m) => Gathered(w) /\ OnItsWay(w)
  PROVE  Carries
<1> DEFINE new == Started(w)
<1>1. m' = w /\ Noted(c) /\ calls' = (calls \ {c}) \cup new BY DEF Starting, Ended
<1>2. WizardOK(w) BY SetupSound DEF Sound
<1>3. /\ \A d \in new : CallOK(d) /\ Owned(d, w) /\ Waits(w, d) /\ d.kind # "test"
      /\ \A d, e \in new : d = e
  BY <1>2, StartedWaits
<1> HIDE DEF new
<1> QED BY <1>1, <1>3, AnswerKeeps

(* The same wizard at another step, after a login or a list.               *)
LEMMA FieldStep ==
  ASSUME NEW w, w \in Wizard, SameSave(w, m), w.flow = m.flow, m.flow > 0,
         w.provider = m.provider, m.provider \in Providers
  PROVE  SetupStep(w)
BY DEF SetupStep

(* A login that is refused, or that there is none of.                      *)
LEMMA RefusedKeeps ==
  ASSUME OnboardingInv, NEW c \in calls, c.kind \in {"code", "auth"}, Current(c),
         UNCHANGED <<app, records>>,
         NEW s \in {"browserAuth", "enterAPIKey"},
         NEW a, a = Quiet([[m EXCEPT !.authing = FALSE] EXCEPT !.step = s]),
         m' = a.wizard, Ended(c, a.calls)
  PROVE  Carries
<1> DEFINE w == [[m EXCEPT !.authing = FALSE] EXCEPT !.step = s]
<1>1. m \in Wizard /\ m.flow > 0 /\ m.provider \in Providers BY Answering
<1>2. s \in Steps BY DEF Steps
<1>3. w \in Wizard BY <1>1, <1>2, Zenon DEF Wizard
<1>4. /\ SameSave(w, m) /\ SameGathered(w, m) /\ w.flow = m.flow
      /\ w.step = s /\ w.models = m.models
  BY <1>1, Zenon DEF Wizard, SameSave, SameGathered
<1>5. a = Quiet(w) OBVIOUS
<1> HIDE DEF w
<1>6. SetupStep(w) BY <1>1, <1>3, <1>4, FieldStep DEF SameGathered
<1>7. ASSUME Waits(m, c), Gathered(m), OnItsWay(m) PROVE Gathered(w) /\ OnItsWay(w)
  <2>1. m.step = "browserAuth" BY <1>7 DEF Waits
  <2> QED
    BY <1>1, <1>4, <1>7, <2>1
       DEF SameGathered, Gathered, OnItsWay, Credentialed, Listing, Chosen
<1>8. m' = Quiet(w).wizard /\ Ended(c, Quiet(w).calls) BY <1>5
<1> QED BY <1>4, <1>6, <1>7, <1>8, QuietKeeps DEF Setup

LEMMA KeepsCode ==
  ASSUME OnboardingInv, NEW c \in calls, c.kind = "code", Current(c),
         UNCHANGED <<app, records>>,
         NEW a \in Answers(c), m' = a.wizard, Ended(c, a.calls)
  PROVE  Carries
<1> DEFINE s == IF Auth[m.provider] = "openai_chatgpt" THEN "browserAuth" ELSE "enterAPIKey"
           d == Call(m, "auth", m.provider)
<1>1. \/ a = Quiet([[m EXCEPT !.authing = FALSE] EXCEPT !.step = s])
      \/ a = [wizard |-> m, calls |-> {d}]
  BY DEF Answers
<1>2. CASE a = Quiet([[m EXCEPT !.authing = FALSE] EXCEPT !.step = s])
  <2>1. s \in {"browserAuth", "enterAPIKey"} OBVIOUS
  <2> HIDE DEF s
  <2> QED BY <1>2, <2>1, RefusedKeeps
<1>3. CASE a = [wizard |-> m, calls |-> {d}]
  <2>1. m' = m /\ Noted(c) /\ calls' = (calls \ {c}) \cup {d} BY <1>3 DEF Ended
  <2>2. CallOK(d) /\ Owned(d, m) /\ d.kind # "test"
    BY Answering DEF Call, CallOK, Owned, Kinds, Setup, About
  <2>3. Waits(m, c) => Waits(m, d) BY DEF Waits, Call
  <2> DEFINE new == {d}
  <2>4. /\ \A e \in new : CallOK(e) /\ Owned(e, m) /\ e.kind # "test"
        /\ \A e, f \in new : e = f
        /\ Waits(m, c) => \A e \in new : Waits(m, e)
    <3> HIDE DEF d
    <3> QED BY <2>2, <2>3
  <2>5. calls' = (calls \ {c}) \cup new BY <2>1
  <2> HIDE DEF d, new
  <2>6. SetupStep(m) BY Itself
  <2>7. c.kind \in Setup BY DEF Setup
  <2> QED BY <2>1, <2>4, <2>5, <2>6, <2>7, AnswerKeeps
<1> QED BY <1>1, <1>2, <1>3

LEMMA KeepsAuth ==
  ASSUME OnboardingInv, NEW c \in calls, c.kind = "auth", Current(c),
         UNCHANGED <<app, records>>,
         NEW a \in Answers(c), m' = a.wizard, Ended(c, a.calls)
  PROVE  Carries
<1> DEFINE s == IF Auth[m.provider] = "openai_chatgpt" THEN "browserAuth" ELSE "enterAPIKey"
           W(v) == [[m EXCEPT !.authing = FALSE] EXCEPT !.token = Token(c.about, v)]
<1>1. \/ a = Quiet([[m EXCEPT !.authing = FALSE] EXCEPT !.step = s])
      \/ \E v \in Values : a = Starting(AfterCredential(W(v)))
  BY DEF Answers
<1>2. CASE a = Quiet([[m EXCEPT !.authing = FALSE] EXCEPT !.step = s])
  <2>1. s \in {"browserAuth", "enterAPIKey"} OBVIOUS
  <2> HIDE DEF s
  <2> QED BY <1>2, <2>1, RefusedKeeps
<1>3. ASSUME NEW v \in Values, a = Starting(AfterCredential(W(v))) PROVE Carries
  <2>1. m \in Wizard /\ m.flow > 0 /\ m.provider \in Providers /\ CallOK(c) BY Answering
  <2> DEFINE t == Token(c.about, v)
             w == [[m EXCEPT !.authing = FALSE] EXCEPT !.token = t]
  <2>2. t \in TokenSet /\ t.provider = c.about /\ t # None
    <3>1. c.about \in Providers BY <2>1 DEF CallOK, About
    <3>2. t \in TokenSet /\ t.provider = c.about BY <3>1 DEF Token, TokenSet
    <3> QED BY <3>2, OnboardingAssumption DEF TokenSet
  <2> HIDE DEF t
  <2>3. w \in Wizard BY <2>1, <2>2, Zenon DEF Wizard
  <2>4. /\ SameSave(w, m) /\ w.flow = m.flow /\ w.provider = m.provider
        /\ w.token = t /\ w.models = m.models
    BY <2>1, Zenon DEF Wizard, SameSave
  <2>5. a = Starting(AfterCredential(w)) BY <1>3 DEF t
  <2> HIDE DEF w
  <2>6. SetupStep(w) BY <2>1, <2>3, <2>4, FieldStep
  <2> DEFINE r == AfterCredential(w)
  <2>7. SetupStep(r) /\ r.flow = m.flow BY <2>1, <2>4, <2>6, CredentialStep
  <2>8. r.step # "selectProvider"
    BY <2>1, <2>3, <2>4, AfterCredentials, AfterSettings, Zenon
  <2>9. ASSUME Waits(m, c), Gathered(m), OnItsWay(m) PROVE Gathered(r) /\ OnItsWay(r)
    <3>1. m.step = "browserAuth" /\ c.about = m.provider BY <2>9 DEF Waits
    <3>2. ~External(m.provider) BY <2>1, <2>9, <3>1 DEF OnItsWay, Chosen
    <3>3. Ready(w) BY <2>1, <2>2, <2>3, <2>4, <2>9, <3>1, <3>2 DEF Ready, Gathered
    <3> QED BY <3>3, CredentialFits
  <2>10. m' = Starting(r).wizard /\ Ended(c, Starting(r).calls) BY <2>5
  <2> HIDE DEF r
  <2> QED BY <2>7, <2>8, <2>9, <2>10, StartingKeeps DEF Setup
<1> QED BY <1>1, <1>2, <1>3

LEMMA KeepsModels ==
  ASSUME OnboardingInv, NEW c \in calls, c.kind = "models", Current(c),
         UNCHANGED <<app, records>>,
         NEW a \in Answers(c), m' = a.wizard, Ended(c, a.calls)
  PROVE  Carries
<1> DEFINE listed == [m EXCEPT !.step = "selectModel"]
           choose == [m EXCEPT !.step = "pullModel", !.pulling = FALSE]
           W1 == [listed EXCEPT !.models = c.about]
           W2 == [listed EXCEPT !.models = None, !.manual = @ \/ ~External(m.provider)]
           W3 == [choose EXCEPT !.models = None]
<1>1. \/ a = Quiet(W1) \/ a = Quiet(W2)
      \/ a = Quiet(W3) /\ m.provider = "ollama"
  BY DEF Answers
<1>2. m \in Wizard /\ m.flow > 0 /\ m.provider \in Providers /\ CallOK(c) BY Answering
<1>3. "selectModel" \in Steps /\ "pullModel" \in Steps BY DEF Steps
<1>4. ASSUME NEW w, w \in Wizard, SameSave(w, m), SameGathered(w, m), w.flow = m.flow,
             \/ w.step = "selectModel" /\ w.models \in {None, c.about}
             \/ w.step = "pullModel" /\ w.models = None /\ m.provider = "ollama",
             a = Quiet(w)
      PROVE  Carries
  <2>1. SetupStep(w) BY <1>2, <1>4, FieldStep DEF SameGathered
  <2>2. ASSUME Waits(m, c), Gathered(m), OnItsWay(m) PROVE Gathered(w) /\ OnItsWay(w)
    <3>1. m.step = "fetchModels" /\ c.about = Inputs(m) BY <2>2 DEF Waits
    <3>2. Inputs(w) = Inputs(m) BY <1>4 DEF SameGathered, Inputs
    <3>3. ~External(m.provider) /\ m.provider \notin ModelManual
      BY <1>2, <2>2, <3>1 DEF Gathered, OnItsWay, Chosen
    <3> QED
      BY <1>2, <1>4, <2>2, <3>1, <3>2, <3>3
         DEF SameGathered, Gathered, OnItsWay, Credentialed, Listing, Chosen
  <2> QED BY <1>4, <2>1, <2>2, QuietKeeps DEF Setup
<1>5. CASE a = Quiet(W1)
  <2>0. c.about \in InputSet \cup {None} BY <1>2 DEF CallOK, About
  <2>1. W1 \in Wizard BY <1>2, <1>3, <2>0, Zenon DEF Wizard
  <2>2. /\ SameSave(W1, m) /\ SameGathered(W1, m) /\ W1.flow = m.flow
        /\ W1.step = "selectModel" /\ W1.models = c.about
    BY <1>2, Zenon DEF Wizard, SameSave, SameGathered
  <2> HIDE DEF W1
  <2> QED BY <1>4, <1>5, <2>1, <2>2
<1>6. CASE a = Quiet(W2)
  <2> DEFINE u == [listed EXCEPT !.models = None]
             b == u.manual \/ ~External(m.provider)
  <2>0. u \in Wizard /\ W2 = [u EXCEPT !.manual = b] /\ b \in BOOLEAN
    BY <1>2, <1>3, Zenon DEF Wizard
  <2>1. W2 \in Wizard
    <3> HIDE DEF u, b, W2
    <3> QED BY <2>0, Zenon DEF Wizard
  <2>2. /\ SameSave(W2, m) /\ SameGathered(W2, m) /\ W2.flow = m.flow
        /\ W2.step = "selectModel" /\ W2.models = None
    BY <1>2, Zenon DEF Wizard, SameSave, SameGathered
  <2> HIDE DEF W2
  <2> QED BY <1>4, <1>6, <2>1, <2>2
<1>7. CASE a = Quiet(W3) /\ m.provider = "ollama"
  <2>1. W3 \in Wizard BY <1>2, <1>3, Zenon DEF Wizard
  <2>2. /\ SameSave(W3, m) /\ SameGathered(W3, m) /\ W3.flow = m.flow
        /\ W3.step = "pullModel" /\ W3.models = None
    BY <1>2, Zenon DEF Wizard, SameSave, SameGathered
  <2> HIDE DEF W3
  <2> QED BY <1>4, <1>7, <2>1, <2>2
<1> QED BY <1>1, <1>5, <1>6, <1>7

LEMMA KeepsCLI ==
  ASSUME OnboardingInv, NEW c \in calls, c.kind = "cli", Current(c),
         UNCHANGED <<app, records>>,
         NEW a \in Answers(c), m' = a.wizard, Ended(c, a.calls)
  PROVE  Carries
<1> DEFINE w == [m EXCEPT !.cli = c.about, !.step = "review"]
<1>1. a = Quiet(m) \/ a = Quiet(w) BY DEF Answers
<1>2. m \in Wizard /\ m.flow > 0 /\ m.provider \in Providers /\ CallOK(c) BY Answering
<1>3. CASE a = Quiet(m) BY <1>3, Itself, QuietKeeps DEF Setup
<1>4. CASE a = Quiet(w)
  <2>0. "review" \in Steps /\ c.about \in Types BY <1>2 DEF Steps, CallOK, About, Types
  <2>1. w \in Wizard BY <1>2, <2>0, Zenon DEF Wizard
  <2>2. /\ SameSave(w, m) /\ w.flow = m.flow /\ w.step = "review" /\ w.cli = c.about
        /\ w.provider = m.provider /\ w.token = m.token /\ w.model = m.model
        /\ w.models = m.models
    BY <1>2, Zenon DEF Wizard, SameSave
  <2> HIDE DEF w
  <2>3. SetupStep(w) BY <1>2, <2>1, <2>2, FieldStep
  <2>4. ASSUME Waits(m, c), Gathered(m), OnItsWay(m) PROVE Gathered(w) /\ OnItsWay(w)
    <3>1. m.step = "cliSetup" /\ c.about = m.provider BY <2>4 DEF Waits
    <3>2. External(m.provider) /\ m.models = None /\ m.model = None
      BY <1>2, <2>4, <3>1 DEF OnItsWay
    <3>3. m.provider \notin CredentialRequired BY <1>2, <3>2, Catalog
    <3> QED
      BY <2>2, <2>4, <3>1, <3>2, <3>3
         DEF Gathered, OnItsWay, Credentialed, Listing, Chosen
  <2> QED BY <1>4, <2>2, <2>3, <2>4, QuietKeeps DEF Setup
<1> QED BY <1>1, <1>3, <1>4

LEMMA KeepsOllama ==
  ASSUME OnboardingInv, NEW c \in calls, c.kind = "ollama", Current(c),
         UNCHANGED <<app, records>>,
         NEW a \in Answers(c), m' = a.wizard, Ended(c, a.calls)
  PROVE  Carries
<1> DEFINE w == [m EXCEPT !.step = "pullModel", !.pulling = FALSE]
<1>1. a = Quiet(m) \/ a = Quiet(w)
  <2>1. Answers(c) = {Quiet(m)} \cup (IF m.step = "ollamaSetup" THEN {Quiet(w)} ELSE {})
    BY DEF Answers
  <2> HIDE DEF w
  <2> QED BY <2>1
<1>2. m \in Wizard /\ m.flow > 0 /\ m.provider \in Providers BY Answering
<1>3. CASE a = Quiet(m) BY <1>3, Itself, QuietKeeps DEF Setup
<1>4. CASE a = Quiet(w)
  <2>0. "pullModel" \in Steps BY DEF Steps
  <2>1. w \in Wizard BY <1>2, <2>0, Zenon DEF Wizard
  <2>2. /\ SameSave(w, m) /\ SameGathered(w, m) /\ w.flow = m.flow
        /\ w.step = "pullModel" /\ w.models = m.models
    BY <1>2, Zenon DEF Wizard, SameSave, SameGathered
  <2> HIDE DEF w
  <2>3. SetupStep(w) BY <1>2, <2>1, <2>2, FieldStep DEF SameGathered
  <2>4. ASSUME Waits(m, c), Gathered(m), OnItsWay(m) PROVE Gathered(w) /\ OnItsWay(w)
    <3>1. m.step = "ollamaSetup" /\ m.provider = "ollama" BY <2>4 DEF Waits, OnItsWay
    <3>2. ~External(m.provider) /\ m.provider \notin CredentialRequired \cup ModelManual
      BY <1>2, <3>1, Catalog
    <3> QED
      BY <2>2, <2>4, <3>1, <3>2
         DEF SameGathered, Gathered, OnItsWay, Credentialed, Listing, Chosen
  <2> QED BY <1>4, <2>2, <2>3, <2>4, QuietKeeps DEF Setup
<1> QED BY <1>1, <1>3, <1>4

LEMMA KeepsPull ==
  ASSUME OnboardingInv, NEW c \in calls, c.kind = "pull", Current(c),
         UNCHANGED <<app, records>>,
         NEW a \in Answers(c), m' = a.wizard, Ended(c, a.calls)
  PROVE  Carries
<1> DEFINE pulled == [m EXCEPT !.pulling = FALSE]
           w == [pulled EXCEPT !.flow = @ + 1, !.step = "selectProvider"]
<1>1. \/ a = Quiet(pulled) \/ a = Starting(FetchModels(pulled))
      \/ (c.id # m.id \/ Quitting) /\ MayAbandon /\ a = Quiet(w)
  <2>1. Answers(c) = {Quiet(pulled), Starting(FetchModels(pulled))}
                     \cup (IF (c.id # m.id \/ Quitting) /\ MayAbandon
                           THEN {Quiet(w)} ELSE {})
    BY DEF Answers
  <2> HIDE DEF pulled, w
  <2> QED BY <2>1
<1>2. /\ m \in Wizard /\ m.flow > 0 /\ m.flow \in Nat /\ m.flow + 1 \in Nat
      /\ m.provider \in Providers
  BY Answering
<1>3. pulled \in Wizard BY <1>2, Zenon DEF Wizard
<1>4. /\ SameSave(pulled, m) /\ SameGathered(pulled, m) /\ pulled.flow = m.flow
      /\ pulled.step = m.step /\ pulled.models = m.models
  BY <1>2, Zenon DEF Wizard, SameSave, SameGathered
<1>5. SetupStep(pulled)
  <2> HIDE DEF pulled
  <2> QED BY <1>2, <1>3, <1>4, FieldStep DEF SameGathered
<1>6. ASSUME Waits(m, c), Gathered(m), OnItsWay(m)
      PROVE  /\ m.step = "pullModel" /\ m.provider = "ollama" /\ ~External(m.provider)
             /\ m.provider \notin CredentialRequired \cup ModelManual
  <2>1. m.step = "pullModel" /\ m.provider = "ollama" BY <1>6 DEF Waits, OnItsWay
  <2> QED BY <1>2, <2>1, Catalog
<1>7. CASE a = Quiet(pulled)
  <2> HIDE DEF pulled
  <2>1. ASSUME Waits(m, c), Gathered(m), OnItsWay(m)
        PROVE  Gathered(pulled) /\ OnItsWay(pulled)
    BY <1>4, <1>6, <2>1
       DEF SameGathered, Gathered, OnItsWay, Credentialed, Listing, Chosen
  <2> QED BY <1>4, <1>5, <1>7, <2>1, QuietKeeps DEF Setup
<1>8. CASE a = Starting(FetchModels(pulled))
  <2> HIDE DEF pulled
  <2> DEFINE r == FetchModels(pulled)
  <2>1. /\ r \in Wizard /\ SameSave(r, pulled) /\ SameGathered(r, pulled)
        /\ r.flow = pulled.flow /\ r.step = "fetchModels" /\ r.models = None
    BY <1>3, ToFetch
  <2>2. SetupStep(r) /\ r.flow = m.flow
    BY <1>2, <1>4, <2>1 DEF SetupStep, SameSave, SameGathered
  <2>3. ASSUME Waits(m, c), Gathered(m), OnItsWay(m)
        PROVE  Gathered(r) /\ OnItsWay(r)
    BY <1>4, <1>6, <2>1, <2>3
       DEF SameGathered, Gathered, OnItsWay, Credentialed, Listing, Chosen
  <2> QED BY <1>8, <2>1, <2>2, <2>3, StartingKeeps DEF Setup
<1>9. CASE MayAbandon /\ a = Quiet(w)
  <2>0. "selectProvider" \in Steps BY DEF Steps
  <2>1. w \in Wizard
    <3>1. pulled.flow + 1 \in Nat BY <1>2, <1>4
    <3> HIDE DEF pulled
    <3> QED BY <1>3, <2>0, <3>1, Zenon DEF Wizard
  <2>2. /\ SameSave(w, pulled) /\ SameGathered(w, pulled) /\ w.flow = pulled.flow + 1
        /\ w.step = "selectProvider" /\ w.models = pulled.models
    <3> HIDE DEF pulled
    <3> QED BY <1>3, Zenon DEF Wizard, SameSave, SameGathered
  <2>3. SetupStep(w)
    <3> HIDE DEF pulled, w
    <3> QED BY <1>2, <1>4, <1>9, <2>1, <2>2 DEF SetupStep, SameSave, SameGathered
  <2> HIDE DEF pulled, w
  <2> DEFINE new == {}
  <2>4. Moves(w, calls \ {c}, new)
    BY <1>9, Answering
       DEF Moves, MovesTo, Quiet, Ended, Noted, app, records, OnboardingInv, StateOK
  <2>5. Sound(w, new) BY <2>3, SetupSound
  <2>6. ASSUME ~foreign' PROVE Orderly(w, calls \ {c}, new)
    <3>1. ~foreign /\ c.id = m.id BY <1>9, <2>6 DEF Ended, Noted, OnboardingInv, StateOK
    <3>2. Waits(m, c) /\ Gathered(m) /\ OnItsWay(m) BY <3>1, Awaited
    <3>3. Gathered(w) /\ OnItsWay(w)
      BY <1>4, <1>6, <2>2, <3>2
         DEF SameGathered, Gathered, OnItsWay, Credentialed, Listing, Chosen
    <3>4. \A d \in calls : ~Owned(d, w)
      BY <1>4, <2>2, NextFlow, Answering DEF SameSave
    <3>5. AllSettled BY <1>6, <3>1, <3>2, SettledElsewhere
    <3>6. Orderly(w, calls, {})
      BY <2>3, <3>1, <3>3, <3>4, <3>5, SetupOrderly, Answering DEF Undisturbed
    <3> QED BY <3>6 DEF Orderly, Consistent, new
  <2> HIDE DEF new
  <2> QED BY <2>4, <2>5, <2>6, MoveKeeps
<1> QED BY <1>1, <1>7, <1>8, <1>9

LEMMA KeepsAnswer ==
  ASSUME OnboardingInv, Answer
  PROVE  Carries
<1>1. PICK c \in calls : /\ c.kind \in Setup /\ Current(c)
                         /\ \E a \in Answers(c) : m' = a.wizard /\ Ended(c, a.calls)
                         /\ UNCHANGED <<app, records>>
  BY DEF Answer
<1>2. PICK a \in Answers(c) : m' = a.wizard /\ Ended(c, a.calls) BY <1>1
<1> QED
  BY <1>1, <1>2, KeepsCode, KeepsAuth, KeepsModels, KeepsCLI, KeepsOllama, KeepsPull
     DEF Setup

LEMMA KeepsIgnored ==
  ASSUME OnboardingInv, Ignored
  PROVE  Carries
<1>1. calls' \subseteq calls /\ UNCHANGED <<app, m, records, foreign, hurried>>
  BY DEF Ignored
<1>2. StateOK' /\ SavedOnRecord' /\ ReportIsTrue'
  BY <1>1 DEF app, records, OnboardingInv, StateOK, WizardOK, Past, RecordsOK,
              SavedOnRecord, OnRecord, ReportIsTrue
<1>3. (~foreign => MailIsTrue /\ NothingUnseen)'
  BY <1>1 DEF app, records, OnboardingInv, MailIsTrue, OnRecord, NothingUnseen, Moving,
              Submitted, Unused, Settled, Holds
<1>4. (~foreign /\ page = "wizard" => InOrder)'
  BY <1>1 DEF app, records, OnboardingInv, InOrder, Gathered, OnItsWay, Inputs, OneAnswer,
              Own, Waits, KnowsSaved, TestsSaved
<1> QED BY <1>1, <1>2, <1>3, <1>4 DEF OnboardingInv, Carries, app

-----------------------------------------------------------------------------
(***************************************************************************)
(* Opening and leaving the wizard.                                         *)
(***************************************************************************)
LEMMA FreshWizard ==
  ASSUME NEW i \in Nat, NEW n \in Nat, i <= MaxWizards, n <= MaxFlow
  PROVE  LET w == Fresh(i, n) IN
         /\ WizardOK(w)
         /\ w.id = i /\ w.spent = n /\ w.flow = 0 /\ w.step = "selectProvider"
         /\ w.provider = None /\ w.token = None /\ w.models = None /\ w.saved = None
         /\ ~w.adding /\ ~w.added /\ w.tested = "none"
<1> DEFINE w == Fresh(i, n)
<1>1. /\ w.id = i /\ w.spent = n /\ w.flow = 0 /\ w.step = "selectProvider"
      /\ w.provider = None /\ w.token = None /\ w.models = None /\ w.saved = None
      /\ ~w.adding /\ ~w.added /\ w.tested = "none" /\ ~w.unresolved
  BY DEF Fresh
<1>2. w \in Wizard
  BY DEF Fresh, Wizard, Types, Steps
<1>3. n + 0 = n OBVIOUS
<1> QED BY <1>1, <1>2, <1>3 DEF WizardOK

(* A fresh wizard has gathered nothing and waits for nothing.              *)
LEMMA FreshInOrder ==
  ASSUME NEW w, w.step = "selectProvider", w.provider = None, w.token = None,
         w.models = None, ~w.added, w.tested = "none"
  PROVE  Gathered(w) /\ OnItsWay(w) /\ KnowsSaved(w)
BY OnboardingAssumption
   DEF Gathered, OnItsWay, KnowsSaved, Credentialed, Listing, Chosen

(* What a message that is posted does: it is under way from then on.       *)
LEMMA Posted ==
  ASSUME OnboardingInv, NEW kind, NEW p, <<kind, p>> \in Letters, Post(kind, p)
  PROVE  /\ mail' \in [Letters -> Nat] /\ Moving'
         /\ MailIsTrue /\ (p # None => OnRecord(p)) =>
              \A l \in Letters : mail'[l] > 0 /\ l[2] # None => OnRecord(l[2])
<1>1. mail \in [Letters -> Nat] BY DEF OnboardingInv, StateOK
<1> DEFINE l0 == <<kind, p>>
<1>2. mail' = [mail EXCEPT ![l0] = @ + 1] /\ l0[2] = p BY DEF Post
<1> HIDE DEF l0
<1>3. l0 \in Letters BY DEF l0
<1>4. \A l \in Letters : mail[l] \in Nat BY <1>1
<1>5. mail' = [mail EXCEPT ![l0] = mail[l0] + 1] BY <1>2
<1>6. mail' \in [Letters -> Nat] BY <1>1, <1>3, <1>4, <1>5
<1>7. mail'[l0] > 0 /\ \A l \in Letters : l # l0 => mail'[l] = mail[l]
  BY <1>1, <1>3, <1>4, <1>5
<1>8. Moving' BY <1>3, <1>7 DEF Moving
<1>9. ASSUME MailIsTrue, p # None => OnRecord(p), NEW l \in Letters,
             mail'[l] > 0, l[2] # None
      PROVE  OnRecord(l[2])
  <2>1. CASE l = l0 BY <1>2, <1>9, <2>1
  <2>2. CASE l # l0 BY <1>7, <1>9, <2>2 DEF MailIsTrue
  <2> QED BY <2>1, <2>2
<1> QED BY <1>6, <1>8, <1>9

(* The kinds of messages. *)
LEMMA IsLetter ==
  ASSUME NEW kind \in {"open", "done", "cancelled", "quit", "exit"}, NEW p \in Types
  PROVE  <<kind, p>> \in Letters
BY DEF Letters

(* A key that asks for another page changes nothing but that it is asked.  *)
LEMMA AskKeeps ==
  ASSUME OnboardingInv, NEW kind \in {"open", "done", "cancelled", "quit", "exit"},
         NEW p \in Types, Ask(kind, p),
         ~foreign => AllSettled /\ (p # None => OnRecord(p))
  PROVE  Carries
<1>1. /\ Post(kind, p) /\ UNCHANGED <<page, known, m, calls, records, foreign>>
      /\ hurried' = hurried + (IF Moving THEN 1 ELSE 0)
  BY DEF Ask, Hurry
<1>2. /\ mail' \in [Letters -> Nat] /\ Moving'
      /\ MailIsTrue /\ (p # None => OnRecord(p)) =>
           \A l \in Letters : mail'[l] > 0 /\ l[2] # None => OnRecord(l[2])
  BY <1>1, IsLetter, Posted
<1>3. hurried' \in Nat BY <1>1 DEF OnboardingInv, StateOK
<1>4. StateOK' /\ SavedOnRecord' /\ ReportIsTrue'
  BY <1>1, <1>2, <1>3 DEF records, OnboardingInv, StateOK, WizardOK, Past, RecordsOK,
              SavedOnRecord, OnRecord, ReportIsTrue
<1>5. (~foreign => MailIsTrue)'
  BY <1>1, <1>2 DEF records, OnboardingInv, MailIsTrue, OnRecord
<1>6. (~foreign => NothingUnseen)'
  BY <1>1 DEF records, AllSettled, NothingUnseen, Submitted, Unused, Settled
<1>7. (~foreign /\ page = "wizard" => InOrder)'
  BY <1>1 DEF records, OnboardingInv, InOrder, Gathered, OnItsWay, Inputs, OneAnswer,
              Own, Waits, KnowsSaved, TestsSaved
<1> QED BY <1>1, <1>4, <1>5, <1>6, <1>7 DEF OnboardingInv, Carries

(* What handling a message must establish: what is under way afterwards    *)
(* says nothing new.                                                       *)
LEMMA HandleKeeps ==
  ASSUME OnboardingInv, NEW l \in Letters, Handle(l),
         page' \in {"wizard", "chat", "over"}, WizardOK(m'), SavedOnRecord',
         calls' \subseteq calls, \A c \in calls' : Past(c)',
         mail' \in [Letters -> Nat],
         \A k \in Letters : mail'[k] > 0 /\ k[2] # None => mail[k] > 0,
         page' = "wizard" /\ ~foreign => InOrder'
  PROVE  OnboardingInv'
<1>1. /\ mail[l] > 0 /\ known' = known \cup ({l[2]} \ {None})
      /\ UNCHANGED <<request, saves, late, foreign, hurried>>
  BY DEF Handle, records
<1>2. l[2] \in Types BY DEF Letters
<1>3. known' \subseteq Providers BY <1>1, <1>2 DEF OnboardingInv, StateOK, Types
<1>4. \A c \in calls' : CallOK(c) BY DEF OnboardingInv, StateOK
<1>5. RecordsOK' BY <1>1 DEF OnboardingInv, StateOK, RecordsOK
<1>6. StateOK' BY <1>1, <1>3, <1>4, <1>5 DEF OnboardingInv, StateOK, WizardOK, CallOK
<1>7. \A p : OnRecord(p)' = OnRecord(p) BY <1>1 DEF OnRecord
<1>8. ReportIsTrue'
  <2>1. foreign \/ \A p \in known \ Configured : OnRecord(p)
    BY DEF OnboardingInv, ReportIsTrue, OnRecord
  <2>2. foreign \/ l[2] = None \/ OnRecord(l[2])
    BY <1>1 DEF OnboardingInv, MailIsTrue
  <2>3. foreign' \/ \A p \in known' \ Configured : OnRecord(p)'
    BY <1>1, <1>7, <2>1, <2>2
  <2> QED BY <2>3 DEF ReportIsTrue, OnRecord
<1>9. ASSUME ~foreign' PROVE MailIsTrue' /\ NothingUnseen'
  <2>1. ~foreign BY <1>1, <1>9
  <2>2. MailIsTrue' BY <1>7, <2>1 DEF OnboardingInv, MailIsTrue
  <2>3. Moving BY <1>1 DEF Moving
  <2>4. AllSettled BY <2>1, <2>3, SettledElsewhere
  <2> QED BY <1>1, <2>2, <2>4 DEF AllSettled, NothingUnseen, Submitted, Unused, Settled
<1>10. (~foreign /\ page = "wizard" => InOrder)' BY <1>1
<1> QED BY <1>6, <1>8, <1>9, <1>10 DEF OnboardingInv

(* A message that is handled is under way one time less. *)
LEMMA Taken ==
  ASSUME OnboardingInv, NEW l \in Letters, mail[l] > 0,
         mail' = [mail EXCEPT ![l] = @ - 1]
  PROVE  /\ mail' \in [Letters -> Nat]
         /\ \A k \in Letters : mail'[k] > 0 => mail[k] > 0
<1>1. mail \in [Letters -> Nat] /\ mail[l] \in Nat BY DEF OnboardingInv, StateOK
<1>2. mail[l] - 1 \in Nat BY <1>1
<1>3. mail' = [mail EXCEPT ![l] = mail[l] - 1] OBVIOUS
<1> QED BY <1>1, <1>2, <1>3

LEMMA KeepsToChat ==
  ASSUME OnboardingInv, NEW l \in Letters, Handle(l), ToChat(l)
  PROVE  OnboardingInv'
<1>1. /\ page' = "chat" /\ m' = Fresh(m.id, m.spent + m.flow) /\ calls' = calls
      /\ mail' = [mail EXCEPT ![l] = @ - 1]
  BY DEF ToChat, Turn
<1>2. /\ m.id \in Nat /\ m.spent + m.flow \in Nat
      /\ m.id <= MaxWizards /\ m.spent + m.flow <= MaxFlow
  BY DEF OnboardingInv, StateOK, WizardOK, Wizard
<1>3. WizardOK(m') /\ m'.id = m.id /\ m'.saved = None BY <1>1, <1>2, FreshWizard
<1>4. SavedOnRecord' BY <1>3 DEF SavedOnRecord
<1>5. \A c \in calls' : Past(c)' BY <1>1, <1>3 DEF OnboardingInv, StateOK, Past
<1>6. mail[l] > 0 BY DEF Handle
<1> QED BY <1>1, <1>3, <1>4, <1>5, <1>6, Taken, HandleKeeps

LEMMA KeepsToExit ==
  ASSUME OnboardingInv, NEW l \in Letters, l # Exit, Handle(l), ToExit(l)
  PROVE  OnboardingInv'
<1>1. UNCHANGED <<page, m, calls>> /\ mail[l] > 0 BY DEF ToExit, Handle
<1>2. mail \in [Letters -> Nat] BY DEF OnboardingInv, StateOK
<1>3. Exit \in Letters /\ Exit[2] = None BY DEF Exit, Letters, Types
<1>4. mail' = [[mail EXCEPT ![l] = mail[l] - 1] EXCEPT ![Exit] = mail[Exit] + 1]
  <2>1. [mail EXCEPT ![l] = mail[l] - 1][Exit] = mail[Exit] BY <1>2, <1>3
  <2> QED BY <2>1 DEF ToExit
<1>5. mail[l] - 1 \in Nat /\ mail[Exit] + 1 \in Nat BY <1>1, <1>2, <1>3
<1>6. mail' \in [Letters -> Nat] BY <1>2, <1>4, <1>5
<1>7. \A k \in Letters : mail'[k] > 0 /\ k[2] # None => mail[k] > 0
  BY <1>1, <1>2, <1>3, <1>4, <1>5
<1>8. WizardOK(m') /\ page' \in {"wizard", "chat", "over"} /\ \A c \in calls' : Past(c)'
  BY <1>1 DEF OnboardingInv, StateOK, WizardOK, Past
<1>9. SavedOnRecord'
  BY <1>1 DEF Handle, records, OnboardingInv, SavedOnRecord, OnRecord
<1>10. page' = "wizard" /\ ~foreign => InOrder'
  BY <1>1 DEF Handle, records, OnboardingInv, InOrder, Gathered, OnItsWay, Inputs,
              OneAnswer, Own, Waits, KnowsSaved, TestsSaved
<1> QED BY <1>1, <1>6, <1>7, <1>8, <1>9, <1>10, HandleKeeps

LEMMA KeepsOver ==
  ASSUME OnboardingInv, Over
  PROVE  OnboardingInv'
<1>1. /\ Handle(Exit) /\ page' = "over" /\ m' = Fresh(m.id, m.spent + m.flow)
      /\ calls' = {} /\ mail' = [l \in Letters |-> 0]
  BY DEF Over
<1>2. Exit \in Letters BY DEF Exit, Letters, Types
<1>3. /\ m.id \in Nat /\ m.spent + m.flow \in Nat
      /\ m.id <= MaxWizards /\ m.spent + m.flow <= MaxFlow
  BY DEF OnboardingInv, StateOK, WizardOK, Wizard
<1>4. WizardOK(m') /\ m'.saved = None BY <1>1, <1>3, FreshWizard
<1>5. SavedOnRecord' BY <1>4 DEF SavedOnRecord
<1>6. mail' \in [Letters -> Nat] /\ \A k \in Letters : ~(mail'[k] > 0) BY <1>1
<1> QED BY <1>1, <1>2, <1>4, <1>5, <1>6, HandleKeeps

LEMMA KeepsNavigateToOnboarding ==
  ASSUME OnboardingInv, NavigateToOnboarding
  PROVE  OnboardingInv'
<1> DEFINE l == <<"open", None>>
           n == m.spent + m.flow
<1>1. /\ m.id + hurried < MaxWizards /\ Handle(l)
      /\ page' = "wizard" /\ m' = Fresh(m.id + 1, n) /\ calls' = calls
      /\ mail' = [mail EXCEPT ![l] = @ - 1]
  BY DEF NavigateToOnboarding, Turn
<1>2. l \in Letters /\ mail[l] > 0 BY <1>1 DEF Letters, Types, Handle
<1>3. m.id \in Nat /\ m.spent \in Nat /\ m.flow \in Nat /\ hurried \in Nat /\ n <= MaxFlow
  BY DEF OnboardingInv, StateOK, WizardOK, Wizard
<1>4. m.id + 1 \in Nat /\ n \in Nat /\ m.id + 1 <= MaxWizards
  BY <1>1, <1>3, OnboardingAssumption
<1> HIDE DEF l, n
<1>5. /\ WizardOK(m') /\ m'.id = m.id + 1 /\ m'.step = "selectProvider"
      /\ m'.provider = None /\ m'.token = None /\ m'.models = None /\ m'.saved = None
      /\ ~m'.adding /\ ~m'.added /\ m'.tested = "none"
  BY <1>1, <1>3, <1>4, FreshWizard
<1>6. \A c \in calls : c.id # m'.id /\ c.id <= m'.id
  BY <1>3, <1>5 DEF OnboardingInv, StateOK, CallOK, Past
<1>7. \A c \in calls' : Past(c)' BY <1>1, <1>6 DEF Past
<1>8. SavedOnRecord' BY <1>5 DEF SavedOnRecord
<1>9. InOrder'
  <2>1. Gathered(m)' /\ OnItsWay(m)' /\ KnowsSaved(m)'
    <3>1. Gathered(m') /\ OnItsWay(m') /\ KnowsSaved(m') BY <1>5, FreshInOrder
    <3> QED BY <3>1 DEF Gathered, OnItsWay, KnowsSaved, Inputs
  <2>2. OneAnswer' /\ TestsSaved' BY <1>1, <1>6 DEF OneAnswer, TestsSaved, Own
  <2> QED BY <1>5, <2>1, <2>2 DEF InOrder
<1> QED BY <1>1, <1>2, <1>5, <1>7, <1>8, <1>9, Taken, HandleKeeps

LEMMA KeepsLeaving ==
  ASSUME OnboardingInv, OnboardingDone \/ OnboardingCancelled \/ OnboardingQuit
  PROVE  OnboardingInv'
<1>1. PICK l \in {"done", "cancelled", "quit"} \X Types :
        Handle(l) /\ (ToChat(l) \/ ToExit(l))
  BY DEF OnboardingDone, OnboardingCancelled, OnboardingQuit
<1>2. l \in Letters /\ l # Exit BY DEF Letters, Exit
<1> QED BY <1>1, <1>2, KeepsToChat, KeepsToExit

LEMMA InitInv ==
  ASSUME Init
  PROVE  OnboardingInv
<1>1. /\ page \in {"wizard", "chat"} /\ known = Configured /\ calls = {} /\ foreign = FALSE
      /\ m = Fresh(IF page = "wizard" THEN 1 ELSE 0, 0)
      /\ request = [o \in Operations |-> [state |-> "none", alias |-> None]]
      /\ saves = [o \in Operations |-> Daemon!Unsaved]
      /\ mail = [l \in Letters |-> 0] /\ late = {} /\ hurried = 0
  BY DEF Init
<1>2. /\ WizardOK(m) /\ m.step = "selectProvider" /\ m.provider = None
      /\ m.token = None /\ m.models = None /\ m.saved = None
      /\ ~m.adding /\ ~m.added /\ m.tested = "none"
  <2> DEFINE i == IF page = "wizard" THEN 1 ELSE 0
  <2>1. i \in Nat /\ i <= MaxWizards /\ 0 <= MaxFlow BY OnboardingAssumption
  <2>2. m = Fresh(i, 0) BY <1>1
  <2> HIDE DEF i
  <2> QED BY <2>1, <2>2, FreshWizard
<1>3. RecordsOK BY <1>1 DEF RecordsOK, Daemon!Unsaved, Saved, Types
<1>4. StateOK BY <1>1, <1>2, <1>3, OnboardingAssumption DEF StateOK
<1>5. SavedOnRecord /\ ReportIsTrue BY <1>1, <1>2 DEF SavedOnRecord, ReportIsTrue
<1>6. MailIsTrue /\ NothingUnseen BY <1>1 DEF MailIsTrue, NothingUnseen, Submitted, Unused
<1>7. InOrder
  BY <1>1, <1>2, FreshInOrder DEF InOrder, OneAnswer, TestsSaved
<1> QED BY <1>4, <1>5, <1>6, <1>7 DEF OnboardingInv

LEMMA KeepsCancel ==
  ASSUME OnboardingInv, Cancel \/ Done
  PROVE  Carries
<1>1. PICK kind \in {"cancelled", "done"}, p \in {m.saved, m.provider} :
        /\ Ask(kind, p) /\ page = "wizard"
        /\ \/ m.step = "selectProvider" /\ p = m.saved
           \/ /\ m.step = "testConnection" /\ ~m.unresolved /\ ~m.testing
              /\ m.tested = "success" /\ (m.saved # None => p = m.saved)
  BY Zenon DEF Cancel, Done, Key
<1>2. p \in Types BY DEF OnboardingInv, StateOK, WizardOK, Wizard
<1>3. ASSUME ~foreign PROVE (p # None => OnRecord(p)) /\ AllSettled
  <2>1. InOrder /\ SavedOnRecord BY <1>1, <1>3 DEF OnboardingInv
  <2>2. p = m.saved BY <1>1, <2>1 DEF InOrder, KnowsSaved
  <2>3. AllSettled BY <1>1, <1>3, SettledElsewhere
  <2> QED BY <2>1, <2>2, <2>3 DEF SavedOnRecord
<1> QED BY <1>1, <1>2, <1>3, AskKeeps

(* A wizard that is ready to quit has nothing under way. *)
LEMMA KeepsQuit ==
  ASSUME OnboardingInv, Quit, page = "chat" \/ (~m.adding /\ ~m.unresolved)
  PROVE  Carries
<1>1. None \in Types /\ m.saved \in Types
  BY DEF OnboardingInv, StateOK, WizardOK, Wizard, Types
<1>2. ASSUME ~foreign PROVE AllSettled BY <1>2, SettledElsewhere
<1>3. CASE Ask("quit", m.saved)
  BY <1>1, <1>2, <1>3, AskKeeps DEF OnboardingInv, SavedOnRecord
<1>4. CASE Ask("exit", None) BY <1>1, <1>2, <1>4, AskKeeps
<1> QED BY <1>3, <1>4 DEF Quit

LEMMA KeepsReconfigure ==
  ASSUME OnboardingInv, Reconfigure
  PROVE  Carries
<1>1. page = "chat" /\ Ask("open", None) BY DEF Reconfigure
<1>2. ASSUME ~foreign PROVE AllSettled BY <1>1, <1>2, SettledElsewhere
<1>3. None \in Types BY DEF Types
<1> QED BY <1>1, <1>2, <1>3, AskKeeps

-----------------------------------------------------------------------------
(***************************************************************************)
(* The save and the test of the connection.                                *)
(***************************************************************************)
(* A wizard at the test differs from m only in what concerns the save.     *)
AtTest(w) ==
  /\ w \in Wizard /\ SameGathered(w, m) /\ w.models = m.models
  /\ w.id = m.id /\ w.flow = m.flow /\ w.spent = m.spent
  /\ w.step = m.step \/ (m.step \in Chosen /\ w.step \in Chosen)
  /\ w.next = m.next /\ w.authing = m.authing /\ w.pulling = m.pulling

LEMMA AtTestSound ==
  ASSUME OnboardingInv, NEW w, AtTest(w), w.unresolved => w.operation \in Operations
  PROVE  /\ WizardOK(w) /\ w.flow >= m.flow
         /\ Gathered(m) /\ OnItsWay(m) => Gathered(w) /\ OnItsWay(w)
<1>1. m.flow \in Nat /\ WizardOK(m) BY DEF OnboardingInv, StateOK, WizardOK, Wizard
<1>2. WizardOK(w) /\ w.flow >= m.flow
  BY <1>1 DEF AtTest, SameGathered, WizardOK, Chosen
<1>3. Gathered(m) => Gathered(w)
  BY DEF AtTest, SameGathered, Gathered, Inputs, Credentialed, Listing, Chosen
<1>4. OnItsWay(m) => OnItsWay(w) BY DEF AtTest, SameGathered, OnItsWay, Chosen
<1> QED BY <1>2, <1>3, <1>4

LEMMA KeepsStartTest ==
  ASSUME OnboardingInv, StartTest
  PROVE  Carries
<1>0. /\ page = "wizard"
      /\ m.step \in Chosen
      /\ m.step = "testConnection" => ~m.unresolved /\ ~m.testing
  BY Zenon DEF StartTest, Key, Chosen
<1> DEFINE o == CHOOSE o \in Unused : TRUE
           w == [m EXCEPT !.step = "testConnection", !.testing = TRUE, !.adding = TRUE,
                         !.cancelAfterAdd = FALSE, !.tested = "none", !.added = FALSE,
                         !.operation = o, !.unresolved = FALSE, !.quitRequested = FALSE]
           d == Call(m, "save", o)
           new == {d}
<1>1. /\ Unused # {}
      /\ request' = [request EXCEPT ![o] = [state |-> "sent", alias |-> m.provider]]
      /\ m' = w /\ calls' = calls \cup new
      /\ late' = (IF Moving THEN late \cup {o} ELSE late)
      /\ Pressed /\ UNCHANGED saves
  BY DEF StartTest
<1>2. o \in Unused /\ o \in Operations BY <1>1 DEF Unused
<1>3. /\ m \in Wizard /\ m.flow > 0 /\ m.flow \in Nat /\ m.id \in Nat
      /\ m.provider \in Providers
  BY <1>0, Underway DEF Chosen, Wizard
<1> HIDE DEF o
<1>4. w \in Wizard
  <2>1. "testConnection" \in Steps BY DEF Steps
  <2> QED BY <1>2, <1>3, <2>1, Zenon DEF Wizard
<1>5. /\ SameGathered(w, m) /\ w.models = m.models
      /\ w.id = m.id /\ w.flow = m.flow /\ w.spent = m.spent /\ w.step = "testConnection"
      /\ w.next = m.next /\ w.authing = m.authing /\ w.pulling = m.pulling
      /\ w.testing /\ w.adding /\ w.tested = "none" /\ ~w.added /\ w.operation = o
      /\ ~w.unresolved /\ w.saved = m.saved
  BY <1>3, Zenon DEF Wizard, SameGathered
<1> HIDE DEF w
<1>6. AtTest(w) BY <1>0, <1>4, <1>5 DEF AtTest, Chosen
<1>7. \A c \in new : CallOK(c) /\ Owned(c, w) /\ c.kind # "test" /\ Waits(w, c)
  <2>1. d.kind = "save" /\ d.id = m.id /\ d.flow = m.flow /\ d.about = o BY DEF Call
  <2>2. CallOK(d) BY <1>2, <1>3, <2>1 DEF CallOK, Call, Kinds, About
  <2>3. Owned(d, w) /\ Waits(w, d) BY <1>5, <2>1 DEF Owned, Waits
  <2> HIDE DEF d
  <2> QED BY <2>1, <2>2, <2>3
<1>8. \A c, e \in new : c = e OBVIOUS
<1> HIDE DEF d, new
<1>9. Sound(w, new)
  BY <1>5, <1>6, <1>7, AtTestSound DEF Sound, OnboardingInv, SavedOnRecord
<1>10. MovesTo(w, calls, new)
  BY <1>0, <1>1, <1>2 DEF Pressed, Hurry, MovesTo, app, OnboardingInv, StateOK
<1>11. RecordsOK'
  BY <1>1, <1>2, <1>3 DEF OnboardingInv, StateOK, RecordsOK, Types
<1>12. ASSUME ~foreign' PROVE Consistent(w, calls, new) /\ MailIsTrue' /\ NothingUnseen'
  <2>1. ~foreign /\ InOrder /\ MailIsTrue BY <1>0, <1>1, <1>12 DEF Pressed, OnboardingInv
  <2>2. \A c \in calls : ~Own(c)
    <3>1. \A c \in calls : c.kind \in Kinds BY DEF OnboardingInv, StateOK, CallOK
    <3>2. ASSUME NEW c \in calls, Own(c) PROVE FALSE
      <4>1. Waits(m, c) BY <2>1, <3>2 DEF InOrder, OneAnswer
      <4> QED BY <1>0, <2>1, <3>1, <4>1 DEF Waits, Chosen, Kinds, Setup, InOrder
    <3> QED BY <3>2
  <2>3. AllSettled BY <1>0, <2>1, SettledElsewhere DEF InOrder, Chosen
  <2>4. Consistent(w, calls, new)
    <3>1. Gathered(w) /\ OnItsWay(w) BY <1>6, <1>5, <2>1, AtTestSound DEF InOrder
    <3>2. KnowsSaved(w) BY <1>5 DEF KnowsSaved
    <3>3. \A c \in calls : ~Owned(c, w) BY <1>5, <2>2 DEF Own, Owned
    <3> QED BY <1>5, <1>7, <1>8, <3>1, <3>2, <3>3 DEF Consistent
  <2>5. Holds(w, o) BY <1>5 DEF Holds
  <2>6. request \in [Operations -> [state : {"none", "sent", "journaled", "refused", "lost"},
                                    alias : Types]]
    BY DEF OnboardingInv, StateOK, RecordsOK
  <2>7. ASSUME NEW p \in (Submitted \ late)' PROVE Settled(p)' \/ (~Moving /\ Holds(w, p))
    <3>1. CASE p = o
      <4>1. ~Moving BY <1>1, <2>7, <3>1
      <4> QED BY <2>5, <3>1, <4>1
    <3>2. CASE p # o
      <4>1. request'[p] = request[p] /\ p \in Operations
        BY <1>1, <1>2, <2>6, <2>7, <3>2 DEF Submitted
      <4>2. p \in Submitted \ late BY <1>1, <2>7, <4>1 DEF Submitted, Unused
      <4> QED BY <1>1, <2>3, <4>1, <4>2 DEF AllSettled, Settled
    <3> QED BY <3>1, <3>2
  <2>8. (Moving)' = Moving /\ page' = "wizard" BY <1>0, <1>1 DEF Pressed, app, Moving
  <2>9. NothingUnseen' BY <1>1, <2>7, <2>8 DEF NothingUnseen, Holds
  <2>10. MailIsTrue' BY <1>1, <2>1 DEF Pressed, app, MailIsTrue, OnRecord
  <2> QED BY <2>4, <2>9, <2>10
<1>13. mail' = mail BY <1>1 DEF Pressed, app
<1> QED BY <1>9, <1>10, <1>11, <1>12, <1>13, MoveToKeeps

(* At the test, with nothing asked of the daemon, nothing is under way.    *)
LEMMA RestingAtTest ==
  ASSUME OnboardingInv, ~foreign, page = "wizard", m.step = "testConnection",
         m.unresolved \/ ~m.testing
  PROVE  /\ \A c \in calls : ~Own(c)
         /\ ~m.unresolved => ~m.adding /\ AllSettled
<1>1. InOrder /\ NothingUnseen BY DEF OnboardingInv
<1>2. \A c \in calls : c.kind \in Kinds BY DEF OnboardingInv, StateOK, CallOK
<1>3. ASSUME NEW c \in calls, Own(c) PROVE FALSE
  <2>1. Waits(m, c) BY <1>1, <1>3 DEF InOrder, OneAnswer
  <2> QED BY <1>1, <1>2, <2>1 DEF Waits, Kinds, Setup, InOrder
<1> QED BY <1>1, <1>3 DEF InOrder, NothingUnseen, AllSettled, Holds

LEMMA KeepsRetryOperation ==
  ASSUME OnboardingInv, RetryOperation
  PROVE  Carries
<1>0. page = "wizard" /\ m.step = "testConnection" /\ m.unresolved
  BY Zenon DEF RetryOperation, Key
<1>1. /\ m \in Wizard /\ m.flow > 0 /\ m.flow \in Nat /\ m.id \in Nat
      /\ m.operation \in Operations
  BY <1>0, Underway DEF OnboardingInv, StateOK, WizardOK, Wizard
<1> DEFINE w == [m EXCEPT !.adding = TRUE, !.testing = TRUE, !.unresolved = FALSE]
           d == Call(m, "query", m.operation)
           new == {d}
<1>2. m' = w /\ calls' = calls \cup new /\ Pressed /\ UNCHANGED records
  BY DEF RetryOperation
<1>3. w \in Wizard BY <1>1, Zenon DEF Wizard
<1>4. /\ SameGathered(w, m) /\ w.models = m.models
      /\ w.id = m.id /\ w.flow = m.flow /\ w.spent = m.spent /\ w.step = m.step
      /\ w.next = m.next /\ w.authing = m.authing /\ w.pulling = m.pulling
      /\ w.testing /\ w.adding /\ ~w.unresolved /\ w.tested = m.tested
      /\ w.added = m.added /\ w.operation = m.operation /\ w.saved = m.saved
  BY <1>1, Zenon DEF Wizard, SameGathered
<1> HIDE DEF w
<1>5. AtTest(w) BY <1>3, <1>4 DEF AtTest
<1>6. \A c \in new : CallOK(c) /\ Owned(c, w) /\ c.kind # "test" /\ Waits(w, c)
  <2>1. d.kind = "query" /\ d.id = m.id /\ d.flow = m.flow /\ d.about = m.operation
    BY DEF Call
  <2>2. CallOK(d) BY <1>1, <2>1 DEF CallOK, Call, Kinds, About
  <2>3. Owned(d, w) /\ Waits(w, d) BY <1>0, <1>4, <2>1 DEF Owned, Waits
  <2> HIDE DEF d
  <2> QED BY <2>1, <2>2, <2>3
<1>7. \A c, e \in new : c = e OBVIOUS
<1> HIDE DEF d, new
<1>8. Sound(w, new)
  BY <1>4, <1>5, <1>6, AtTestSound DEF Sound, OnboardingInv, SavedOnRecord
<1>9. Moves(w, calls, new)
  BY <1>0, <1>2 DEF Pressed, Hurry, Moves, MovesTo, app, records, OnboardingInv, StateOK
<1>10. ASSUME ~foreign PROVE Orderly(w, calls, new)
  <2>1. InOrder /\ NothingUnseen BY <1>0, <1>10 DEF OnboardingInv
  <2>2. \A c \in calls : ~Owned(c, w)
    BY <1>0, <1>4, <1>10, RestingAtTest DEF Own, Owned
  <2>3. Gathered(w) /\ OnItsWay(w) BY <1>4, <1>5, <2>1, AtTestSound DEF InOrder
  <2>4. KnowsSaved(w) BY <1>4, <2>1 DEF InOrder, KnowsSaved
  <2>5. \A o \in Submitted \ late : Settled(o) \/ (~Moving /\ Holds(w, o))
    BY <1>0, <1>4, <2>1 DEF NothingUnseen, Holds
  <2> QED BY <1>4, <1>6, <1>7, <2>2, <2>3, <2>4, <2>5 DEF Orderly, Consistent
<1> QED BY <1>2, <1>8, <1>9, <1>10, MoveKeeps DEF Pressed

LEMMA KeepsRetryTest ==
  ASSUME OnboardingInv, RetryTest
  PROVE  Carries
<1>0. page = "wizard" /\ m.step = "testConnection" /\ ~m.unresolved /\ ~m.testing /\ m.added
  BY Zenon DEF RetryTest, Key
<1>1. /\ m \in Wizard /\ m.flow > 0 /\ m.flow \in Nat /\ m.id \in Nat
      /\ m.provider \in Providers
  BY <1>0, Underway DEF Wizard
<1> DEFINE w == [m EXCEPT !.testing = TRUE]
           d == Call(m, "test", m.provider)
           new == {d}
<1>2. m' = w /\ calls' = calls \cup new /\ Pressed /\ UNCHANGED records
  BY DEF RetryTest
<1>3. w \in Wizard BY <1>1, Zenon DEF Wizard
<1>4. /\ SameGathered(w, m) /\ w.models = m.models
      /\ w.id = m.id /\ w.flow = m.flow /\ w.spent = m.spent /\ w.step = m.step
      /\ w.next = m.next /\ w.authing = m.authing /\ w.pulling = m.pulling
      /\ w.testing /\ w.adding = m.adding /\ w.unresolved = m.unresolved
      /\ w.tested = m.tested /\ w.added = m.added /\ w.operation = m.operation
      /\ w.saved = m.saved
  BY <1>1, Zenon DEF Wizard, SameGathered
<1> HIDE DEF w
<1>5. AtTest(w) BY <1>3, <1>4 DEF AtTest
<1>6. /\ \A c \in new : CallOK(c) /\ Owned(c, w) /\ (~m.adding => Waits(w, c))
      /\ \A c, e \in new : c = e
  <2>1. d.kind = "test" /\ d.id = m.id /\ d.flow = m.flow /\ d.about = m.provider
    BY DEF Call
  <2>2. CallOK(d) BY <1>1, <2>1 DEF CallOK, Call, Kinds, About
  <2>3. Owned(d, w) /\ (~m.adding => Waits(w, d)) BY <1>0, <1>4, <2>1 DEF Owned, Waits
  <2> HIDE DEF d
  <2> QED BY <2>1, <2>2, <2>3
<1> HIDE DEF d, new
<1>7. Sound(w, new)
  BY <1>0, <1>4, <1>5, <1>6, AtTestSound DEF Sound, OnboardingInv, SavedOnRecord
<1>8. Moves(w, calls, new)
  BY <1>0, <1>2 DEF Pressed, Hurry, Moves, MovesTo, app, records, OnboardingInv, StateOK
<1>9. ASSUME ~foreign PROVE Orderly(w, calls, new)
  <2>1. InOrder BY <1>0, <1>9 DEF OnboardingInv
  <2>2. /\ \A c \in calls : ~Owned(c, w)
        /\ ~m.adding /\ AllSettled
    BY <1>0, <1>4, <1>9, RestingAtTest DEF Own, Owned
  <2>3. Gathered(w) /\ OnItsWay(w)
    BY <1>0, <1>4, <1>5, <2>1, AtTestSound DEF InOrder
  <2>4. KnowsSaved(w) /\ w.saved # None BY <1>0, <1>4, <2>1 DEF InOrder, KnowsSaved
  <2> QED BY <1>4, <1>6, <2>2, <2>3, <2>4 DEF Orderly, Consistent, AllSettled
<1> QED BY <1>2, <1>7, <1>8, <1>9, MoveKeeps DEF Pressed

(* A flag that only says what is to be done after the save.                *)
LEMMA FlagKeeps ==
  ASSUME OnboardingInv, page = "wizard", NEW w, w \in Wizard,
         SameGathered(w, m), SameSave(w, m), w.models = m.models,
         w.flow = m.flow, w.step = m.step, w.next = m.next,
         w.authing = m.authing, w.pulling = m.pulling,
         m' = w, Pressed, UNCHANGED <<calls, records>>
  PROVE  Carries
<1> DEFINE new == {}
<1>1. \A c \in new : FALSE OBVIOUS
<1>2. new = {} /\ calls' = calls \cup new OBVIOUS
<1> HIDE DEF new
<1>3. AtTest(w) BY DEF AtTest, SameSave
<1>4. Sound(w, new)
  BY <1>1, <1>3, AtTestSound
     DEF Sound, SameSave, OnboardingInv, SavedOnRecord, StateOK, WizardOK
<1>5. Moves(w, calls, new)
  BY <1>2 DEF Pressed, Hurry, Moves, MovesTo, app, records, OnboardingInv, StateOK
<1>6. ASSUME ~foreign PROVE Orderly(w, calls, new)
  <2>1. InOrder /\ NothingUnseen BY <1>6 DEF OnboardingInv
  <2>2. Gathered(w) /\ OnItsWay(w)
    BY <1>3, <2>1, AtTestSound DEF InOrder, SameSave, OnboardingInv, StateOK, WizardOK
  <2>3. \A c \in calls : Own(c) => Waits(w, c)
    <3>1. Inputs(w) = Inputs(m) BY DEF Inputs, SameGathered
    <3>2. ASSUME NEW c \in calls, Own(c) PROVE Waits(w, c)
      <4>1. Waits(m, c) BY <2>1, <3>2 DEF InOrder, OneAnswer
      <4>2. c.kind \in Kinds BY DEF OnboardingInv, StateOK, CallOK
      <4> QED BY <3>1, <4>1, <4>2 DEF Waits, SameGathered, SameSave, Kinds, Setup
    <3> QED BY <3>2
  <2>4. KnowsSaved(w) /\ (w.adding => w.testing)
    BY <2>1 DEF InOrder, KnowsSaved, SameSave
  <2>5. \A o \in Submitted \ late : Settled(o) \/ (~Moving /\ Holds(w, o))
    BY <2>1 DEF NothingUnseen, Holds, SameSave
  <2> QED BY <1>1, <1>2, <2>2, <2>3, <2>4, <2>5 DEF Orderly, Consistent, SameSave
<1> QED BY <1>4, <1>5, <1>6, MoveKeeps DEF Pressed

LEMMA KeepsCancelAfterAdd ==
  ASSUME OnboardingInv, CancelAfterAdd
  PROVE  Carries
<1>1. page = "wizard" /\ Stay([m EXCEPT !.cancelAfterAdd = TRUE])
  BY Zenon DEF CancelAfterAdd, Key
<1>2. m \in Wizard BY DEF OnboardingInv, StateOK, WizardOK
<1> DEFINE w == [m EXCEPT !.cancelAfterAdd = TRUE]
<1>3. w \in Wizard BY <1>2, Zenon DEF Wizard
<1>4. /\ SameGathered(w, m) /\ SameSave(w, m) /\ w.models = m.models
      /\ w.flow = m.flow /\ w.step = m.step /\ w.next = m.next
      /\ w.authing = m.authing /\ w.pulling = m.pulling
  BY <1>2, Zenon DEF Wizard, SameGathered, SameSave
<1>5. m' = w /\ Pressed /\ UNCHANGED <<calls, records>> BY <1>1 DEF Stay
<1> HIDE DEF w
<1> QED BY <1>1, <1>3, <1>4, <1>5, FlagKeeps

LEMMA KeepsRequestQuit ==
  ASSUME OnboardingInv, RequestQuit
  PROVE  Carries
<1>1. CASE page = "wizard" /\ Stay([m EXCEPT !.quitRequested = TRUE])
  <2> DEFINE w == [m EXCEPT !.quitRequested = TRUE]
  <2>1. m \in Wizard BY DEF OnboardingInv, StateOK, WizardOK
  <2>2. w \in Wizard BY <2>1, Zenon DEF Wizard
  <2>3. /\ SameGathered(w, m) /\ SameSave(w, m) /\ w.models = m.models
        /\ w.flow = m.flow /\ w.step = m.step /\ w.next = m.next
        /\ w.authing = m.authing /\ w.pulling = m.pulling
    BY <2>1, Zenon DEF Wizard, SameGathered, SameSave
  <2>4. m' = w /\ Pressed /\ UNCHANGED <<calls, records>> BY <1>1 DEF Stay
  <2> HIDE DEF w
  <2> QED BY <1>1, <2>2, <2>3, <2>4, FlagKeeps
<1>2. CASE Quit /\ (page = "chat" \/ (~m.adding /\ ~m.unresolved)) BY <1>2, KeepsQuit
<1> QED BY <1>1, <1>2 DEF RequestQuit

LEMMA KeepsBackFromTest ==
  ASSUME OnboardingInv, BackFromTest
  PROVE  Carries
<1>0. page = "wizard" /\ m.step = "testConnection" /\ ~m.unresolved /\ ~m.testing
  BY Zenon DEF BackFromTest, Key
<1>1. m \in Wizard BY DEF OnboardingInv, StateOK, WizardOK
<1> DEFINE w == [m EXCEPT !.step = "review", !.tested = "none"]
           new == {}
<1>2. m' = w /\ calls' = calls \cup new /\ Pressed /\ UNCHANGED records
  BY DEF BackFromTest, Stay
<1>3. w \in Wizard
  <2>1. "review" \in Steps BY DEF Steps
  <2> QED BY <1>1, <2>1, Zenon DEF Wizard
<1>4. /\ SameGathered(w, m) /\ w.models = m.models
      /\ w.id = m.id /\ w.flow = m.flow /\ w.spent = m.spent /\ w.step = "review"
      /\ w.next = m.next /\ w.authing = m.authing /\ w.pulling = m.pulling
      /\ w.testing = m.testing /\ w.adding = m.adding /\ w.unresolved = m.unresolved
      /\ w.tested = "none" /\ w.added = m.added /\ w.operation = m.operation
      /\ w.saved = m.saved
  BY <1>1, Zenon DEF Wizard, SameGathered
<1>5. \A c \in new : FALSE OBVIOUS
<1> HIDE DEF w, new
<1>6. AtTest(w) BY <1>0, <1>3, <1>4 DEF AtTest, Chosen
<1>7. Sound(w, new)
  BY <1>0, <1>4, <1>5, <1>6, AtTestSound DEF Sound, OnboardingInv, SavedOnRecord
<1>8. Moves(w, calls, new)
  BY <1>0, <1>2 DEF Pressed, Hurry, Moves, MovesTo, app, records, OnboardingInv, StateOK
<1>9. ASSUME ~foreign PROVE Orderly(w, calls, new)
  <2>1. InOrder BY <1>0, <1>9 DEF OnboardingInv
  <2>2. /\ \A c \in calls : ~Owned(c, w)
        /\ ~m.adding /\ AllSettled
    BY <1>0, <1>4, <1>9, RestingAtTest DEF Own, Owned
  <2>3. Gathered(w) /\ OnItsWay(w)
    BY <1>0, <1>4, <1>6, <2>1, AtTestSound DEF InOrder
  <2>4. KnowsSaved(w) BY <1>4, <2>1 DEF InOrder, KnowsSaved
  <2> QED BY <1>4, <1>5, <2>2, <2>3, <2>4 DEF Orderly, Consistent, AllSettled
<1> QED BY <1>2, <1>7, <1>8, <1>9, MoveKeeps DEF Pressed

(* The wizard holds the save that is not settled.                          *)
Orders(w) ==
  \A o \in Submitted \ late : Settled(o) \/ (~Moving /\ Holds(w, o))

(* A wizard that takes an answer of a save or of a test.                   *)
LEMMA ResultKeeps ==
  ASSUME OnboardingInv, NEW c \in calls, Current(c), Noted(c),
         UNCHANGED <<page, known, records>>,
         mail' \in [Letters -> Nat], ~foreign => MailIsTrue' /\ (mail' = mail \/ AllSettled),
         NEW w, w \in Wizard, SameGathered(w, m), w.models = m.models,
         w.id = m.id, w.flow = m.flow, w.spent = m.spent, w.step = m.step,
         w.next = m.next, w.authing = m.authing, w.pulling = m.pulling,
         w.unresolved => w.operation \in Operations,
         w.saved # None => OnRecord(w.saved),
         m' = w, NEW new, calls' = (calls \ {c}) \cup new,
         \A d \in new : CallOK(d) /\ Owned(d, w), \A d, e \in new : d = e,
         Waits(m, c) /\ KnowsSaved(m) /\ (m.adding => m.testing)
           /\ (c.kind = "test" => m.saved # None) =>
           /\ w.adding => w.testing
           /\ KnowsSaved(w)
           /\ m.saved # None => w.saved # None
           /\ \A d \in new : Waits(w, d) /\ (d.kind = "test" => w.saved # None),
         ~foreign /\ Waits(m, c) => AllSettled \/ (mail' = mail /\ Orders(w))
  PROVE  Carries
<1>1. page = "wizard" BY Answering
<1>2. AtTest(w) BY DEF AtTest
<1>3. Sound(w, new) BY <1>2, AtTestSound DEF Sound
<1>4. foreign' \in BOOLEAN /\ (foreign => foreign')
  BY DEF Noted, OnboardingInv, StateOK
<1>5. MovesTo(w, calls \ {c}, new)
  BY <1>1, <1>4 DEF Noted, MovesTo, records, OnboardingInv, StateOK
<1>6. RecordsOK' BY DEF OnboardingInv, StateOK, RecordsOK, records
<1>7. ASSUME ~foreign' PROVE Consistent(w, calls \ {c}, new) /\ MailIsTrue' /\ NothingUnseen'
  <2>1. ~foreign /\ c.id = m.id BY <1>7 DEF Noted, OnboardingInv, StateOK
  <2>2. Waits(m, c) /\ \A d \in calls \ {c} : ~Own(d) BY <2>1, Awaited
  <2>3. InOrder BY <1>1, <2>1 DEF OnboardingInv
  <2>4. KnowsSaved(m) /\ (m.adding => m.testing) /\ (c.kind = "test" => m.saved # None)
    BY <2>1, <2>3 DEF InOrder, TestsSaved
  <2>5. Gathered(w) /\ OnItsWay(w) BY <1>2, <2>3, AtTestSound DEF InOrder
  <2>6. \A d \in calls \ {c} : ~Owned(d, w) BY <2>2 DEF Own, Owned
  <2>7. Consistent(w, calls \ {c}, new) BY <2>2, <2>4, <2>5, <2>6 DEF Consistent
  <2>8. NothingUnseen'
    <3>1. Submitted' = Submitted /\ late' = late /\ \A o : Settled(o)' = Settled(o)
      BY DEF records, Submitted, Unused, Settled
    <3>2. CASE AllSettled BY <3>1, <3>2 DEF AllSettled, NothingUnseen
    <3>3. CASE mail' = mail /\ Orders(w)
      <4>1. (Moving)' = Moving BY <3>3 DEF Moving
      <4> QED BY <1>1, <3>1, <3>3, <4>1 DEF Orders, NothingUnseen, Holds
    <3> QED BY <2>1, <2>2, <3>2, <3>3
  <2> QED BY <2>1, <2>7, <2>8
<1> QED BY <1>3, <1>5, <1>6, <1>7, MoveToKeeps

LEMMA KeepsTestAnswer ==
  ASSUME OnboardingInv, TestAnswer
  PROVE  Carries
<1>1. PICK c \in calls :
        /\ c.kind = "test" /\ Current(c) /\ Ended(c, {})
        /\ \E t \in {m.tested, "success", "failed"} :
             m' = [m EXCEPT !.testing = FALSE, !.tested = t]
  BY DEF TestAnswer
<1>2. PICK t \in {m.tested, "success", "failed"} :
        m' = [m EXCEPT !.testing = FALSE, !.tested = t]
  BY <1>1
<1>3. m \in Wizard BY DEF OnboardingInv, StateOK, WizardOK
<1>4. t \in {"none", "success", "failed"} BY <1>3 DEF Wizard
<1> DEFINE w == [m EXCEPT !.testing = FALSE, !.tested = t]
           new == {}
<1>5. w \in Wizard BY <1>3, <1>4, Zenon DEF Wizard
<1>6. /\ SameGathered(w, m) /\ w.models = m.models
      /\ w.id = m.id /\ w.flow = m.flow /\ w.spent = m.spent /\ w.step = m.step
      /\ w.next = m.next /\ w.authing = m.authing /\ w.pulling = m.pulling
      /\ w.adding = m.adding /\ w.unresolved = m.unresolved
      /\ w.tested = t /\ w.added = m.added /\ w.operation = m.operation
      /\ w.saved = m.saved
  BY <1>3, Zenon DEF Wizard, SameGathered
<1>7. \A d \in new : FALSE OBVIOUS
<1>8. calls' = (calls \ {c}) \cup new /\ Noted(c) BY <1>1 DEF Ended
<1>9. m' = w /\ UNCHANGED <<app, records>> BY <1>2 DEF TestAnswer
<1> HIDE DEF w, new
<1>10. /\ w.unresolved => w.operation \in Operations
       /\ w.saved # None => OnRecord(w.saved)
  BY <1>6 DEF OnboardingInv, StateOK, WizardOK, SavedOnRecord
<1>11. ASSUME Waits(m, c), KnowsSaved(m), m.saved # None
       PROVE  /\ w.adding => w.testing
              /\ KnowsSaved(w) /\ w.saved # None
  BY <1>1, <1>6, <1>11 DEF Waits, KnowsSaved
<1>12. ASSUME ~foreign, Waits(m, c) PROVE AllSettled
  BY <1>1, <1>12, SettledElsewhere DEF Waits
<1>13. /\ UNCHANGED <<page, known, records, mail>>
       /\ mail' \in [Letters -> Nat] /\ (~foreign => MailIsTrue')
  BY <1>9 DEF app, records, OnboardingInv, StateOK, MailIsTrue, OnRecord
<1> QED BY <1>1, <1>5, <1>6, <1>7, <1>8, <1>9, <1>10, <1>11, <1>12, <1>13, ResultKeeps

(* When the answer names a settled save, no other is under way.            *)
LEMMA OthersSettled ==
  ASSUME OnboardingInv, ~foreign, NEW o \in Operations,
         m.operation \in {None, o}, NEW p \in Submitted \ late, p # o \/ Settled(o)
  PROVE  Settled(p)
<1>1. p \in Operations BY DEF Submitted
<1>2. NothingUnseen BY DEF OnboardingInv
<1> QED BY <1>1, <1>2, OnboardingAssumption DEF NothingUnseen, Holds

(* An answer to a save leaves the wizard with its save and nothing else.   *)
LEMMA ResultFields ==
  ASSUME NEW c, c.about \in Operations, m \in Wizard
  PROVE  LET w == Result(c) IN
         /\ w \in Wizard /\ SameGathered(w, m) /\ w.models = m.models
         /\ w.id = m.id /\ w.flow = m.flow /\ w.spent = m.spent /\ w.step = m.step
         /\ w.next = m.next /\ w.authing = m.authing /\ w.pulling = m.pulling
         /\ ~w.adding /\ ~w.unresolved /\ w.operation = c.about
         /\ w.testing = m.testing /\ w.added = m.added /\ w.saved = m.saved
         /\ w.tested = m.tested
<1> DEFINE w == Result(c)
<1>1. w \in Wizard BY Zenon DEF Wizard, Result
<1>2. SameGathered(w, m) BY Zenon DEF Wizard, Result, SameGathered
<1>3. /\ w.models = m.models
      /\ w.id = m.id /\ w.flow = m.flow /\ w.spent = m.spent /\ w.step = m.step
      /\ w.next = m.next /\ w.authing = m.authing /\ w.pulling = m.pulling
      /\ ~w.adding /\ ~w.unresolved /\ w.operation = c.about
      /\ w.testing = m.testing /\ w.added = m.added /\ w.saved = m.saved
      /\ w.tested = m.tested
  BY Zenon DEF Wizard, Result
<1> QED BY <1>1, <1>2, <1>3, Zenon

LEMMA KeepsCommitted ==
  ASSUME OnboardingInv, NEW c \in calls, c.kind \in {"save", "query"}, Expected(c),
         Committed(c), UNCHANGED records
  PROVE  Carries
<1> DEFINE o == c.about
           p == saves[o].alias
           v == Result(c)
           x == [v EXCEPT !.added = TRUE, !.saved = p]
           d == Call(m, "test", p)
<1>1. /\ CallOK(c) /\ Current(c) /\ m \in Wizard /\ page = "wizard"
      /\ m.flow > 0 /\ m.flow \in Nat /\ m.id \in Nat
  BY Answering DEF Expected
<1>2. o \in Operations BY <1>1 DEF CallOK, About
<1>3. PICK w, new :
        /\ saves[o].state = "committed" /\ UNCHANGED <<page, known>>
        /\ m' = w /\ calls' = (calls \ {c}) \cup new /\ Noted(c)
        /\ \/ /\ w = [x EXCEPT !.testing = FALSE, !.quitRequested = FALSE]
              /\ new = {} /\ Post("quit", p)
           \/ /\ w = [x EXCEPT !.testing = FALSE, !.cancelAfterAdd = FALSE]
              /\ new = {} /\ Post("done", p)
           \/ w = x /\ new = {d} /\ mail' = mail
  <2>1. saves[o].state = "committed" /\ UNCHANGED <<page, known>>
    BY DEF Committed, Reports
  <2>2. [[x EXCEPT !.testing = FALSE] EXCEPT !.quitRequested = FALSE]
          = [x EXCEPT !.testing = FALSE, !.quitRequested = FALSE]
    OBVIOUS
  <2>3. [[x EXCEPT !.testing = FALSE] EXCEPT !.cancelAfterAdd = FALSE]
          = [x EXCEPT !.testing = FALSE, !.cancelAfterAdd = FALSE]
    OBVIOUS
  <2>4. \/ m' = [[x EXCEPT !.testing = FALSE] EXCEPT !.quitRequested = FALSE]
           /\ Post("quit", p) /\ Ended(c, {})
        \/ m' = [[x EXCEPT !.testing = FALSE] EXCEPT !.cancelAfterAdd = FALSE]
           /\ Post("done", p) /\ Ended(c, {})
        \/ m' = x /\ Ended(c, {d}) /\ mail' = mail
    BY DEF Committed, Reports
  <2> HIDE DEF x, d, p
  <2> QED BY <2>1, <2>2, <2>3, <2>4 DEF Ended
<1>4. p \in Providers /\ OnRecord(p) /\ p # None /\ p \in Types
  BY <1>2, <1>3, OnboardingAssumption DEF OnboardingInv, StateOK, RecordsOK, OnRecord, Types
<1>5. ASSUME ~foreign PROVE AllSettled
  BY <1>2, <1>3, <1>5, OthersSettled DEF Expected, Settled, AllSettled
<1>6. mail' \in [Letters -> Nat] /\ (~foreign => MailIsTrue')
  <2>1. \A q : OnRecord(q)' = OnRecord(q) BY DEF records, OnRecord
  <2>2. CASE mail' = mail BY <2>1, <2>2 DEF OnboardingInv, StateOK, MailIsTrue
  <2>3. ASSUME NEW kind \in {"quit", "done"}, Post(kind, p)
        PROVE  mail' \in [Letters -> Nat] /\ (~foreign => MailIsTrue')
    <3> HIDE DEF p
    <3>1. <<kind, p>> \in Letters BY <1>4 DEF Letters
    <3> QED BY <1>4, <2>1, <2>3, <3>1, Posted DEF OnboardingInv, MailIsTrue
  <2> QED BY <1>3, <2>2, <2>3
<1>7. /\ v \in Wizard /\ SameGathered(v, m) /\ v.models = m.models
      /\ v.id = m.id /\ v.flow = m.flow /\ v.spent = m.spent /\ v.step = m.step
      /\ v.next = m.next /\ v.authing = m.authing /\ v.pulling = m.pulling
      /\ ~v.adding /\ ~v.unresolved /\ v.testing = m.testing
  BY <1>1, <1>2, ResultFields
<1> HIDE DEF p, v
<1>8. /\ x \in Wizard /\ SameGathered(x, v) /\ x.models = v.models
      /\ x.id = v.id /\ x.flow = v.flow /\ x.spent = v.spent /\ x.step = v.step
      /\ x.next = v.next /\ x.authing = v.authing /\ x.pulling = v.pulling
      /\ x.adding = v.adding /\ x.unresolved = v.unresolved /\ x.testing = v.testing
      /\ x.added /\ x.saved = p
  <2>1. x \in Wizard BY <1>4, <1>7, Zenon DEF Wizard
  <2> QED BY <1>7, <2>1, Zenon DEF Wizard, SameGathered
<1> HIDE DEF x
<1> DEFINE Kept ==
             /\ w \in Wizard /\ SameGathered(w, x) /\ w.models = x.models
             /\ w.id = x.id /\ w.flow = x.flow /\ w.spent = x.spent /\ w.step = x.step
             /\ w.next = x.next /\ w.authing = x.authing /\ w.pulling = x.pulling
             /\ w.adding = x.adding /\ w.unresolved = x.unresolved
             /\ w.added = x.added /\ w.saved = x.saved
             /\ new = {} \/ (new = {d} /\ w.testing = x.testing)
<1>9. Kept
  <2>1. ASSUME w = [x EXCEPT !.testing = FALSE, !.quitRequested = FALSE], new = {}
        PROVE Kept
    <3>1. w \in Wizard BY <1>8, <2>1, Zenon DEF Wizard
    <3>2. SameGathered(w, x) BY <1>8, <2>1, Zenon DEF Wizard, SameGathered
    <3> QED BY <1>8, <2>1, <3>1, <3>2, Zenon DEF Wizard
  <2>2. ASSUME w = [x EXCEPT !.testing = FALSE, !.cancelAfterAdd = FALSE], new = {}
        PROVE Kept
    <3>1. w \in Wizard BY <1>8, <2>2, Zenon DEF Wizard
    <3>2. SameGathered(w, x) BY <1>8, <2>2, Zenon DEF Wizard, SameGathered
    <3> QED BY <1>8, <2>2, <3>1, <3>2, Zenon DEF Wizard
  <2>3. ASSUME w = x, new = {d} PROVE Kept
    BY <1>8, <2>3 DEF SameGathered
  <2> QED BY <1>3, <2>1, <2>2, <2>3
<1>10. /\ SameGathered(w, m) /\ w.models = m.models
       /\ w.id = m.id /\ w.flow = m.flow /\ w.spent = m.spent /\ w.step = m.step
       /\ w.next = m.next /\ w.authing = m.authing /\ w.pulling = m.pulling
       /\ ~w.adding /\ ~w.unresolved /\ w.added /\ w.saved = p
  BY <1>7, <1>8, <1>9 DEF SameGathered
<1>11. /\ d.kind = "test" /\ d.id = m.id /\ d.flow = m.flow /\ d.about = p /\ CallOK(d)
  <2>1. d.kind = "test" /\ d.id = m.id /\ d.flow = m.flow /\ d.about = p BY DEF Call
  <2> QED BY <1>1, <1>4, <2>1 DEF CallOK, Call, Kinds, About
<1> HIDE DEF d
<1>12. /\ \A e \in new : CallOK(e) /\ Owned(e, w)
       /\ \A e, f \in new : e = f
       /\ Waits(m, c) /\ (m.adding => m.testing) => \A e \in new : Waits(w, e)
  <2>1. CASE new = {} BY <2>1
  <2>2. CASE new = {d} /\ w.testing = x.testing
    <3>1. CallOK(d) /\ Owned(d, w) BY <1>10, <1>11 DEF Owned
    <3>2. ASSUME Waits(m, c), m.adding => m.testing PROVE Waits(w, d)
      <4>1. m.step = "testConnection" /\ m.adding BY <3>2 DEF Waits
      <4>2. w.testing = m.testing BY <1>7, <1>8, <2>2
      <4> QED BY <1>10, <1>11, <3>2, <4>1, <4>2 DEF Waits
    <3> QED BY <2>2, <3>1, <3>2
  <2> QED BY <1>9, <2>1, <2>2
<1>13. KnowsSaved(w) /\ w.saved # None /\ OnRecord(w.saved)
  BY <1>4, <1>10 DEF KnowsSaved
<1>14. m' = w /\ calls' = (calls \ {c}) \cup new /\ Noted(c) /\ UNCHANGED <<page, known, records>>
  BY <1>3
<1>15. w \in Wizard BY <1>9
<1> HIDE DEF o
<1> QED BY <1>1, <1>5, <1>6, <1>10, <1>12, <1>13, <1>14, <1>15, ResultKeeps

(* What a save that did not commit leaves: a wizard that does not test.    *)
LEMMA NotCommittedKeeps ==
  ASSUME OnboardingInv, NEW c \in calls, c.kind \in {"save", "query"}, Expected(c),
         NEW w, w \in Wizard, SameGathered(w, m), w.models = m.models,
         w.id = m.id, w.flow = m.flow, w.spent = m.spent, w.step = m.step,
         w.next = m.next, w.authing = m.authing, w.pulling = m.pulling,
         ~w.adding, w.operation = c.about, w.added = m.added, w.saved = m.saved,
         w.tested = m.tested, w.unresolved \/ Settled(c.about),
         m' = w, Ended(c, {}), UNCHANGED <<page, known, records>>,
         mail' = mail \/ (Post("quit", None) /\ Settled(c.about))
  PROVE  Carries
<1>1. CallOK(c) /\ Current(c) BY Answering DEF Expected
<1>2. c.about \in Operations BY <1>1 DEF CallOK, About
<1> DEFINE new == {}
<1>3. calls' = (calls \ {c}) \cup new /\ Noted(c) BY DEF Ended
<1>4. \A d \in new : FALSE OBVIOUS
<1> HIDE DEF new
<1>5. /\ w.unresolved => w.operation \in Operations
      /\ w.saved # None => OnRecord(w.saved)
  BY <1>2 DEF OnboardingInv, SavedOnRecord
<1>6. ASSUME ~foreign, Waits(m, c) PROVE AllSettled \/ (mail' = mail /\ Orders(w))
  <2>1. m.step = "testConnection" BY <1>6 DEF Waits
  <2>2. ASSUME NEW q \in Submitted \ late, q # c.about \/ Settled(c.about) PROVE Settled(q)
    BY <1>2, <1>6, <2>2, OthersSettled DEF Expected
  <2>3. CASE Settled(c.about) BY <2>2, <2>3 DEF AllSettled
  <2>4. CASE ~Settled(c.about)
    <3>1. ASSUME NEW q \in Submitted \ late, ~Settled(q) PROVE ~Moving /\ Holds(w, q)
      <4>1. q = c.about BY <2>2, <3>1
      <4>2. ~Moving BY <1>6, <3>1, SettledElsewhere DEF AllSettled
      <4> QED BY <2>1, <2>4, <4>1, <4>2 DEF Holds
    <3> QED BY <2>4, <3>1 DEF Orders
  <2> QED BY <2>3, <2>4
<1>7. KnowsSaved(m) => KnowsSaved(w) BY DEF KnowsSaved
<1>8. mail' \in [Letters -> Nat] /\ (~foreign => MailIsTrue')
  <2>1. \A p : OnRecord(p)' = OnRecord(p) BY DEF records, OnRecord
  <2>2. CASE mail' = mail BY <2>1, <2>2 DEF OnboardingInv, StateOK, MailIsTrue
  <2>3. CASE Post("quit", None)
    <3>1. <<"quit", None>> \in Letters BY DEF Letters, Types
    <3> QED BY <2>1, <2>3, <3>1, Posted DEF OnboardingInv, MailIsTrue
  <2> QED BY <2>2, <2>3
<1>9. ASSUME ~foreign PROVE mail' = mail \/ AllSettled
  BY <1>2, <1>9, OthersSettled DEF Expected, AllSettled
<1> QED BY <1>1, <1>3, <1>4, <1>5, <1>6, <1>7, <1>8, <1>9, ResultKeeps

LEMMA KeepsFailed ==
  ASSUME OnboardingInv, NEW c \in calls, c.kind \in {"save", "query"}, Expected(c),
         Failed(c) \/ Unresolved(c), UNCHANGED records
  PROVE  Carries
<1>1. CallOK(c) /\ m \in Wizard /\ page = "wizard" BY Answering DEF Expected
<1>2. c.about \in Operations BY <1>1 DEF CallOK, About
<1> DEFINE v == Result(c)
<1>3. /\ v \in Wizard /\ SameGathered(v, m) /\ v.models = m.models
      /\ v.id = m.id /\ v.flow = m.flow /\ v.spent = m.spent /\ v.step = m.step
      /\ v.next = m.next /\ v.authing = m.authing /\ v.pulling = m.pulling
      /\ ~v.adding /\ ~v.unresolved /\ v.operation = c.about
      /\ v.testing = m.testing /\ v.added = m.added /\ v.saved = m.saved
      /\ v.tested = m.tested
  BY <1>1, <1>2, ResultFields
<1>4. CASE Failed(c)
  <2>0. Settled(c.about) BY <1>4 DEF Failed, Settled
  <2> DEFINE w == [v EXCEPT !.testing = FALSE, !.quitRequested = FALSE]
  <2>1. /\ m' = w /\ Ended(c, {}) /\ UNCHANGED <<page, known, records>>
        /\ mail' = mail \/ Post("quit", None)
    BY <1>4 DEF Failed
  <2> HIDE DEF v
  <2>2. w \in Wizard BY <1>3, Zenon DEF Wizard
  <2>3. /\ SameGathered(w, v) /\ w.models = v.models
        /\ w.id = v.id /\ w.flow = v.flow /\ w.spent = v.spent /\ w.step = v.step
        /\ w.next = v.next /\ w.authing = v.authing /\ w.pulling = v.pulling
        /\ w.adding = v.adding /\ w.operation = v.operation
        /\ w.added = v.added /\ w.saved = v.saved /\ w.tested = v.tested
    BY <1>3, Zenon DEF Wizard, SameGathered
  <2> HIDE DEF w
  <2>4. SameGathered(w, m) BY <1>3, <2>3 DEF SameGathered
  <2> QED BY <1>3, <2>0, <2>1, <2>2, <2>3, <2>4, NotCommittedKeeps
<1>5. CASE Unresolved(c)
  <2> DEFINE w == [v EXCEPT !.testing = FALSE, !.unresolved = TRUE]
  <2>1. m' = w /\ Ended(c, {}) /\ UNCHANGED <<page, known, records>> /\ mail' = mail
    BY <1>5 DEF Unresolved, app
  <2> HIDE DEF v
  <2>2. w \in Wizard BY <1>3, Zenon DEF Wizard
  <2>3. /\ SameGathered(w, v) /\ w.models = v.models
        /\ w.id = v.id /\ w.flow = v.flow /\ w.spent = v.spent /\ w.step = v.step
        /\ w.next = v.next /\ w.authing = v.authing /\ w.pulling = v.pulling
        /\ w.adding = v.adding /\ w.operation = v.operation /\ w.unresolved
        /\ w.added = v.added /\ w.saved = v.saved /\ w.tested = v.tested
    BY <1>3, Zenon DEF Wizard, SameGathered
  <2> HIDE DEF w
  <2>4. SameGathered(w, m) BY <1>3, <2>3 DEF SameGathered
  <2> QED BY <1>3, <2>1, <2>2, <2>3, <2>4, NotCommittedKeeps
<1> QED BY <1>4, <1>5

LEMMA KeepsSaveAnswer ==
  ASSUME OnboardingInv, NEW o \in Operations, SaveAnswer(o)
  PROVE  Carries
<1>1. PICK c \in calls : /\ c.kind \in {"save", "query"} /\ Expected(c)
                         /\ Committed(c) \/ Failed(c) \/ Unresolved(c)
  BY DEF SaveAnswer
<1>2. UNCHANGED records BY DEF SaveAnswer
<1> QED BY <1>1, <1>2, KeepsCommitted, KeepsFailed

-----------------------------------------------------------------------------
(***************************************************************************)
(* The daemon.                                                             *)
(***************************************************************************)
LEMMA DaemonKeeps ==
  ASSUME OnboardingInv, UNCHANGED interface, RecordsOK', Submitted' = Submitted,
         \A o \in Operations :
           /\ Settled(o) => Settled(o)'
           /\ saves[o].state = "committed" =>
                saves'[o].state = "committed" /\ saves'[o].alias = saves[o].alias
  PROVE  Carries
<1>1. StateOK' BY DEF interface, app, OnboardingInv, StateOK, WizardOK, Past
<1>2. \A p : OnRecord(p) => OnRecord(p)' BY DEF OnRecord
<1>3. SavedOnRecord' BY <1>2 DEF interface, OnboardingInv, SavedOnRecord
<1>4. ReportIsTrue'
  <2>1. foreign \/ \A p \in known \ Configured : OnRecord(p)
    BY DEF OnboardingInv, ReportIsTrue, OnRecord
  <2>2. foreign' \/ \A p \in known' \ Configured : OnRecord(p)'
    BY <1>2, <2>1 DEF interface, app
  <2> QED BY <2>2 DEF ReportIsTrue, OnRecord
<1>5. (~foreign => MailIsTrue /\ NothingUnseen)'
  <2>1. (Moving)' = Moving BY DEF interface, app, Moving
  <2>2. (~foreign => MailIsTrue)' BY <1>2 DEF interface, app, OnboardingInv, MailIsTrue
  <2>3. (~foreign => NothingUnseen)'
    BY <2>1 DEF interface, app, OnboardingInv, NothingUnseen, Holds, Submitted
  <2> QED BY <2>2, <2>3
<1>6. (~foreign /\ page = "wizard" => InOrder)'
  BY DEF interface, app, OnboardingInv, InOrder, Gathered, OnItsWay, Inputs, OneAnswer,
         Own, Waits, KnowsSaved, TestsSaved
<1> QED BY <1>1, <1>3, <1>4, <1>5, <1>6 DEF OnboardingInv, Carries, interface, app

LEMMA KeepsReceive ==
  ASSUME OnboardingInv, NEW o \in Operations, Receive(o)
  PROVE  Carries
<1>1. RecordsOK BY DEF OnboardingInv, StateOK
<1>2. request[o].state = "sent" /\ UNCHANGED interface BY DEF Receive
<1>3. PICK s \in {"journaled", "refused", "lost"} :
        request' = [request EXCEPT ![o].state = s]
  BY DEF Receive
<1>4. \/ UNCHANGED saves
      \/ /\ saves[o] = Daemon!Unsaved
         /\ saves' = [saves EXCEPT ![o] = [state |-> "pending", alias |-> request[o].alias,
                                           secret |-> None]]
  BY DEF Receive, Daemon!Submit
<1>5. request[o].alias \in Providers BY <1>1, <1>2 DEF RecordsOK
<1>6. /\ request' \in [Operations -> [state : {"none", "sent", "journaled", "refused", "lost"},
                                      alias : Types]]
      /\ \A p \in Operations : /\ request'[p].alias = request[p].alias
                               /\ p # o => request'[p] = request[p]
      /\ request'[o].state = s
  BY <1>1, <1>3 DEF RecordsOK
<1>7. /\ saves' \in [Operations -> [state : Saved, alias : Types, secret : {None}]]
      /\ \A p \in Operations : saves'[p] = saves[p] \/
           (p = o /\ saves[p].state = "absent" /\ saves'[p].alias \in Providers)
  BY <1>1, <1>4, <1>5 DEF RecordsOK, Daemon!Unsaved, Saved, Types
<1>8. RecordsOK' BY <1>1, <1>2, <1>5, <1>6, <1>7 DEF RecordsOK
<1>9. Submitted' = Submitted
  BY <1>2, <1>6 DEF Submitted, Unused
<1>10. ASSUME NEW p \in Operations
       PROVE  /\ Settled(p) => Settled(p)'
              /\ saves[p].state = "committed" =>
                   saves'[p].state = "committed" /\ saves'[p].alias = saves[p].alias
  <2>1. saves[p].state \in {"committed", "failed"} => saves'[p] = saves[p] BY <1>7
  <2>2. request[p].state = "refused" => request'[p] = request[p] BY <1>2, <1>6
  <2> QED BY <2>1, <2>2 DEF Settled
<1> QED BY <1>2, <1>8, <1>9, <1>10, DaemonKeeps

(* A flight of the daemon or its restart moves saves on, never back.       *)
LEMMA SavesMoveOn ==
  ASSUME OnboardingInv, UNCHANGED <<interface, request>>,
         saves' \in [Operations -> [state : Saved, alias : Types, secret : {None}]],
         \A o \in Operations :
           /\ saves'[o].alias = saves[o].alias
           /\ saves[o].state \in {"absent", "committed", "failed"} =>
                saves'[o].state = saves[o].state
  PROVE  Carries
<1>1. RecordsOK BY DEF OnboardingInv, StateOK
<1>2. RecordsOK' BY <1>1 DEF RecordsOK
<1>3. Submitted' = Submitted BY DEF Submitted, Unused
<1>4. \A o \in Operations :
        /\ Settled(o) => Settled(o)'
        /\ saves[o].state = "committed" =>
             saves'[o].state = "committed" /\ saves'[o].alias = saves[o].alias
  BY DEF Settled
<1> QED BY <1>2, <1>3, <1>4, DaemonKeeps

LEMMA KeepsFlight ==
  ASSUME OnboardingInv, NEW o \in Operations, Flight(o)
  PROVE  Carries
<1>1. RecordsOK BY DEF OnboardingInv, StateOK
<1>2. PICK s \in {"applied", "failed", "committed"} :
        /\ saves[o].state \in {"pending", "applied"}
        /\ saves' = [saves EXCEPT ![o].state = s]
  BY DEF Flight, Daemon!Apply, Daemon!Fail, Daemon!Finish
<1>3. /\ saves' \in [Operations -> [state : Saved, alias : Types, secret : {None}]]
      /\ \A p \in Operations : /\ saves'[p].alias = saves[p].alias
                               /\ p # o => saves'[p] = saves[p]
  BY <1>1, <1>2 DEF RecordsOK, Saved
<1>4. UNCHANGED <<interface, request>> BY DEF Flight
<1> QED BY <1>2, <1>3, <1>4, SavesMoveOn

LEMMA KeepsRestart ==
  ASSUME OnboardingInv, Restart
  PROVE  Carries
<1>1. RecordsOK BY DEF OnboardingInv, StateOK
<1>2. PICK finished \in SUBSET Operations : Daemon!Recover(finished) BY DEF Restart
<1>3. /\ \A o \in finished : saves[o].state = "applied"
      /\ saves' = [o \in Operations |->
                     IF saves[o].state = "pending"
                     THEN [saves[o] EXCEPT !.state = "failed"]
                     ELSE IF o \in finished
                     THEN [saves[o] EXCEPT !.state = "committed"]
                     ELSE saves[o]]
  BY <1>2 DEF Daemon!Recover
<1>4. ASSUME NEW o \in Operations
      PROVE  /\ saves'[o] \in [state : Saved, alias : Types, secret : {None}]
             /\ saves'[o].alias = saves[o].alias
             /\ saves[o].state \in {"absent", "committed", "failed"} =>
                  saves'[o].state = saves[o].state
  <2>1. saves[o] \in [state : Saved, alias : Types, secret : {None}]
    BY <1>1 DEF RecordsOK
  <2> QED BY <1>3, <2>1 DEF Saved
<1>5. saves' \in [Operations -> [state : Saved, alias : Types, secret : {None}]]
  BY <1>3, <1>4
<1>6. UNCHANGED <<interface, request>> BY DEF Restart
<1> QED BY <1>4, <1>5, <1>6, SavesMoveOn

-----------------------------------------------------------------------------
(***************************************************************************)
(* The theorems.                                                           *)
(***************************************************************************)
(* Such a message is handled only when it is under way.                    *)
LEMMA NextCarries ==
  ASSUME OnboardingInv, [Next]_vars
  PROVE  Carries \/ (OnboardingInv' /\ Moving)
<1>1. ASSUME NEW o \in Operations, Receive(o) \/ Flight(o) PROVE Carries
  BY <1>1, KeepsReceive, KeepsFlight
<1>2. ASSUME NEW o \in Operations, SaveAnswer(o) PROVE Carries
  BY <1>2, KeepsSaveAnswer
<1>3. CASE UNCHANGED vars
  <2>1. UNCHANGED interface /\ UNCHANGED <<request, saves>>
    BY <1>3 DEF vars, interface, app
  <2>2. RecordsOK' /\ Submitted' = Submitted
    BY <2>1 DEF OnboardingInv, StateOK, RecordsOK, Submitted, Unused
  <2>3. \A o \in Operations :
          /\ Settled(o) => Settled(o)'
          /\ saves[o].state = "committed" =>
               saves'[o].state = "committed" /\ saves'[o].alias = saves[o].alias
    BY <2>1 DEF Settled
  <2> QED BY <2>1, <2>2, <2>3, DaemonKeeps
<1>4. ASSUME NEW l \in Letters, Handle(l) PROVE Moving BY <1>4 DEF Handle, Moving
<1>5. CASE NavigateToOnboarding \/ Over
  <2>1. <<"open", None>> \in Letters /\ Exit \in Letters BY DEF Letters, Types, Exit
  <2>2. Moving BY <1>4, <1>5, <2>1 DEF NavigateToOnboarding, Over
  <2> QED BY <1>5, <2>2, KeepsNavigateToOnboarding, KeepsOver
<1>6. CASE OnboardingDone \/ OnboardingCancelled \/ OnboardingQuit
  <2>1. \E l \in Letters : Handle(l)
    BY <1>6 DEF OnboardingDone, OnboardingCancelled, OnboardingQuit, Letters
  <2> QED BY <1>4, <1>6, <2>1, KeepsLeaving
<1> QED
  BY <1>1, <1>2, <1>3, <1>5, <1>6, KeepsSelectProvider, KeepsChooseAuth, KeepsEnterAPIKey,
     KeepsChooseOllama, KeepsEnterSettings, KeepsEnterBaseURL, KeepsStartPull,
     KeepsSelectModel, KeepsBack, KeepsBackFromCommand, KeepsAnswer, KeepsIgnored,
     KeepsStartTest, KeepsRetryOperation, KeepsRetryTest, KeepsCancelAfterAdd,
     KeepsBackFromTest, KeepsTestAnswer, KeepsCancel, KeepsRequestQuit,
     KeepsReconfigure, KeepsRestart
     DEF Next

(* The invariant of the wizard holds in every reachable state.             *)
THEOREM OnboardingInductive == Spec => []OnboardingInv
<1>1. Init => OnboardingInv BY InitInv
<1>2. OnboardingInv /\ [Next]_vars => OnboardingInv' BY NextCarries DEF Carries
<1> QED BY <1>1, <1>2, PTL DEF Spec

(* Every variable of the interface keeps its type (onboarding.go).         *)
THEOREM OnboardingTypeCorrect == Spec => []TypeOK
<1>1. OnboardingInv => TypeOK
  <2> SUFFICES ASSUME OnboardingInv PROVE TypeOK OBVIOUS
  <2>1. /\ page \in {"wizard", "chat", "over"} /\ known \subseteq Providers
        /\ m \in Wizard /\ m.id <= MaxWizards /\ m.spent + m.flow <= MaxFlow /\ RecordsOK
        /\ mail \in [Letters -> Nat] /\ late \subseteq Operations /\ hurried \in Nat
    BY DEF OnboardingInv, StateOK, WizardOK
  <2>2. /\ m.id \in Nat /\ m.spent \in Nat /\ m.flow \in Nat
        /\ m.provider \in Types /\ m.cli \in Types /\ m.saved \in Types
        /\ m.models \in InputSet \cup {None} /\ m.model \in InputSet \cup {None, Typed}
        /\ m.settings \in Values \cup {None} /\ m.url \in Values \cup {None}
        /\ m.operation \in Operations \cup {None}
    BY <2>1 DEF Wizard
  <2>3. m.id \in 0..MaxWizards /\ m.flow \in 0..MaxFlow
    BY <2>1, <2>2, OnboardingAssumption
  <2> QED BY <2>1, <2>2, <2>3 DEF TypeOK, RecordsOK
<1> QED BY <1>1, OnboardingInductive, PTL

(* A provider shown as configured is one the program found, or one that a  *)
(* save committed (recordProvider in app.go).                              *)
THEOREM ReportedIsTrue == Spec => []ReportIsTrue
<1>1. OnboardingInv => ReportIsTrue BY DEF OnboardingInv
<1> QED BY <1>1, OnboardingInductive, PTL

(* Only startTest sends a save. *)
LEMMA OnlyStartTestSubmits ==
  ASSUME [Next]_vars, OnboardingInv, Submits
  PROVE  StartTest
<1>1. PICK o \in Unused : request'[o].state = "sent" BY DEF Submits
<1>2. request[o].state = "none" /\ o \in Operations BY <1>1 DEF Unused
<1>3. request' # request BY <1>1, <1>2
<1>4. ASSUME NEW p \in Operations, Receive(p) PROVE FALSE
  <2>1. RecordsOK BY DEF OnboardingInv, StateOK
  <2>2. request[p].state = "sent" BY <1>4 DEF Receive
  <2>3. PICK s \in {"journaled", "refused", "lost"} :
          request' = [request EXCEPT ![p].state = s]
    BY <1>4 DEF Receive
  <2>4. request'[o] = request[o] BY <1>2, <2>1, <2>2, <2>3 DEF RecordsOK
  <2> QED BY <1>1, <1>2, <2>4
<1>5. ASSUME UNCHANGED request PROVE FALSE BY <1>3, <1>5
<1>6. ASSUME NEW w, Enter(w) \/ Stay(w) PROVE FALSE BY <1>5, <1>6 DEF Enter, Stay, records
<1>7. CASE \/ SelectProvider \/ ChooseAuth \/ RetryAuth \/ EnterAPIKey \/ ChooseOllama
           \/ EnterSettings \/ EnterBaseURL \/ SelectModel \/ EnterModel
           \/ Back \/ BackFromCommand \/ CancelAfterAdd \/ BackFromTest
  <2> HIDE DEF Enter, Stay
  <2> QED
    BY <1>6, <1>7
       DEF SelectProvider, ChooseAuth, RetryAuth, EnterAPIKey, ChooseOllama, EnterSettings,
           EnterBaseURL, SelectModel, EnterModel, Back, BackFromCommand, CancelAfterAdd,
           BackFromTest
<1>8. CASE \/ StartPull \/ Answer \/ Ignored \/ RetryOperation \/ RetryTest
           \/ (\E p \in Operations : SaveAnswer(p)) \/ TestAnswer
           \/ Cancel \/ Done \/ Reconfigure \/ RequestQuit \/ NavigateToOnboarding \/ Over
           \/ OnboardingDone \/ OnboardingCancelled \/ OnboardingQuit
           \/ (\E p \in Operations : Flight(p)) \/ Restart
  BY <1>5, <1>8
     DEF StartPull, Answer, Ignored, RetryOperation, RetryTest, SaveAnswer, TestAnswer,
         Cancel, Done, Reconfigure, RequestQuit, Quit, Ask, Stay, NavigateToOnboarding, Over,
         OnboardingDone, OnboardingCancelled, OnboardingQuit, Handle, Flight, Restart, records
<1>9. CASE UNCHANGED vars BY <1>5, <1>9 DEF vars
<1> QED BY <1>4, <1>7, <1>8, <1>9 DEF Next

(* When startTest sends a save, what it sends was gathered for it.         *)
LEMMA SendsOwnSetup ==
  ASSUME OnboardingInv, StartTest, ~foreign
  PROVE  /\ m.token # None => m.token.provider = m.provider
         /\ m.provider \in CredentialRequired => m.token # None
         /\ \/ m.model \in {Typed, Inputs(m)}
            \/ External(m.provider) /\ m.model = None /\ m.cli = m.provider
         /\ AllSettled
<1>1. /\ page = "wizard" /\ m.step \in Chosen
      /\ m.step = "testConnection" => ~m.unresolved /\ ~m.testing
  BY Zenon DEF StartTest, Key, Chosen
<1>2. InOrder BY <1>1 DEF OnboardingInv
<1>3. m.step \in Credentialed BY <1>1 DEF Chosen, Credentialed
<1>4. AllSettled BY <1>1, <1>2, SettledElsewhere DEF InOrder, Chosen
<1> QED BY <1>1, <1>2, <1>3, <1>4 DEF InOrder, Gathered

(* A save carries only what was gathered for its provider (startTest, with *)
(* the flow numbers that tell answers apart).                              *)
THEOREM SavesAreOwn == Spec => SavesOwnSetup
<1>1. OnboardingInv /\ [Next]_vars =>
        [Submits => \/ foreign
                    \/ /\ m.token # None => m.token.provider = m.provider
                       /\ m.provider \in CredentialRequired => m.token # None
                       /\ \/ m.model \in {Typed, Inputs(m)}
                          \/ External(m.provider) /\ m.model = None /\ m.cli = m.provider]_vars
  BY OnlyStartTestSubmits, SendsOwnSetup
<1> QED BY <1>1, OnboardingInductive, PTL DEF Spec, SavesOwnSetup

(* A step that asks for another page, or takes the user there.             *)
LEMMA LeavesSettled ==
  ASSUME OnboardingInv, [Next]_vars, Asks \/ Leaves, ~foreign
  PROVE  AllSettled
<1>1. CASE Moving BY <1>1, SettledElsewhere
<1>2. CASE Carries
  <2>1. ~Leaves BY <1>2 DEF Carries, Leaves
  <2>2. mail \in [Letters -> Nat] BY DEF OnboardingInv, StateOK
  <2>3. mail' # mail BY <2>1, <2>2 DEF Asks
  <2> QED BY <1>2, <2>3 DEF Carries
<1> QED BY <1>1, <1>2, NextCarries

(* A second save, a request to leave the wizard, and its end find every    *)
(* earlier save settled in the daemon but those a key sent while such a    *)
(* request was not handled yet (startTest, retryProviderOperation,         *)
(* RequestQuit, the answers to a save in Update, and App.Update).          *)
THEOREM NothingIsAbandoned == Spec => NothingAbandoned
<1>1. OnboardingInv /\ [Next]_vars =>
        [Submits \/ Asks \/ Leaves => foreign \/ \A o \in Submitted \ late : Settled(o)]_vars
  BY OnlyStartTestSubmits, SendsOwnSetup, LeavesSettled DEF AllSettled
<1> QED BY <1>1, OnboardingInductive, PTL DEF Spec, NothingAbandoned

(* Every step of the wizard and its daemon is a step of ProviderSave.      *)
LEMMA DaemonStep ==
  ASSUME OnboardingInv, [Next]_vars
  PROVE  [Daemon!Next]_(Daemon!vars)
<1>1. CASE UNCHANGED saves BY <1>1 DEF Daemon!vars
<1>2. ASSUME NEW o \in Operations, Receive(o), ~UNCHANGED saves PROVE Daemon!Next
  <2>1. Daemon!Submit(o, request[o].alias, None) /\ request[o].state = "sent"
    BY <1>2 DEF Receive
  <2>2. request[o].alias \in Providers
    BY <2>1 DEF OnboardingInv, StateOK, RecordsOK
  <2> QED BY <2>1, <2>2 DEF Daemon!Next
<1>3. ASSUME NEW o \in Operations, Flight(o) PROVE Daemon!Next
  BY <1>3 DEF Flight, Daemon!Next
<1>4. CASE Restart
  BY <1>4 DEF Restart, Daemon!Next
<1>5. ASSUME NEW w, Enter(w) \/ Stay(w) PROVE UNCHANGED saves
  BY <1>5 DEF Enter, Stay, records
<1>6. CASE \/ SelectProvider \/ ChooseAuth \/ RetryAuth \/ EnterAPIKey \/ ChooseOllama
           \/ EnterSettings \/ EnterBaseURL \/ SelectModel \/ EnterModel
           \/ Back \/ BackFromCommand \/ CancelAfterAdd \/ BackFromTest
  BY <1>1, <1>5, <1>6
     DEF SelectProvider, ChooseAuth, RetryAuth, EnterAPIKey, ChooseOllama, EnterSettings,
         EnterBaseURL, SelectModel, EnterModel, Back, BackFromCommand, CancelAfterAdd,
         BackFromTest
<1>7. CASE \/ StartPull \/ Answer \/ Ignored \/ StartTest \/ RetryOperation \/ RetryTest
           \/ (\E o \in Operations : SaveAnswer(o)) \/ TestAnswer
           \/ Cancel \/ Done \/ Reconfigure \/ RequestQuit \/ NavigateToOnboarding \/ Over
           \/ OnboardingDone \/ OnboardingCancelled \/ OnboardingQuit \/ UNCHANGED vars
  BY <1>1, <1>7
     DEF StartPull, Answer, Ignored, StartTest, RetryOperation, RetryTest, SaveAnswer,
         TestAnswer, Cancel, Done, Reconfigure, RequestQuit, Quit, Ask, NavigateToOnboarding,
         Over, OnboardingDone, OnboardingCancelled, OnboardingQuit, Handle, Stay, records, vars
<1> QED BY <1>1, <1>2, <1>3, <1>4, <1>6, <1>7 DEF Next

(* What the wizard takes the daemon to be keeps the promise of a save      *)
(* (Commit, runFlight and reconcileStartup, as Receive, Flight and Restart *)
(* have them), which ProviderOperations implements: it relies on no more.  *)
THEOREM WizardRestsOnPromise == Spec => Daemon!Spec
<1>1. Init => Daemon!Init
  BY DEF Init, Daemon!Init
<1>2. OnboardingInv /\ [Next]_vars => [Daemon!Next]_(Daemon!vars)
  BY DaemonStep
<1> QED BY <1>1, <1>2, OnboardingInductive, PTL DEF Spec, Daemon!Spec

-----------------------------------------------------------------------------
(***************************************************************************)
(* The locks: the inductive invariant.                                     *)
(***************************************************************************)
CallerPoints == {"idle", "commit", "get", "remove", "rows", "journal", "gate", "insert", "wait",
                 "query", "reread", "finalize", "confirm", "begin", "tx"}
FlightPoints == {"idle", "store", "rows", "fail", "begin", "tx", "confirm", "record", "land",
                 "release"}
HoldsMu == {"journal", "gate", "insert"}
HoldsRows == {"begin", "tx", "confirm", "record"}

LocksTypeOK ==
  /\ mu \in Callers \cup {Nobody}
  /\ {rowsMu, conn} \subseteq Threads \cup {Nobody}
  /\ gate \in [Aliases -> Threads \cup {Nobody}]
  /\ flights \subseteq Aliases
  /\ at \in [Threads -> CallerPoints \cup FlightPoints]
  /\ \A c \in Callers : at[c] \in CallerPoints
  /\ \A a \in Aliases : at[a] \in FlightPoints
  /\ alias \in [Callers -> Aliases \cup {Nobody}]

(* m.mu, the row mutex and the connection are held exactly at the points   *)
(* between taking them and giving them back.                               *)
HoldersOK ==
  /\ \A c \in Callers : at[c] \in HoldsMu <=> mu = c
  /\ \A t \in Threads : at[t] \in HoldsRows <=> rowsMu = t
  /\ \A t \in Threads : at[t] = "tx" <=> conn = t

(* A flight holds its gate from its first step to its last; a handler      *)
(* holds one while it inserts or removes.                                  *)
GatesOK ==
  \A a \in Aliases :
    /\ gate[a] \in Callers \cup {a, Nobody}
    /\ gate[a] = a <=> at[a] # "idle"
    /\ a \in flights <=> at[a] \notin {"idle", "release"}
    /\ \A c \in Callers :
         gate[a] = c => alias[c] = a /\ at[c] \in {"insert", "rows", "begin", "tx"}

(* Who goes for a gate under m.mu has seen that no flight has it, and none *)
(* starts without m.mu.                                                    *)
CallersOK ==
  \A c \in Callers :
    /\ at[c] \in {"commit", "journal", "gate", "insert", "wait", "remove"} => alias[c] \in Aliases
    /\ at[c] = "insert" => gate[alias[c]] = c
    /\ at[c] = "gate" => alias[c] \notin flights

LocksInv == LocksTypeOK /\ HoldersOK /\ GatesOK /\ CallersOK

-----------------------------------------------------------------------------
LEMMA LocksInitially == LocksInit => LocksInv
<1> SUFFICES ASSUME LocksInit PROVE LocksInv
  OBVIOUS
<1>1. LocksTypeOK
  BY DEF LocksInit, LocksTypeOK, CallerPoints, FlightPoints, Threads
<1>2. HoldersOK
  BY ThreadsAssumption DEF LocksInit, HoldersOK, HoldsMu, HoldsRows, Threads
<1>3. GatesOK
  BY ThreadsAssumption DEF LocksInit, GatesOK, Threads
<1>4. CallersOK
  BY DEF LocksInit, CallersOK, Threads
<1> QED BY <1>1, <1>2, <1>3, <1>4 DEF LocksInv

(* The calls: a handler that holds nothing sets out. *)
LEMMA CallsKeepLocks ==
  ASSUME LocksInv, NEW c \in Callers, CallRPC(c)
  PROVE  LocksInv'
<1> USE ThreadsAssumption DEF Threads
<1>1. PICK p \in {"commit", "get", "remove", "rows"}, a \in Aliases \cup {Nobody} :
        /\ at[c] = "idle"
        /\ at' = [at EXCEPT ![c] = p] /\ alias' = [alias EXCEPT ![c] = a]
        /\ p \in {"commit", "remove"} => a \in Aliases
  BY DEF CallRPC, CallGet, CallUpdate, CallCommit, CallRemove, Goto
<1>2. UNCHANGED <<mu, gate, rowsMu, conn, flights, stop>>
  BY DEF CallRPC, CallGet, CallUpdate, CallCommit, CallRemove
<1>3. LocksTypeOK'
  BY <1>1, <1>2 DEF LocksInv, LocksTypeOK, CallerPoints
<1>4. HoldersOK'
  BY <1>1, <1>2 DEF LocksInv, LocksTypeOK, HoldersOK, HoldsMu, HoldsRows
<1>5. GatesOK'
  BY <1>1, <1>2 DEF LocksInv, LocksTypeOK, GatesOK
<1>6. CallersOK'
  BY <1>1, <1>2 DEF LocksInv, LocksTypeOK, CallersOK
<1> QED BY <1>3, <1>4, <1>5, <1>6 DEF LocksInv

(* The steps of a handler to and from m.mu and the gate. *)
LEMMA HandlersKeepLocks ==
  ASSUME LocksInv, NEW c \in Callers,
         \/ LockMu(c) \/ AdmitGet(c) \/ Journal(c) \/ LockGate(c) \/ Insert(c)
         \/ Wait(c) \/ Query(c) \/ Reread(c) \/ LockGateToRemove(c)
  PROVE  LocksInv'
<1> USE ThreadsAssumption DEF Threads, LocksInv, Goto
<1>1. CASE LockMu(c) \/ AdmitGet(c) \/ Journal(c)
  <2>1. LocksTypeOK'
    BY <1>1 DEF LocksTypeOK, CallerPoints, LockMu, AdmitGet, Journal
  <2>2. HoldersOK'
    BY <1>1 DEF LocksTypeOK, HoldersOK, HoldsMu, HoldsRows, LockMu, AdmitGet, Journal
  <2>3. GatesOK'
    BY <1>1 DEF LocksTypeOK, GatesOK, LockMu, AdmitGet, Journal
  <2>4. CallersOK'
    BY <1>1 DEF LocksTypeOK, CallersOK, LockMu, AdmitGet, Journal
  <2> QED BY <2>1, <2>2, <2>3, <2>4
<1>2. CASE Wait(c) \/ Query(c) \/ Reread(c)
  <2>1. LocksTypeOK'
    BY <1>2 DEF LocksTypeOK, CallerPoints, Wait, Query, Reread
  <2>2. HoldersOK'
    BY <1>2 DEF LocksTypeOK, HoldersOK, HoldsMu, HoldsRows, Wait, Query, Reread
  <2>3. GatesOK'
    BY <1>2 DEF LocksTypeOK, GatesOK, Wait, Query, Reread
  <2>4. CallersOK'
    BY <1>2 DEF LocksTypeOK, CallersOK, Wait, Query, Reread
  <2> QED BY <2>1, <2>2, <2>3, <2>4
<1>3. CASE LockGate(c) \/ LockGateToRemove(c)
  <2>1. alias[c] \in Aliases
    BY <1>3 DEF CallersOK, LockGate, LockGateToRemove
  <2>2. LocksTypeOK'
    BY <1>3, <2>1 DEF LocksTypeOK, CallerPoints, LockGate, LockGateToRemove
  <2>3. HoldersOK'
    BY <1>3 DEF LocksTypeOK, HoldersOK, HoldsMu, HoldsRows, LockGate, LockGateToRemove
  <2>4. GatesOK'
    BY <1>3, <2>1 DEF LocksTypeOK, GatesOK, LockGate, LockGateToRemove
  <2>5. CallersOK'
    BY <1>3, <2>1 DEF LocksTypeOK, CallersOK, LockGate, LockGateToRemove
  <2> QED BY <2>2, <2>3, <2>4, <2>5
<1>4. CASE Insert(c)
  <2>1. alias[c] \in Aliases /\ gate[alias[c]] = c /\ at[alias[c]] = "idle" /\ mu = c
    BY <1>4 DEF CallersOK, GatesOK, HoldersOK, HoldsMu, Insert
  <2>2. LocksTypeOK'
    BY <1>4, <2>1 DEF LocksTypeOK, CallerPoints, FlightPoints, Insert
  <2>3. HoldersOK'
    BY <1>4, <2>1 DEF LocksTypeOK, HoldersOK, HoldsMu, HoldsRows, Insert
  <2>4. GatesOK'
    BY <1>4, <2>1 DEF LocksTypeOK, GatesOK, Insert
  <2>5. CallersOK'
    BY <1>4, <2>1 DEF LocksTypeOK, CallersOK, GatesOK, HoldersOK, HoldsMu, Insert
  <2> QED BY <2>2, <2>3, <2>4, <2>5
<1> QED BY <1>1, <1>2, <1>3, <1>4

(* The steps of a flight outside the row mutex. *)
LEMMA FlightsKeepLocks ==
  ASSUME LocksInv, NEW a \in Aliases, Store(a) \/ Land(a) \/ Release(a)
  PROVE  LocksInv'
<1> USE ThreadsAssumption DEF Threads, LocksInv, Goto
<1>1. LocksTypeOK'
  BY DEF LocksTypeOK, FlightPoints, Store, Land, Release
<1>2. HoldersOK'
  BY DEF LocksTypeOK, HoldersOK, HoldsMu, HoldsRows, Store, Land, Release
<1>3. GatesOK'
  BY DEF LocksTypeOK, GatesOK, Store, Land, Release
<1>4. CallersOK'
  BY DEF LocksTypeOK, GatesOK, CallersOK, Store, Land, Release
<1> QED BY <1>1, <1>2, <1>3, <1>4

(* The steps of flights and handlers under the row mutex. *)
LEMMA RowsKeepLocks ==
  ASSUME LocksInv, NEW t \in Threads, LockRows(t) \/ Begin(t) \/ EndTransaction(t) \/ Settle(t)
  PROVE  LocksInv'
<1> USE ThreadsAssumption DEF Threads, LocksInv, Goto
<1>1. LocksTypeOK'
  BY DEF LocksTypeOK, CallerPoints, FlightPoints, NeedRows, LockRows, Begin, EndTransaction, Settle
<1>2. HoldersOK'
  BY DEF LocksTypeOK, HoldersOK, HoldsMu, HoldsRows, NeedRows, LockRows, Begin, EndTransaction, Settle
<1>3. GatesOK'
  BY DEF LocksTypeOK, GatesOK, CallerPoints, FlightPoints, NeedRows, LockRows, Begin, EndTransaction, Settle
<1>4. CallersOK'
  BY DEF LocksTypeOK, CallersOK, NeedRows, LockRows, Begin, EndTransaction, Settle
<1> QED BY <1>1, <1>2, <1>3, <1>4

LEMMA LocksInductive == LocksInv /\ [LocksNext]_locksVars => LocksInv'
<1> SUFFICES ASSUME LocksInv, [LocksNext]_locksVars PROVE LocksInv'
  OBVIOUS
<1>1. CASE \E c \in Callers : CallRPC(c)
  BY <1>1, CallsKeepLocks
<1>2. ASSUME NEW t \in Threads, Advance(t) PROVE LocksInv'
  BY <1>2, HandlersKeepLocks, FlightsKeepLocks, RowsKeepLocks DEF Advance
<1>3. CASE BeginStop \/ EndStop \/ UNCHANGED locksVars
  BY <1>3 DEF LocksInv, LocksTypeOK, HoldersOK, GatesOK, CallersOK, BeginStop, EndStop, locksVars
<1> QED BY <1>1, <1>2, <1>3 DEF LocksNext

(* Who is at which point holds what that point needs (Commit, runFlight,   *)
(* acquireAlias, finalizeOperation and the provider RPCs).                 *)
THEOREM LocksInvariant == LocksSpec => []LocksInv
BY LocksInitially, LocksInductive, PTL DEF LocksSpec

-----------------------------------------------------------------------------
(* Why nobody waits in a circle: a transaction waits for nothing, who      *)
(* needs the connection waits for a transaction, who needs the row mutex   *)
(* for those, and so on in the order connection, row mutex, gate of a      *)
(* removal, m.mu, gate of a flight.                                        *)
LEMMA LocksAreOrdered == LocksInv => NoDeadlock
<1> SUFFICES ASSUME LocksInv, NEW T \in SUBSET Threads,
                    \A t \in T : WaitsFor(t) \subseteq T,
                    \A t \in T : at[t] # "idle" => WaitsFor(t) # {}
             PROVE  \A t \in T : at[t] = "idle"
  BY DEF NoDeadlock
<1> DEFINE Nowhere(P) == \A t \in T : at[t] \notin P
<1>1. Nowhere({"tx", "store", "release"})
  BY DEF WaitsFor, NeedMu, NeedGate, NeedRows, NeedConn
<1>2. conn \notin T
  BY <1>1, ThreadsAssumption DEF LocksInv, HoldersOK, Threads
<1>3. Nowhere(NeedConn)
  <2> SUFFICES ASSUME NEW t \in T, at[t] \in NeedConn PROVE FALSE
    OBVIOUS
  <2>1. WaitsFor(t) = {u \in Threads : conn = u}
    BY DEF WaitsFor, NeedMu, NeedGate, NeedRows, NeedConn
  <2> QED BY <1>2, <2>1 DEF NeedConn
<1>4. rowsMu \notin T
  BY <1>1, <1>3 DEF LocksInv, HoldersOK, HoldsRows, NeedConn
<1>5. Nowhere(NeedRows)
  <2> SUFFICES ASSUME NEW t \in T, at[t] \in NeedRows PROVE FALSE
    OBVIOUS
  <2>1. WaitsFor(t) = {u \in Threads : rowsMu = u}
    BY DEF WaitsFor, NeedMu, NeedGate, NeedRows, NeedConn
  <2> QED BY <1>4, <2>1 DEF NeedRows
<1>6. \A a \in Aliases : gate[a] \in T => gate[a] = a /\ at[a] = "land"
  <2> SUFFICES ASSUME NEW a \in Aliases, gate[a] \in T PROVE gate[a] = a /\ at[a] = "land"
    OBVIOUS
  <2>1. gate[a] \notin Callers
    BY <1>1, <1>3, <1>5 DEF LocksInv, GatesOK, NeedConn, NeedRows
  <2>2. gate[a] = a /\ at[a] # "idle" /\ at[a] \in FlightPoints
    BY <2>1, ThreadsAssumption DEF LocksInv, LocksTypeOK, GatesOK, Threads
  <2> QED BY <2>2, <1>1, <1>3, <1>5 DEF FlightPoints, NeedConn, NeedRows
<1>7. Nowhere({"gate"})
  <2> SUFFICES ASSUME NEW c \in T, at[c] = "gate" PROVE FALSE
    OBVIOUS
  <2>1. c \in Callers /\ alias[c] \in Aliases /\ alias[c] \notin flights
    BY DEF LocksInv, LocksTypeOK, CallersOK, FlightPoints, Threads
  <2>2. WaitsFor(c) = {u \in Threads : gate[alias[c]] = u}
    BY DEF WaitsFor, NeedMu, NeedGate, NeedRows, NeedConn
  <2>3. at[alias[c]] = "land"
    BY <1>6, <2>1, <2>2
  <2> QED BY <2>1, <2>3 DEF LocksInv, GatesOK
<1>8. mu \notin T
  BY <1>3, <1>7, ThreadsAssumption DEF LocksInv, LocksTypeOK, HoldersOK, HoldsMu, NeedConn, Threads
<1>9. Nowhere(NeedMu)
  <2> SUFFICES ASSUME NEW t \in T, at[t] \in NeedMu PROVE FALSE
    OBVIOUS
  <2>1. WaitsFor(t) = {u \in Threads : mu = u}
    BY DEF WaitsFor, NeedMu, NeedGate, NeedRows, NeedConn
  <2> QED BY <1>8, <2>1 DEF NeedMu
<1>10. Nowhere({"remove"})
  <2> SUFFICES ASSUME NEW c \in T, at[c] = "remove" PROVE FALSE
    OBVIOUS
  <2>1. c \in Callers /\ alias[c] \in Aliases
    BY DEF LocksInv, LocksTypeOK, CallersOK, FlightPoints, Threads
  <2>2. WaitsFor(c) = {u \in Threads : gate[alias[c]] = u}
    BY DEF WaitsFor, NeedMu, NeedGate, NeedRows, NeedConn
  <2>3. alias[c] \in T /\ at[alias[c]] = "land"
    BY <1>6, <2>1, <2>2
  <2> QED BY <1>9, <2>3 DEF NeedMu
<1>11. Nowhere({"wait"})
  <2> SUFFICES ASSUME NEW c \in T, at[c] = "wait" PROVE FALSE
    OBVIOUS
  <2>1. WaitsFor(c) = {u \in Threads : u = alias[c] /\ u \in flights}
    BY DEF WaitsFor, NeedMu, NeedGate, NeedRows, NeedConn
  <2>2. alias[c] \in T /\ alias[c] \in flights
    BY <2>1
  <2>3. at[alias[c]] \in FlightPoints \ {"idle", "release"}
    BY <2>2 DEF LocksInv, LocksTypeOK, GatesOK
  <2> QED BY <1>1, <1>3, <1>5, <1>9, <2>2, <2>3 DEF FlightPoints, NeedConn, NeedRows, NeedMu
<1> QED BY <1>1, <1>3, <1>5, <1>7, <1>9, <1>10, <1>11
        DEF LocksInv, LocksTypeOK, CallerPoints, FlightPoints, NeedConn, NeedRows, NeedMu

(* The locks of provider_operations.go never deadlock, for any number of   *)
(* aliases and handlers.                                                   *)
THEOREM LocksNeverDeadlock == LocksSpec => []NoDeadlock
BY LocksInvariant, LocksAreOrdered, PTL

=============================================================================
