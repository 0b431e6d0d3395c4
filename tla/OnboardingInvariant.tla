------------------------- MODULE OnboardingInvariant -------------------------
(***************************************************************************)
(* The inductive invariant of Onboarding. Until an answer to an earlier    *)
(* wizard has been used, an answer to the present attempt belongs to the   *)
(* step the wizard is at, and it is the only one that can come.            *)
(***************************************************************************)
EXTENDS Onboarding

Steps == {"selectProvider", "anthropicAuthChoice", "enterAPIKey", "browserAuth",
          "ollamaChoice", "ollamaSetup", "cliSetup", "enterSettings", "enterBaseURL",
          "fetchModels", "selectModel", "pullModel", "review", "testConnection"}
TokenSet == [provider : Providers, value : Values]

Wizard ==
  [id : Nat, spent : Nat, flow : Nat, step : Steps, provider : Types,
   token : TokenSet \cup {None}, settings : Values \cup {None}, url : Values \cup {None},
   next : {"fetchModels", "enterBaseURL", "ollamaSetup"}, authing : BOOLEAN,
   models : InputSet \cup {None}, model : InputSet \cup {None, Typed}, manual : BOOLEAN,
   pulling : BOOLEAN, cli : Types, adding : BOOLEAN, testing : BOOLEAN,
   cancelAfterAdd : BOOLEAN, quitRequested : BOOLEAN,
   operation : Operations \cup {None}, unresolved : BOOLEAN, added : BOOLEAN,
   saved : Types, tested : {"none", "success", "failed"}]

Kinds == Setup \cup {"save", "query", "test"}
About(kind) == CASE kind = "models" -> InputSet
                 [] kind \in {"save", "query"} -> Operations
                 [] OTHER -> Providers

Saved == {"absent", "pending", "applied", "committed", "failed"}

-----------------------------------------------------------------------------
(***************************************************************************)
(* The parts that hold whatever the wizard has used.                       *)
(***************************************************************************)
(* The wizard has a provider as soon as it counts a flow.                  *)
WizardOK(w) ==
  /\ w \in Wizard
  /\ w.id <= MaxWizards /\ w.spent + w.flow <= MaxFlow
  /\ w.step # "selectProvider" => w.flow > 0
  /\ w.flow > 0 => w.provider \in Providers
  /\ w.unresolved => w.operation \in Operations

CallOK(c) ==
  /\ c = [kind |-> c.kind, id |-> c.id, flow |-> c.flow, about |-> c.about]
  /\ c.kind \in Kinds /\ c.about \in About(c.kind)
  /\ c.id \in Nat /\ c.flow \in Nat \ {0}

(* A call is of this wizard or of an earlier one, and of a flow it has counted. *)
Past(c) ==
  /\ c.id <= m.id
  /\ page = "wizard" /\ c.id = m.id => c.flow <= m.flow

RecordsOK ==
  /\ request \in [Operations -> [state : {"none", "sent", "journaled", "refused", "lost"},
                                 alias : Types]]
  /\ saves \in [Operations -> [state : Saved, alias : Types, secret : {None}]]
  /\ \A o \in Operations :
       /\ request[o].state # "none" => request[o].alias \in Providers
       /\ saves[o].state # "absent" => saves[o].alias \in Providers

StateOK ==
  /\ page \in {"wizard", "chat", "over"}
  /\ known \subseteq Providers
  /\ foreign \in BOOLEAN
  /\ WizardOK(m)
  /\ \A c \in calls : CallOK(c) /\ Past(c)
  /\ RecordsOK
  /\ mail \in [Letters -> Nat] /\ late \subseteq Operations /\ hurried \in Nat

OnRecord(p) == \E o \in Operations : saves[o].alias = p /\ saves[o].state = "committed"

SavedOnRecord == m.saved # None => OnRecord(m.saved)

(* A message about a provider is about one that was saved.                 *)
MailIsTrue == \A l \in Letters : mail[l] > 0 /\ l[2] # None => OnRecord(l[2])

-----------------------------------------------------------------------------
(***************************************************************************)
(* The parts that hold until an answer to an earlier wizard is used.       *)
(***************************************************************************)
Own(c) == c.id = m.id /\ c.flow = m.flow

(* The steps behind the credential, and those behind the list of models.   *)
Credentialed == {"enterSettings", "enterBaseURL", "fetchModels", "selectModel",
                 "pullModel", "review", "testConnection"}
Listing == {"fetchModels", "selectModel", "review", "testConnection"}
Chosen == {"review", "testConnection"}

(* What was gathered belongs together, as far as the wizard has come.      *)
Gathered(w) ==
  /\ w.token # None => w.token.provider = w.provider
  /\ w.step \in Credentialed /\ w.provider \in CredentialRequired => w.token # None
  /\ w.step \in Listing => w.models \in {None, Inputs(w)}
  /\ w.provider \in ModelManual => w.models = None /\ w.step # "fetchModels"
  /\ w.step \in Chosen => \/ w.model \in {Typed, Inputs(w)}
                          \/ External(w.provider) /\ w.model = None /\ w.cli = w.provider

(* The steps of a way through the wizard are those of its provider.        *)
OnItsWay(w) ==
  /\ w.provider \in Providers => (External(w.provider) =>
       /\ w.models = None /\ w.model = None
       /\ w.step \in {"selectProvider", "cliSetup"} \cup Chosen)
  /\ w.step = "cliSetup" => External(w.provider)
  /\ w.step \in {"ollamaChoice", "ollamaSetup", "pullModel"} => w.provider = "ollama"
  /\ w.step = "enterSettings" /\ w.next = "ollamaSetup" => w.provider = "ollama"

(* The step that waits for the answer to a call.                           *)
Waits(w, c) ==
  CASE c.kind = "models" -> w.step = "fetchModels" /\ c.about = Inputs(w)
    [] c.kind = "cli" -> w.step = "cliSetup" /\ c.about = w.provider
    [] c.kind = "ollama" -> w.step = "ollamaSetup" /\ c.about = w.provider
    [] c.kind \in {"code", "auth"} ->
         w.step = "browserAuth" /\ w.authing /\ c.about = w.provider
    [] c.kind = "pull" -> w.step = "pullModel" /\ w.pulling /\ c.about = w.provider
    [] c.kind \in {"save", "query"} ->
         w.step = "testConnection" /\ w.adding /\ ~w.unresolved /\ c.about = w.operation
    [] c.kind = "test" ->
         w.step = "testConnection" /\ w.testing /\ ~w.adding /\ ~w.unresolved

OneAnswer ==
  /\ \A c \in calls : Own(c) => Waits(m, c)
  /\ \A c, d \in calls : Own(c) /\ Own(d) => c = d

(* A wizard that says it saved knows what it saved.                        *)
KnowsSaved(w) == w.added \/ w.tested = "success" => w.saved # None
TestsSaved == \A c \in calls : c.kind = "test" /\ c.id = m.id => m.saved # None

(* The wizard waits for the save that is not settled, or keeps the user.   *)
Holds(w, o) ==
  /\ w.operation = o /\ w.step = "testConnection"
  /\ w.unresolved \/ (w.adding /\ w.testing)

(* When it has asked to be left, all it sent before is settled.            *)
NothingUnseen ==
  \A o \in Submitted \ late :
    Settled(o) \/ (~Moving /\ page = "wizard" /\ Holds(m, o))

InOrder ==
  /\ Gathered(m) /\ OnItsWay(m)
  /\ OneAnswer
  /\ m.adding => m.testing
  /\ KnowsSaved(m) /\ TestsSaved

OnboardingInv ==
  /\ StateOK
  /\ SavedOnRecord
  /\ ReportIsTrue
  /\ ~foreign => MailIsTrue /\ NothingUnseen
  /\ ~foreign /\ page = "wizard" => InOrder

=============================================================================
