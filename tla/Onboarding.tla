----------------------------- MODULE Onboarding -----------------------------
(***************************************************************************)
(* The setup wizard of the terminal interface, tui/pages/onboarding.go,    *)
(* with the part of tui/app.go that opens and leaves it, and the daemon it *)
(* saves providers with, of which it knows what ProviderSave promises.     *)
(*                                                                         *)
(* The interface handles one message at a time: a key, or the answer of a  *)
(* command it started earlier. Each action is the handling of one message. *)
(* What an answer says is decided when it is handled, except for what the  *)
(* daemon has on record. A cancelled command still answers, with an error  *)
(* or with what it had already found. Cursors, filters, texts shown and    *)
(* the characters typed into a field are left out: a field gets its value  *)
(* when the user confirms it.                                              *)
(***************************************************************************)
EXTENDS Naturals

CONSTANTS
  Providers,   \* the entries of the catalog the user may choose, by type
  Configured,  \* those with a provider when the interface starts
  Values,      \* what a user may enter, or a login may return
  Operations,  \* ids of saves, one for each attempt: bound
  None,
  Typed,       \* a model the user typed
  MaxFlow,     \* how far flowID counts, over all wizards: bound
  MaxWizards   \* how often the wizard is opened: bound

(* internal/provider/catalog.go, one entry for each way through the wizard. *)
Auth == [anthropic |-> "anthropic", openai |-> "api_key", custom |-> "api_key",
         openai_azure |-> "api_key", copilot |-> "github_device",
         openai_chatgpt |-> "openai_chatgpt", ollama |-> "none",
         llama_cpp |-> "none", claude_code |-> "cli_native"]
HasSettings == {"custom", "openai_azure", "ollama"}
PromptBaseURL == {"openai", "custom", "ollama", "llama_cpp"}
CredentialRequired ==
  {"anthropic", "openai", "openai_azure", "copilot", "openai_chatgpt"}
ModelManual == {"openai_azure"}
External(p) == Auth[p] = "cli_native"
Device(p) == Auth[p] \in {"github_device", "openai_chatgpt"}

ASSUME OnboardingAssumption ==
  /\ Providers \subseteq DOMAIN Auth /\ Configured \subseteq Providers
  /\ MaxFlow \in Nat /\ MaxWizards \in Nat \ {0}
  /\ {None, Typed} \cap (Providers \cup Values \cup Operations) = {}
  /\ None \notin [provider : Providers, value : Values]

VARIABLES
  page,      \* App.page: the wizard, the chat, or over
  known,     \* App.providers, by type: an entry has one alias
  m,         \* the OnboardingModel
  calls,     \* commands that have not answered
  request,   \* what became of each request to save
  saves,     \* the operations of the daemon
  mail,      \* how many of each message that changes the page are under way
  foreign,   \* history: an answer to an earlier wizard has been used
  late,      \* history: operations sent with such a message under way
  hurried    \* keys handled with one under way: each counts against both bounds

vars == <<page, known, m, calls, request, saves, mail, foreign, late, hurried>>

Daemon == INSTANCE ProviderSave WITH
  Aliases <- Providers, SecretNames <- {},
  binding <- [p \in Providers |-> None], readable <- {}

-----------------------------------------------------------------------------
(***************************************************************************)
(* Messages that change the page. A key or an answer that asks for one     *)
(* returns a command whose message the interface handles later, as tea.Quit *)
(* is one. Until then the page goes on handling keys and answers.          *)
(***************************************************************************)
Types == Providers \cup {None}
Letters == {"open", "done", "cancelled", "quit", "exit"} \X Types
Exit == <<"exit", None>>

Post(kind, p) == mail' = [mail EXCEPT ![<<kind, p>>] = @ + 1]
Moving == \E l \in Letters : mail[l] > 0
Quitting == \E l \in Letters : l[1] \in {"quit", "exit"} /\ mail[l] > 0

(* Keys go on while a message is under way, as far as the bounds let them. *)
Hurry ==
  /\ Moving => m.spent + m.flow + hurried < MaxFlow /\ m.id + hurried < MaxWizards
  /\ hurried' = hurried + (IF Moving THEN 1 ELSE 0)

-----------------------------------------------------------------------------
(***************************************************************************)
(* The wizard and its commands.                                            *)
(***************************************************************************)
(* spent counts the flows of earlier wizards, for the bound only. *)
Fresh(id, spent) ==
  [id |-> id, spent |-> spent, flow |-> 0, step |-> "selectProvider", provider |-> None,
   token |-> None, settings |-> None, url |-> None, next |-> "fetchModels",
   authing |-> FALSE, models |-> None, model |-> None, manual |-> FALSE,
   pulling |-> FALSE, cli |-> None,
   adding |-> FALSE, testing |-> FALSE, cancelAfterAdd |-> FALSE,
   quitRequested |-> FALSE, operation |-> None, unresolved |-> FALSE,
   added |-> FALSE, saved |-> None, tested |-> "none"]

(* What a list of models is asked with; a token is kept with the provider  *)
(* it was entered or logged in for.                                        *)
Inputs(w) == [provider |-> w.provider, token |-> w.token,
              settings |-> w.settings, url |-> w.url]
Token(p, v) == [provider |-> p, value |-> v]

Call(w, kind, about) == [kind |-> kind, id |-> w.id, flow |-> w.flow, about |-> about]

(* The command a step starts when the wizard enters it. *)
Started(w) ==
  CASE w.step = "fetchModels" -> {Call(w, "models", Inputs(w))}
    [] w.step = "cliSetup" -> {Call(w, "cli", w.provider)}
    [] w.step = "ollamaSetup" -> {Call(w, "ollama", w.provider)}
    [] w.step = "browserAuth" /\ w.authing ->
         {Call(w, IF Device(w.provider) THEN "code" ELSE "auth", w.provider)}
    [] OTHER -> {}

FetchModels(w) == [w EXCEPT !.step = "fetchModels", !.models = None]
TypeModel(w) == [w EXCEPT !.step = "selectModel", !.manual = TRUE]

ModelStrategy(w) ==
  CASE External(w.provider) -> [w EXCEPT !.step = "review"]
    [] w.provider \in ModelManual -> TypeModel(w)
    [] OTHER -> FetchModels(w)

Settings(w, next) == [w EXCEPT !.step = "enterSettings", !.next = next]

AfterCredential(w) ==
  CASE w.provider \in HasSettings ->
         Settings(w, IF w.provider \in PromptBaseURL THEN "enterBaseURL" ELSE "fetchModels")
    [] w.provider \in PromptBaseURL \ HasSettings -> [w EXCEPT !.step = "enterBaseURL"]
    [] OTHER -> ModelStrategy(w)

BeginDevice(w) == [w EXCEPT !.step = "browserAuth", !.authing = TRUE]

(* Leaving what may have a command under way makes its answer stale. *)
Abandon(w) == [w EXCEPT !.flow = @ + 1, !.step = "selectProvider",
                        !.authing = FALSE, !.pulling = FALSE]

-----------------------------------------------------------------------------
Init ==
  /\ page \in {"wizard"} \cup (IF Configured = {} THEN {} ELSE {"chat"})
  /\ known = Configured
  /\ calls = {}
  /\ m = Fresh(IF page = "wizard" THEN 1 ELSE 0, 0)
  /\ request = [o \in Operations |-> [state |-> "none", alias |-> None]]
  /\ saves = [o \in Operations |-> Daemon!Unsaved]
  /\ mail = [l \in Letters |-> 0]
  /\ foreign = FALSE /\ late = {} /\ hurried = 0

app == <<page, known, mail>>
records == <<request, saves, late>>

(* What a key leaves alone that asks for no other page. *)
Pressed == Hurry /\ UNCHANGED <<app, foreign>>

Key(step) == page = "wizard" /\ m.step = step

(* A key that takes the wizard to w, and starts the command of its step. *)
Enter(w) ==
  /\ m' = w
  /\ calls' = calls \cup Started(w)
  /\ Pressed /\ UNCHANGED records

Stay(w) == m' = w /\ Pressed /\ UNCHANGED <<calls, records>>

MayAbandon == m.spent + m.flow + hurried < MaxFlow

-----------------------------------------------------------------------------
(***************************************************************************)
(* Keys before a save.                                                     *)
(***************************************************************************)
\* Mutant of SelectProvider: what an earlier attempt gathered stays.
SelectProviderKeeps ==
  /\ Key("selectProvider") /\ MayAbandon
  /\ \E p \in Providers :
       LET w == [m EXCEPT !.flow = @ + 1, !.provider = p] IN
       Enter(CASE External(p) -> [w EXCEPT !.step = "cliSetup"]
               [] Auth[p] = "anthropic" -> [w EXCEPT !.step = "anthropicAuthChoice"]
               [] Device(p) -> BeginDevice(w)
               [] Auth[p] = "api_key" -> [w EXCEPT !.step = "enterAPIKey"]
               [] p = "ollama" -> [w EXCEPT !.step = "ollamaChoice"]
               [] OTHER -> AfterCredential(w))

SelectProvider ==
  /\ Key("selectProvider") /\ MayAbandon
  /\ \E p \in Providers :
       LET w == [m EXCEPT !.flow = @ + 1, !.provider = p, !.token = None,
                          !.settings = None, !.url = None, !.models = None,
                          !.model = None, !.manual = FALSE, !.cli = None] IN
       Enter(CASE External(p) -> [w EXCEPT !.step = "cliSetup"]
               [] Auth[p] = "anthropic" -> [w EXCEPT !.step = "anthropicAuthChoice"]
               [] Device(p) -> BeginDevice(w)
               [] Auth[p] = "api_key" -> [w EXCEPT !.step = "enterAPIKey"]
               [] p = "ollama" -> [w EXCEPT !.step = "ollamaChoice"]
               [] OTHER -> AfterCredential(w))

ChooseAuth ==
  /\ Key("anthropicAuthChoice")
  /\ \/ Enter([m EXCEPT !.step = "enterAPIKey"])
     \/ Enter([m EXCEPT !.step = "browserAuth", !.authing = TRUE])

RetryAuth ==
  /\ Key("browserAuth") /\ ~m.authing /\ Device(m.provider)
  /\ Enter(BeginDevice(m))

EnterAPIKey ==
  /\ Key("enterAPIKey")
  /\ \E v \in Values \cup (IF m.provider \in CredentialRequired THEN {} ELSE {None}) :
       Enter(AfterCredential([m EXCEPT !.token = IF v = None THEN None
                                                 ELSE Token(m.provider, v)]))

ChooseOllama ==
  /\ Key("ollamaChoice")
  /\ \E next \in {"enterBaseURL", "ollamaSetup"} : Enter(Settings(m, next))

EnterSettings ==
  /\ Key("enterSettings")
  /\ \E v \in Values :
       LET w == [m EXCEPT !.settings = v, !.next = "fetchModels"] IN
       Enter(IF m.next = "fetchModels" THEN ModelStrategy(w)
             ELSE [w EXCEPT !.step = m.next])

EnterBaseURL ==
  /\ Key("enterBaseURL")
  /\ \E v \in Values : Enter(ModelStrategy([m EXCEPT !.url = v]))

StartPull ==
  /\ Key("pullModel") /\ ~m.pulling
  /\ m' = [m EXCEPT !.pulling = TRUE]
  /\ calls' = calls \cup {Call(m, "pull", m.provider)}
  /\ Pressed /\ UNCHANGED records

SelectModel ==
  /\ Key("selectModel") /\ ~m.manual
  /\ \/ /\ m.models # None
        /\ Stay([m EXCEPT !.model = m.models, !.step = "review"])
     \/ Stay([m EXCEPT !.manual = TRUE])

EnterModel ==
  /\ Key("selectModel") /\ m.manual
  /\ Stay([m EXCEPT !.model = Typed, !.manual = FALSE, !.step = "review"])

(* esc where no command can be under way. *)
Back ==
  LET Select == [m EXCEPT !.step = "selectProvider"]
      APIKey == [m EXCEPT !.step = "enterAPIKey"]
      URL == [m EXCEPT !.step = "enterBaseURL"] IN
  \/ /\ Key("enterAPIKey")
     /\ Stay(IF Auth[m.provider] = "anthropic"
             THEN [m EXCEPT !.step = "anthropicAuthChoice"] ELSE Select)
  \/ /\ Key("enterSettings")
     /\ Stay(CASE m.provider = "ollama" -> [m EXCEPT !.step = "ollamaChoice"]
               [] Auth[m.provider] = "api_key" -> APIKey
               [] OTHER -> Select)
  \/ /\ Key("enterBaseURL")
     /\ Stay(CASE m.provider \in HasSettings -> Settings(m, "enterBaseURL")
               [] Auth[m.provider] = "api_key" -> APIKey
               [] OTHER -> Select)
  \/ /\ Key("selectModel") /\ m.manual
     /\ Stay(IF m.models # None THEN [m EXCEPT !.manual = FALSE] ELSE Select)
  \/ /\ Key("selectModel") /\ ~m.manual
     /\ Stay(IF m.provider \in PromptBaseURL THEN URL ELSE Select)
  \/ /\ Key("review")
     /\ Stay(IF External(m.provider) THEN Select ELSE [m EXCEPT !.step = "selectModel"])

(* esc where a command may be under way. *)
BackFromCommand ==
  /\ MayAbandon
  /\ \/ /\ \E s \in {"anthropicAuthChoice", "browserAuth", "ollamaChoice",
                     "fetchModels", "pullModel", "cliSetup"} : Key(s)
        /\ Stay(Abandon(m))
     \/ Key("ollamaSetup") /\ Stay([Abandon(m) EXCEPT !.step = "ollamaChoice"])

-----------------------------------------------------------------------------
(***************************************************************************)
(* Answers. A call that is answered is over; its answer is used when the   *)
(* wizard is open and counts the flow it was made in.                      *)
(***************************************************************************)
\* Mutant of Current: answers of an abandoned attempt are used.
CurrentAny(c) == page = "wizard" /\ c.id = m.id

Current(c) == page = "wizard" /\ c.flow = m.flow

Noted(c) == foreign' = (foreign \/ c.id # m.id) /\ UNCHANGED hurried
Ended(c, new) == calls' = (calls \ {c}) \cup new /\ Noted(c)

Quiet(w) == [wizard |-> w, calls |-> {}]
Starting(w) == [wizard |-> w, calls |-> Started(w)]

(* What the answer to a command before the save does to the wizard, and    *)
(* the commands it starts: a code is followed by polling for its token. A  *)
(* pull that says it was cancelled is of an earlier wizard, or ctrl+c has  *)
(* cancelled the commands of this one.                                     *)
Answers(c) ==
  LET login == [m EXCEPT !.authing = FALSE]
      refused == [login EXCEPT !.step = IF Auth[m.provider] = "openai_chatgpt"
                                        THEN "browserAuth" ELSE "enterAPIKey"]
      listed == [m EXCEPT !.step = "selectModel"]
      choose == [m EXCEPT !.step = "pullModel", !.pulling = FALSE]
      pulled == [m EXCEPT !.pulling = FALSE] IN
  CASE c.kind = "code" ->
         {Quiet(refused), [wizard |-> m, calls |-> {Call(m, "auth", m.provider)}]}
    [] c.kind = "auth" ->
         {Quiet(refused)} \cup
         {Starting(AfterCredential([login EXCEPT !.token = Token(c.about, v)])) : v \in Values}
    [] c.kind = "models" ->
         {Quiet([listed EXCEPT !.models = c.about]),
          Quiet([listed EXCEPT !.models = None, !.manual = @ \/ ~External(m.provider)])}
         \cup (IF m.provider = "ollama" THEN {Quiet([choose EXCEPT !.models = None])} ELSE {})
    [] c.kind = "cli" -> {Quiet(m), Quiet([m EXCEPT !.cli = c.about, !.step = "review"])}
    [] c.kind = "ollama" ->
         {Quiet(m)} \cup (IF m.step = "ollamaSetup" THEN {Quiet(choose)} ELSE {})
    [] c.kind = "pull" ->
         {Quiet(pulled), Starting(FetchModels(pulled))}
         \cup (IF (c.id # m.id \/ Quitting) /\ MayAbandon
               THEN {Quiet([pulled EXCEPT !.flow = @ + 1, !.step = "selectProvider"])}
               ELSE {})

Setup == {"code", "auth", "models", "cli", "ollama", "pull"}

Answer ==
  \E c \in calls :
    /\ c.kind \in Setup /\ Current(c)
    /\ \E a \in Answers(c) : m' = a.wizard /\ Ended(c, a.calls)
    /\ UNCHANGED <<app, records>>

-----------------------------------------------------------------------------
(***************************************************************************)
(* The save and the test of the connection.                                *)
(***************************************************************************)
(* startTest, from the review or after a failed attempt: a new operation.  *)
Unused == {o \in Operations : request[o].state = "none"}

StartTest ==
  /\ \/ Key("review")
     \/ /\ Key("testConnection") /\ ~m.unresolved /\ ~m.testing
        /\ m.tested # "success" /\ ~m.added
  /\ Unused # {}
  /\ LET o == CHOOSE o \in Unused : TRUE IN
       /\ request' = [request EXCEPT ![o] = [state |-> "sent", alias |-> m.provider]]
       /\ m' = [m EXCEPT !.step = "testConnection", !.testing = TRUE, !.adding = TRUE,
                         !.cancelAfterAdd = FALSE, !.tested = "none", !.added = FALSE,
                         !.operation = o, !.unresolved = FALSE, !.quitRequested = FALSE]
       /\ calls' = calls \cup {Call(m, "save", o)}
       /\ late' = IF Moving THEN late \cup {o} ELSE late
  /\ Pressed /\ UNCHANGED saves

(* Only r does something while an operation is unresolved: it is asked for *)
(* again, never sent again.                                                *)
RetryOperation ==
  /\ Key("testConnection") /\ m.unresolved
  /\ m' = [m EXCEPT !.adding = TRUE, !.testing = TRUE, !.unresolved = FALSE]
  /\ calls' = calls \cup {Call(m, "query", m.operation)}
  /\ Pressed /\ UNCHANGED records

RetryTest ==
  /\ Key("testConnection") /\ ~m.unresolved /\ ~m.testing
  /\ m.tested # "success" /\ m.added
  /\ m' = [m EXCEPT !.testing = TRUE]
  /\ calls' = calls \cup {Call(m, "test", m.provider)}
  /\ Pressed /\ UNCHANGED records

(* esc during the save; during the test it only cancels the command. *)
CancelAfterAdd ==
  /\ Key("testConnection") /\ ~m.unresolved /\ m.testing /\ m.adding
  /\ Stay([m EXCEPT !.cancelAfterAdd = TRUE])

BackFromTest ==
  /\ Key("testConnection") /\ ~m.unresolved /\ ~m.testing /\ m.tested # "success"
  /\ Stay([m EXCEPT !.step = "review", !.tested = "none"])

(* A result names its operation, and a wizard that has one takes no other. *)
Expected(c) == Current(c) /\ m.operation \in {None, c.about}
Result(c) == [m EXCEPT !.adding = FALSE, !.operation = c.about, !.unresolved = FALSE]

(* The provider is on record. The user may have asked to leave meanwhile;  *)
(* else its connection is tested.                                          *)
Reports(c) ==
  LET p == saves[c.about].alias
      w == [Result(c) EXCEPT !.added = TRUE, !.saved = p]
      rest == [w EXCEPT !.testing = FALSE] IN
  /\ \/ /\ m.quitRequested
        /\ m' = [rest EXCEPT !.quitRequested = FALSE]
        /\ Post("quit", p) /\ Ended(c, {})
     \/ /\ ~m.quitRequested /\ m.cancelAfterAdd
        /\ m' = [rest EXCEPT !.cancelAfterAdd = FALSE]
        /\ Post("done", p) /\ Ended(c, {})
     \/ /\ ~m.quitRequested /\ ~m.cancelAfterAdd
        /\ m' = w
        /\ Ended(c, {Call(m, "test", p)}) /\ UNCHANGED mail
  /\ UNCHANGED <<page, known>>

\* Mutant of Committed: a save that may still fail counts as done.
CommittedEarly(c) == saves[c.about].state \in {"applied", "committed"} /\ Reports(c)

Committed(c) == saves[c.about].state = "committed" /\ Reports(c)

\* Mutant of Failed: a quit asked for during the save is forgotten.
FailedForgetsQuit(c) ==
  /\ \/ saves[c.about].state = "failed"
     \/ c.kind = "save" /\ request[c.about].state = "refused"
  /\ Ended(c, {})
  /\ m' = [Result(c) EXCEPT !.testing = FALSE]
  /\ UNCHANGED app

Failed(c) ==
  /\ \/ saves[c.about].state = "failed"
     \/ c.kind = "save" /\ request[c.about].state = "refused"
  /\ m' = [Result(c) EXCEPT !.testing = FALSE, !.quitRequested = FALSE]
  /\ Ended(c, {})
  /\ IF m.quitRequested THEN Post("quit", None) ELSE UNCHANGED mail
  /\ UNCHANGED <<page, known>>

\* Mutant of Unresolved: an answer that is missing counts as a failure.
UnresolvedFails(c) ==
  /\ m' = [Result(c) EXCEPT !.testing = FALSE]
  /\ Ended(c, {})
  /\ UNCHANGED app

(* The daemon did not answer, or not in time, or with a state that may     *)
(* still change.                                                           *)
Unresolved(c) ==
  /\ m' = [Result(c) EXCEPT !.testing = FALSE, !.unresolved = TRUE]
  /\ Ended(c, {})
  /\ UNCHANGED app

SaveAnswer(o) ==
  /\ \E c \in calls :
       /\ c.kind \in {"save", "query"} /\ c.about = o /\ Expected(c)
       /\ Committed(c) \/ Failed(c) \/ Unresolved(c)
  /\ UNCHANGED records

TestAnswer ==
  /\ \E c \in calls :
       /\ c.kind = "test" /\ Current(c) /\ Ended(c, {})
       /\ \E t \in {m.tested, "success", "failed"} :
            m' = [m EXCEPT !.testing = FALSE, !.tested = t]
  /\ UNCHANGED <<app, records>>

(* An answer nobody waits for. *)
Ignored ==
  /\ \E c \in calls :
       /\ IF c.kind \in {"save", "query"} THEN ~Expected(c) ELSE ~Current(c)
       /\ calls' = calls \ {c}
  /\ UNCHANGED <<app, m, records, foreign, hurried>>

-----------------------------------------------------------------------------
(***************************************************************************)
(* Changing the page.                                                      *)
(***************************************************************************)
(* A key that asks for another page or the end. *)
Ask(kind, p) ==
  /\ Post(kind, p)
  /\ Hurry
  /\ UNCHANGED <<page, known, m, calls, records, foreign>>

Cancel == Key("selectProvider") /\ Ask("cancelled", m.saved)

Done ==
  /\ Key("testConnection") /\ ~m.unresolved /\ ~m.testing /\ m.tested = "success"
  /\ Ask("done", IF m.saved # None THEN m.saved ELSE m.provider)

(* A command of the chat *)
Reconfigure == page = "chat" /\ m.id < MaxWizards /\ Ask("open", None)

(* ctrl+c, in the wizard when it is ready to quit, or in the chat. *)
Quit ==
  IF page = "wizard" /\ m.saved # None THEN Ask("quit", m.saved)
  ELSE Ask("exit", None)

\* Mutant of RequestQuit: an unresolved save does not keep the user.
RequestQuitUnresolved ==
  \/ page = "wizard" /\ m.adding /\ Stay([m EXCEPT !.quitRequested = TRUE])
  \/ page = "chat" /\ Quit
  \/ page = "wizard" /\ ~m.adding /\ Quit

RequestQuit ==
  \/ page = "wizard" /\ (m.adding \/ m.unresolved) /\ Stay([m EXCEPT !.quitRequested = TRUE])
  \/ page = "wizard" /\ ~m.adding /\ ~m.unresolved /\ Quit
  \/ page = "chat" /\ Quit

(* A message is handled whatever page is open. recordProvider comes first. *)
Handle(l) ==
  /\ mail[l] > 0
  /\ known' = known \cup ({l[2]} \ {None})
  /\ UNCHANGED <<records, foreign, hurried>>

(* A wizard that is left is not used again. Its commands go on.            *)
Turn(l, to, w) ==
  /\ page' = to /\ m' = w
  /\ mail' = [mail EXCEPT ![l] = @ - 1]
  /\ UNCHANGED calls

ToChat(l) == Turn(l, "chat", Fresh(m.id, m.spent + m.flow))

ToExit(l) ==
  /\ mail' = [mail EXCEPT ![l] = @ - 1, ![Exit] = @ + 1]
  /\ UNCHANGED <<page, m, calls>>

(* A new wizard, whose flows count from 0. *)
NavigateToOnboarding ==
  LET l == <<"open", None>> IN
  /\ m.id + hurried < MaxWizards
  /\ Handle(l) /\ Turn(l, "wizard", Fresh(m.id + 1, m.spent + m.flow))

OnboardingDone == \E l \in {"done"} \X Types : Handle(l) /\ ToChat(l)

OnboardingCancelled ==
  \E l \in {"cancelled"} \X Types :
    Handle(l) /\ IF known' = {} THEN ToExit(l) ELSE ToChat(l)

OnboardingQuit == \E l \in {"quit"} \X Types : Handle(l) /\ ToExit(l)

(* The program ends, with every command and message that is under way.     *)
Over ==
  /\ Handle(Exit)
  /\ page' = "over" /\ m' = Fresh(m.id, m.spent + m.flow)
  /\ calls' = {} /\ mail' = [l \in Letters |-> 0]

-----------------------------------------------------------------------------
(***************************************************************************)
(* The daemon.                                                             *)
(***************************************************************************)
interface == <<app, m, calls, foreign, late, hurried>>

(* A request is journaled, refused with an answer that is definite, or     *)
(* lost: its call fails and nothing of it is on record.                    *)
Receive(o) ==
  /\ request[o].state = "sent"
  /\ \/ /\ Daemon!Submit(o, request[o].alias, None)
        /\ request' = [request EXCEPT ![o].state = "journaled"]
     \/ /\ \E state \in {"refused", "lost"} :
             request' = [request EXCEPT ![o].state = state]
        /\ UNCHANGED saves
  /\ UNCHANGED interface

Flight(o) ==
  /\ Daemon!Apply(o) \/ Daemon!Fail(o) \/ Daemon!Finish(o)
  /\ UNCHANGED <<interface, request>>

Restart ==
  /\ \E finished \in SUBSET Operations : Daemon!Recover(finished)
  /\ UNCHANGED <<interface, request>>

-----------------------------------------------------------------------------
Next ==
  \/ SelectProvider \/ ChooseAuth \/ RetryAuth \/ EnterAPIKey \/ ChooseOllama
  \/ EnterSettings \/ EnterBaseURL \/ StartPull \/ SelectModel \/ EnterModel
  \/ Back \/ BackFromCommand \/ Answer \/ Ignored
  \/ StartTest \/ RetryOperation \/ RetryTest \/ CancelAfterAdd \/ BackFromTest
  \/ (\E o \in Operations : SaveAnswer(o)) \/ TestAnswer
  \/ Cancel \/ Done \/ RequestQuit \/ Reconfigure
  \/ NavigateToOnboarding \/ OnboardingDone \/ OnboardingCancelled \/ OnboardingQuit \/ Over
  \/ (\E o \in Operations : Receive(o) \/ Flight(o)) \/ Restart

Spec == Init /\ [][Next]_vars

(* A save and its query give up after a time, a test runs under a timeout, *)
(* and a message that is under way is handled. Nothing is assumed of the   *)
(* user, of the daemon or of the other commands.                           *)
FairSpec ==
  /\ Spec
  /\ \A o \in Operations : WF_vars(SaveAnswer(o))
  /\ WF_vars(TestAnswer)
  /\ WF_vars(OnboardingQuit) /\ WF_vars(Over)

-----------------------------------------------------------------------------
(***************************************************************************)
(* What the wizard promises.                                               *)
(***************************************************************************)
InputSet == [provider : Providers, token : [provider : Providers, value : Values] \cup {None},
             settings : Values \cup {None}, url : Values \cup {None}]

(* Every variable keeps its type. *)
TypeOK ==
  /\ page \in {"wizard", "chat", "over"}
  /\ known \subseteq Providers
  /\ m.id \in 0..MaxWizards /\ m.flow \in 0..MaxFlow
  /\ {m.provider, m.cli, m.saved} \subseteq Types
  /\ m.models \in InputSet \cup {None} /\ m.model \in InputSet \cup {None, Typed}
  /\ {m.settings, m.url} \subseteq Values \cup {None}
  /\ m.operation \in Operations \cup {None}
  /\ request \in [Operations -> [state : {"none", "sent", "journaled", "refused", "lost"}, alias : Types]]
  /\ mail \in [Letters -> Nat] /\ late \subseteq Operations /\ hurried \in Nat

Submitted == Operations \ Unused
Submits == \E o \in Unused : request'[o].state = "sent"

(* A save carries only what was gathered for its provider in this wizard:  *)
(* the credential was entered or returned for it, a model from a list was  *)
(* listed with the very credential, settings and address that are saved,   *)
(* and a command line tool was found by its own check. Answers that arrive *)
(* late or in another order never mix two attempts, unless the answer is   *)
(* of an earlier wizard whose flow had the same number.                    *)
SavesOwnSetup ==
  [][Submits => \/ foreign
                \/ /\ m.token # None => m.token.provider = m.provider
                   /\ m.provider \in CredentialRequired => m.token # None
                   /\ \/ m.model \in {Typed, Inputs(m)}
                      \/ External(m.provider) /\ m.model = None /\ m.cli = m.provider]_vars

Settled(o) == request[o].state = "refused" \/ saves[o].state \in {"committed", "failed"}

(* The wizard sends a second save, asks to be left or is left, only when   *)
(* every save it sent before is settled in the daemon, whatever was lost   *)
(* or delayed: nothing the user asked for is under way unseen. It does not *)
(* hold of a save that a key sends when the wizard has asked to be left    *)
(* and that message is not handled yet: nothing looks at the wizard again  *)
(* before the program ends or shows another page.                          *)
Asks == \E l \in Letters : mail'[l] > mail[l]
Leaves == page = "wizard" /\ (page' # "wizard" \/ m'.id # m.id)

NothingAbandoned ==
  [][Submits \/ Asks \/ Leaves => foreign \/ \A o \in Submitted \ late : Settled(o)]_vars

(* A provider the program shows as configured is one it found, or one that *)
(* a save committed.                                                       *)
ReportIsTrue ==
  foreign \/ \A p \in known \ Configured :
               \E o \in Operations : saves[o].alias = p /\ saves[o].state = "committed"

(* The save and the test come to an end, and a quit that was asked for     *)
(* during a save ends the program, or leaves the user to retry a save      *)
(* whose fate is unknown; again unless an answer to an earlier wizard has  *)
(* been used, or the save was sent when the wizard had asked to be left:   *)
(* either may take the wizard away from a save under way.                  *)
WaitEnds ==
  /\ m.testing ~> (~m.testing \/ foreign)
  /\ m.quitRequested ~> (page = "over" \/ m.unresolved \/ foreign \/ late # {})

=============================================================================
