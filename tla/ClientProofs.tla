---------------------------- MODULE ClientProofs ----------------------------
(***************************************************************************)
(* Proofs about the add-server wizard, the database browser and the rule   *)
(* form, for any number of faults, calls, servers, databases and users.    *)
(***************************************************************************)
EXTENDS AddServer, DatabaseBrowser, RuleForm, TLAPS

USE WizardAssumption, BrowserAssumption

(***************************************************************************)
(* The add-server wizard.                                                  *)
(***************************************************************************)

WizState == [open : BOOLEAN, step : 1..4, busy : BOOLEAN, server : BOOLEAN, token : BOOLEAN]
EarState == [status : {"connecting", "connected", "timeout"}, poller : BOOLEAN,
             asked : {"no", "yes", "before"}, armed : BOOLEAN,
             waited : 0..Patience, retried : BOOLEAN]

LEMMA TornType ==
    ASSUME NEW e \in EarState
    PROVE  Torn(e) \in EarState /\ Effect(e) \in EarState
<1>1. (IF e.asked = "yes" THEN "before" ELSE e.asked) \in {"no", "yes", "before"}
  BY DEF EarState
<1>2. Torn(e) \in EarState
  BY <1>1 DEF EarState, Torn
<1>3. 0 \in 0..Patience
  OBVIOUS
<1> QED BY <1>2, <1>3 DEF EarState, Effect

\* Neither the cleanup nor the effect looks at the status.
LEMMA TornStatus ==
    ASSUME NEW e \in EarState
    PROVE  Torn(e).status = e.status /\ Effect(e).status = e.status
BY DEF EarState, Torn, Effect

LEMMA WizardStarts == WizardStart(TRUE) => WizardInv
<1> SUFFICES ASSUME WizardStart(TRUE) PROVE WizardInv
  OBVIOUS
<1>1. wiz \in WizState /\ ear \in EarState
  BY DEF WizardStart, WizState, EarState
<1>2. fault.servers = 0 /\ fault.tokens = 0 /\ fault.polls = 0
        /\ made.servers = 0 /\ made.tokens = 0 /\ wiz.step = 1 /\ wiz.busy = FALSE
        /\ setup = "idle"
  BY DEF WizardStart
<1>3. fault \in [servers : Nat, tokens : Nat, polls : Nat]
        /\ made \in [servers : Nat, tokens : Nat, agent : BOOLEAN]
  BY DEF WizardStart
<1>4. WizardTypeOK
  BY <1>1, <1>2, <1>3 DEF WizardTypeOK, Faults, WizState, EarState
<1>5. WizardInStep
  BY <1>1, <1>2 DEF WizardInStep, WizState
<1>6. NothingToSpare /\ MadeOnce
  BY <1>2 DEF NothingToSpare, MadeOnce
<1> QED BY <1>4, <1>5, <1>6 DEF WizardInv

\* The steps that listen: what they leave alone is all the invariant is about.
LEMMA EarOnly ==
    ASSUME WizardInv, ear' \in EarState, UNCHANGED <<wiz, setup, made, fault>>
    PROVE  WizardInv'
BY DEF WizardInv, WizardTypeOK, WizardInStep, NothingToSpare, MadeOnce, Faults, EarState

LEMMA TokenKept ==
    ASSUME NEW w \in WizState
    PROVE  [w EXCEPT !.token = TRUE, !.busy = FALSE, !.step = 3] \in WizState
<1>1. \A x \in WizState : [x EXCEPT !.token = TRUE] \in WizState
  BY DEF WizState
<1>2. \A x \in WizState : [x EXCEPT !.busy = FALSE] \in WizState
  BY DEF WizState
<1>3. \A x \in WizState : [x EXCEPT !.step = 3] \in WizState
  BY DEF WizState
<1> QED BY <1>1, <1>2, <1>3

LEMMA SetupSteps ==
    ASSUME WizardInv,
           Turn \/ HandleProceedToSetup \/ ServeSetup \/ ServerAnswered \/ TokenAnswered
             \/ SetupFails \/ AgentConnects
    PROVE  WizardInv'
<1>0. wiz \in WizState
  BY DEF WizardInv, WizardTypeOK, WizState
<1> USE DEF WizardInv, WizardTypeOK, WizardInStep, NothingToSpare, MadeOnce, Faults
<1>1. CASE Turn
  <2>1. PICK to \in 1..2 : wiz' = [wiz EXCEPT !.step = to]
    BY <1>1 DEF Turn
  <2>2. wiz' \in WizState
    BY <1>0, <2>1 DEF WizState
  <2>3. wiz'.step = to /\ wiz'.open = wiz.open /\ wiz'.busy = wiz.busy
          /\ wiz'.server = wiz.server /\ wiz'.token = wiz.token
    BY <1>0, <2>1 DEF WizState
  <2> QED BY <1>1, <2>2, <2>3 DEF Turn, WizState
<1>2. CASE HandleProceedToSetup
  <2>1. setup = "idle" /\ wiz.open /\ wiz.step = 2
    BY <1>2 DEF HandleProceedToSetup
  <2>2. CASE wiz.token
    <3>1. wiz' = [wiz EXCEPT !.step = 3] /\ setup' = "idle"
      BY <1>2, <2>2 DEF HandleProceedToSetup
    <3>2. wiz' \in WizState
      BY <1>0, <3>1 DEF WizState
    <3>3. wiz'.step = 3 /\ wiz'.open = wiz.open /\ wiz'.busy = wiz.busy
            /\ wiz'.server = wiz.server /\ wiz'.token = wiz.token
      BY <1>0, <3>1 DEF WizState
    <3> QED BY <1>2, <2>1, <2>2, <3>1, <3>2, <3>3 DEF HandleProceedToSetup, WizState
  <2>3. CASE ~wiz.token
    <3>1. wiz' = [wiz EXCEPT !.busy = TRUE]
            /\ setup' = IF wiz.server THEN "token" ELSE "server"
      BY <1>2, <2>3 DEF HandleProceedToSetup
    <3>2. wiz' \in WizState
      BY <1>0, <3>1 DEF WizState
    <3>3. wiz'.step = wiz.step /\ wiz'.open = wiz.open /\ wiz'.busy = TRUE
            /\ wiz'.server = wiz.server /\ wiz'.token = wiz.token
      BY <1>0, <3>1 DEF WizState
    <3> QED BY <1>2, <2>1, <2>3, <3>1, <3>2, <3>3 DEF HandleProceedToSetup, WizState
  <2> QED BY <2>2, <2>3
<1>3. CASE ServeSetup
  BY <1>3 DEF ServeSetup
<1>4. CASE ServerAnswered
  <2>1. wiz' \in WizState
    BY <1>0, <1>4 DEF ServerAnswered, WizState
  <2>2. wiz'.step = wiz.step /\ wiz'.open = wiz.open /\ wiz'.busy = wiz.busy
          /\ wiz'.server = wiz.open /\ wiz'.token = wiz.token
    BY <1>0, <1>4 DEF ServerAnswered, WizState
  <2> QED BY <1>4, <2>1, <2>2 DEF ServerAnswered, WizState
<1>5. CASE TokenAnswered
  <2>1. CASE wiz.open
    <3>0. wiz' = [wiz EXCEPT !.token = TRUE, !.busy = FALSE, !.step = 3]
      BY <1>5, <2>1 DEF TokenAnswered
    <3>1. wiz' \in WizState
      BY <1>0, <3>0, TokenKept
    <3>2. wiz'.step = 3 /\ wiz'.open = wiz.open /\ wiz'.busy = FALSE
            /\ wiz'.server = wiz.server /\ wiz'.token = TRUE
      BY <1>0, <3>0 DEF WizState
    <3> QED BY <1>5, <2>1, <3>1, <3>2 DEF TokenAnswered, WizState
  <2>2. CASE ~wiz.open
    BY <1>5, <2>2 DEF TokenAnswered
  <2> QED BY <2>1, <2>2
<1>6. CASE SetupFails
  <2>1. wiz' \in WizState
    BY <1>0, <1>6 DEF SetupFails, WizState
  <2>2. wiz'.step = wiz.step /\ wiz'.open = wiz.open /\ wiz'.busy = FALSE
          /\ wiz'.server = wiz.server /\ wiz'.token = wiz.token
    BY <1>0, <1>6 DEF SetupFails, WizState
  <2>3. /\ fault' \in [servers : Nat, tokens : Nat, polls : Nat]
        /\ fault'.servers + fault'.tokens + fault'.polls = Faults + 1
        /\ fault'.servers >= fault.servers /\ fault'.tokens >= fault.tokens
        /\ setup \in {"server", "serverMade"} => fault'.servers = fault.servers + 1
        /\ setup \in {"token", "tokenMade"} => fault'.tokens = fault.tokens + 1
    BY <1>6 DEF SetupFails
  <2>4. Faults' <= MaxFaults
    BY <1>6, <2>3 DEF SetupFails
  <2>5. WizardTypeOK'
    BY <1>6, <2>1, <2>3, <2>4 DEF SetupFails, WizState
  <2>6. WizardInStep'
    BY <1>6, <2>1, <2>2 DEF SetupFails, WizState
  <2>7. NothingToSpare' /\ MadeOnce'
    BY <1>6, <2>2, <2>3 DEF SetupFails
  <2> QED BY <2>5, <2>6, <2>7
<1>7. CASE AgentConnects
  <2>1. made' \in [servers : Nat, tokens : Nat, agent : BOOLEAN]
          /\ made'.servers = made.servers /\ made'.tokens = made.tokens
    BY <1>7 DEF AgentConnects
  <2> QED BY <1>7, <2>1 DEF AgentConnects
<1> QED BY <1>1, <1>2, <1>3, <1>4, <1>5, <1>6, <1>7

LEMMA ListenSteps ==
    ASSUME WizardInv,
           PageRenders \/ PollAnswered \/ Tick \/ TimeoutFires \/ RetryListening
    PROVE  WizardInv'
<1>0. ear \in EarState
  BY DEF WizardInv, WizardTypeOK, EarState
<1>1. ear' \in EarState
  <2>1. CASE PageRenders
    BY <1>0, <2>1, TornType DEF PageRenders
  <2>3. CASE PollAnswered
    BY <1>0, <2>3 DEF PollAnswered, EarState
  <2>4. CASE Tick
    <3>1. ear.waited + 1 \in 0..Patience
      BY <1>0, <2>4, WizardAssumption DEF Tick, EarState
    <3>2. (IF ear.poller /\ ear.asked = "no" THEN "yes" ELSE ear.asked)
              \in {"no", "yes", "before"}
      BY <1>0 DEF EarState
    <3>3. ear' = [ear EXCEPT !.waited = ear.waited + 1,
                             !.asked = IF ear.poller /\ ear.asked = "no" THEN "yes"
                                       ELSE ear.asked]
      BY <2>4 DEF Tick
    <3> HIDE <2>4
    <3> QED BY <1>0, <3>1, <3>2, <3>3 DEF EarState
  <2>5. CASE TimeoutFires
    BY <1>0, <2>5 DEF TimeoutFires, EarState
  <2>6. CASE RetryListening
    BY <1>0, <2>6 DEF RetryListening, EarState
  <2> QED BY <2>1, <2>3, <2>4, <2>5, <2>6
<1>2. UNCHANGED <<wiz, setup, made, fault>>
  BY DEF PageRenders, PollAnswered, Tick, TimeoutFires, RetryListening
<1> QED BY <1>1, <1>2, EarOnly

LEMMA StepFourSteps ==
    ASSUME WizardInv,
           HandleEnterStep4 \/ PollFails \/ ReviewSetupCommand \/ CloseWizard
    PROVE  WizardInv'
<1>0. ear \in EarState
  BY DEF WizardInv, WizardTypeOK, EarState
<1>1. CASE HandleEnterStep4
  <2>1. [ear EXCEPT !.status = "connecting", !.retried = FALSE] \in EarState
    BY <1>0 DEF EarState
  <2>2. ear' \in EarState
    BY <1>1, <2>1, TornType DEF HandleEnterStep4
  <2> QED BY <1>1, <2>2 DEF HandleEnterStep4, WizardInv, WizardTypeOK, WizardInStep,
                            NothingToSpare, MadeOnce, Faults, EarState
<1>2. CASE PollFails
  BY <1>2 DEF PollFails, WizardInv, WizardTypeOK, WizardInStep, NothingToSpare, MadeOnce, Faults
<1>3. CASE ReviewSetupCommand
  <2>1. ear' \in EarState
    BY <1>0, <1>3, TornType DEF ReviewSetupCommand
  <2> QED BY <1>3, <2>1 DEF ReviewSetupCommand, WizardInv, WizardTypeOK, WizardInStep,
                            NothingToSpare, MadeOnce, Faults, EarState
<1>4. CASE CloseWizard
  <2>1. ear' \in EarState
    BY <1>0, <1>4, TornType DEF CloseWizard
  <2>2. wiz' \in WizState /\ wiz'.open = FALSE /\ wiz'.busy = FALSE /\ wiz'.step = 1
    BY <1>4 DEF CloseWizard, WizState
  <2>3. WizardTypeOK'
    BY <1>4, <2>1, <2>2 DEF CloseWizard, WizardInv, WizardTypeOK, Faults, EarState, WizState
  <2>4. WizardInStep'
    <3>1. ~(wiz'.step > 2)
      BY <2>2
    <3>2. wiz'.busy = (wiz'.open /\ setup' # "idle")
      BY <2>2, Zenon
    <3> QED BY <3>1, <3>2 DEF WizardInStep
  <2>5. NothingToSpare' /\ MadeOnce'
    BY <1>4, <2>2 DEF CloseWizard, WizardInv, NothingToSpare, MadeOnce
  <2> QED BY <2>3, <2>4, <2>5 DEF WizardInv
<1> QED BY <1>1, <1>2, <1>3, <1>4

\* The wizard's inductive invariant: the handler never makes what an earlier
\* attempt has made and the wizard still knows of.
THEOREM WizardInvariance == WizardSpec => []WizardInv
<1>1. WizardInv /\ [WizardNext]_wizVars => WizardInv'
  <2> SUFFICES ASSUME WizardInv, [WizardNext]_wizVars PROVE WizardInv'
    OBVIOUS
  <2>1. CASE WizardNext
    BY <2>1, SetupSteps, ListenSteps, StepFourSteps DEF WizardNext, Waiting
  <2>2. CASE UNCHANGED wizVars
    BY <2>2 DEF wizVars, WizardInv, WizardTypeOK, WizardInStep, NothingToSpare, MadeOnce, Faults
  <2> QED BY <2>1, <2>2
<1> QED BY <1>1, WizardStarts, PTL DEF WizardSpec

\* However often the user turns back and tries again, the wizard makes one
\* server and one token, and more only for calls that failed.
THEOREM NothingMadeTwice == WizardSpec => []MadeOnce
BY WizardInvariance, PTL DEF WizardInv

\* The timeout that stays armed, late polls and effects that start over do not
\* take back a connection that was found.
THEOREM FoundStaysFound == WizardSpec => ConnectedStays
<1>1. WizardInv /\ [WizardNext]_wizVars => [ConnectedStaysStep]_wizVars
  <2> SUFFICES ASSUME WizardInv, WizardNext PROVE ConnectedStaysStep
    OBVIOUS
  <2> SUFFICES ASSUME ear.status = "connected", ~HandleEnterStep4
               PROVE  ear'.status = "connected"
    BY DEF ConnectedStaysStep
  <2>0. ear \in EarState
    BY DEF WizardInv, WizardTypeOK, EarState
  <2>1. CASE UNCHANGED ear
    BY <2>1
  <2>2. CASE PageRenders \/ ReviewSetupCommand \/ CloseWizard
    BY <2>0, <2>2, TornStatus DEF PageRenders, ReviewSetupCommand, CloseWizard
  <2>3. CASE PollAnswered \/ PollFails \/ Tick \/ TimeoutFires \/ RetryListening
    BY <2>0, <2>3
    DEF PollAnswered, PollFails, Tick, TimeoutFires, RetryListening, EarState
  <2>4. Turn \/ HandleProceedToSetup \/ ServeSetup \/ ServerAnswered \/ TokenAnswered
          \/ SetupFails \/ AgentConnects => UNCHANGED ear
    BY DEF Turn, HandleProceedToSetup, ServeSetup, ServerAnswered, TokenAnswered,
           SetupFails, AgentConnects
  <2> QED BY <2>1, <2>2, <2>3, <2>4 DEF WizardNext, Waiting
<1> QED BY <1>1, WizardInvariance, PTL DEF WizardSpec, ConnectedStays

(***************************************************************************)
(* The database browser.                                                   *)
(***************************************************************************)

Server == DbServers \cup {NoServer}
ListState == [of : Server, marked : SUBSET DbNames]
ViewState == [browsing : BOOLEAN, auth : BOOLEAN, err : BOOLEAN, registering : BOOLEAN]
OpState == [kind : OpKinds, server : Server, names : SUBSET DbNames]

\* op' is op with the call n replaced by o.
Becomes(n, o) == op' = [op EXCEPT ![n] = o]

LEMMA BrowserTypes ==
    BrowserTypeOK <=> /\ picked \in Server
                      /\ list \in ListState
                      /\ ticked \in SUBSET DbNames
                      /\ view \in ViewState
                      /\ op \in [Ops -> OpState]
                      /\ services \in SUBSET (DbServers \X DbNames)
                      /\ hurried \in BOOLEAN
BY DEF BrowserTypeOK, Server, ListState, ViewState, OpState

LEMMA HeldAreNames == ASSUME NEW s \in DbServers PROVE Holds[s] \subseteq DbNames
BY DEF DbNames

LEMMA ListTypes ==
    /\ NoList \in ListState
    /\ \A s \in DbServers : ListOf(s) \in ListState /\ ListOf(s).of = s /\ ListOf(s) # NoList
<1>1. NoList \in ListState
  BY DEF NoList, ListState, Server
<1>2. ASSUME NEW s \in DbServers
      PROVE  ListOf(s) \in ListState /\ ListOf(s).of = s /\ ListOf(s) # NoList
  <2>1. {d \in Holds[s] : <<s, d>> \in services} \subseteq DbNames
    BY HeldAreNames
  <2>2. s # NoServer
    BY DEF NoServer, DbServers
  <2> QED BY <2>1, <2>2 DEF ListOf, NoList, ListState, Server
<1> QED BY <1>1, <1>2

LEMMA OpTypes ==
    /\ NoOp \in OpState /\ Ended \in OpState
    /\ Ended.kind = "ended"
    /\ \A k \in OpKinds, s \in Server, names \in SUBSET DbNames :
          Doing(k, s, names) \in OpState
    /\ \A o \in OpState, k \in OpKinds :
          LET p == [o EXCEPT !.kind = k]
          IN  p \in OpState /\ p.kind = k /\ p.server = o.server /\ p.names = o.names
<1>1. NoOp \in OpState /\ Ended \in OpState /\ Ended.kind = "ended"
  BY DEF NoOp, Ended, OpState, OpKinds, Server
<1>2. \A k \in OpKinds, s \in Server, names \in SUBSET DbNames :
          Doing(k, s, names) \in OpState
  BY DEF Doing, OpState
<1>3. \A o \in OpState, k \in OpKinds :
          LET p == [o EXCEPT !.kind = k]
          IN  p \in OpState /\ p.kind = k /\ p.server = o.server /\ p.names = o.names
  BY DEF OpState
<1> QED BY <1>1, <1>2, <1>3

LEMMA BecomesFacts ==
    ASSUME op \in [Ops -> OpState], NEW n \in Ops, NEW o \in OpState, Becomes(n, o)
    PROVE  /\ op' \in [Ops -> OpState]
           /\ op'[n] = o
           /\ \A m \in Ops : m # n => op'[m] = op[m]
BY DEF Becomes

\* What a handler does to the view, save the busy flag of Register.
LEMMA ViewTypes ==
    ASSUME NEW v \in ViewState, NEW w,
           \/ w = Browsing(v)
           \/ w = [v EXCEPT !.browsing = TRUE, !.err = FALSE]
           \/ w = [v EXCEPT !.browsing = FALSE, !.auth = TRUE]
           \/ w = [v EXCEPT !.browsing = FALSE, !.err = TRUE]
           \/ w = [v EXCEPT !.auth = TRUE]
           \/ w = [v EXCEPT !.err = TRUE]
    PROVE  w \in ViewState /\ (w.registering <=> v.registering)
<1>1. CASE w = Browsing(v)
  BY <1>1 DEF ViewState, Browsing
<1>2. CASE w = [v EXCEPT !.browsing = TRUE, !.err = FALSE]
  BY <1>2 DEF ViewState
<1>3. CASE w = [v EXCEPT !.browsing = FALSE, !.auth = TRUE]
  BY <1>3 DEF ViewState
<1>4. CASE w = [v EXCEPT !.browsing = FALSE, !.err = TRUE]
  BY <1>4 DEF ViewState
<1>5. CASE w = [v EXCEPT !.auth = TRUE]
  BY <1>5 DEF ViewState
<1>6. CASE w = [v EXCEPT !.err = TRUE]
  BY <1>6 DEF ViewState
<1> QED BY <1>1, <1>2, <1>3, <1>4, <1>5, <1>6

LEMMA BusyTypes ==
    ASSUME NEW v \in ViewState, NEW b \in BOOLEAN
    PROVE  LET w == [v EXCEPT !.registering = b]
           IN  w \in ViewState /\ (w.registering <=> b)
BY DEF ViewState

LEMMA AfterBrowseType ==
    ASSUME view \in ViewState, NEW n \in Ops
    PROVE  /\ AfterBrowse(n) \in ViewState
           /\ AfterBrowse(n).registering <=> view.registering /\ op[n].kind = "browse"
<1>1. (view.registering /\ op[n].kind = "browse") \in BOOLEAN
  OBVIOUS
<1> QED BY <1>1 DEF ViewState, AfterBrowse

\* The button and the register handlers: one goes on, starts, or ends.
LEMMA RegisterGoesOn ==
    ASSUME OneRegister, NEW n \in Ops, \A m \in Ops : m # n => op'[m] = op[m],
           Registering(n)' <=> Registering(n), view'.registering <=> view.registering
    PROVE  OneRegister'
<1>1. \A m \in Ops : Registering(m)' <=> Registering(m)
  BY DEF Registering
<1> QED BY <1>1 DEF OneRegister

LEMMA RegisterStarts ==
    ASSUME OneRegister, NEW n \in Ops, \A m \in Ops : m # n => op'[m] = op[m],
           ~view.registering, Registering(n)', view'.registering
    PROVE  OneRegister'
<1>1. \A m \in Ops : Registering(m)' <=> m = n
  BY DEF Registering, OneRegister
<1> QED BY <1>1 DEF OneRegister

LEMMA RegisterEnds ==
    ASSUME OneRegister, NEW n \in Ops, \A m \in Ops : m # n => op'[m] = op[m],
           Registering(n), ~Registering(n)', ~view'.registering
    PROVE  OneRegister'
<1>1. \A m \in Ops : ~Registering(m)'
  BY DEF Registering, OneRegister
<1> QED BY <1>1 DEF OneRegister

\* A call that is under way is answered: the list may become that of its
\* server, and the call ends or goes on at the same server.
LEMMA CallGoesOn ==
    ASSUME OpsOfTheirServer, OpsOfPicked, NEW n \in Ops, UnderWay(n),
           \A m \in Ops : m # n => op'[m] = op[m],
           UNCHANGED <<picked, hurried>>,
           \/ op'[n].kind = "ended"
           \/ op'[n].server = op[n].server /\ op'[n].names \subseteq op[n].names,
           list' = list \/ list' = NoList \/ list'.of = op[n].server
    PROVE  OpsOfTheirServer' /\ OpsOfPicked'
<1>1. \A m \in Ops : UnderWay(m)' => UnderWay(m) /\ op'[m].server = op[m].server
                                     /\ op'[m].names \subseteq op[m].names
  BY DEF UnderWay
<1>2. OpsOfTheirServer'
  BY <1>1 DEF OpsOfTheirServer
<1>3. OpsOfPicked'
  BY <1>1 DEF OpsOfPicked
<1> QED BY <1>2, <1>3

\* A call is made for the selected server.
LEMMA CallStarts ==
    ASSUME OpsOfTheirServer, OpsOfPicked, NEW n \in Ops, picked \in DbServers,
           \A m \in Ops : m # n => op'[m] = op[m],
           UNCHANGED <<picked, hurried, list>>,
           op'[n].server = picked, ~hurried => op'[n].names \subseteq Holds[picked]
    PROVE  OpsOfTheirServer' /\ OpsOfPicked'
<1>1. \A m \in Ops : m # n /\ UnderWay(m)' => UnderWay(m) /\ op'[m] = op[m]
  BY DEF UnderWay
<1>2. OpsOfTheirServer'
  BY <1>1 DEF OpsOfTheirServer
<1>3. OpsOfPicked'
  BY <1>1 DEF OpsOfPicked
<1> QED BY <1>2, <1>3

LEMMA BrowserStarts == BrowserInit => BrowserInv
<1> SUFFICES ASSUME BrowserInit PROVE BrowserInv
  OBVIOUS
<1>1. op \in [Ops -> OpState] /\ \A n \in Ops : op[n].kind = "none"
  BY OpTypes DEF BrowserInit, NoOp
<1>2. list = NoList /\ list \in ListState /\ services = {} /\ view.registering = FALSE
        /\ view \in ViewState
  BY ListTypes DEF BrowserInit, ViewState
<1>3. BrowserTypeOK
  BY <1>1, <1>2, BrowserTypes DEF BrowserInit, Server
<1>4. OneRegister /\ TicksAreListed
  BY <1>1, <1>2 DEF OneRegister, Registering, TicksAreListed
<1>5. OpsOfTheirServer /\ OpsOfPicked /\ PatientRegistersRight
  BY <1>1, <1>2 DEF OpsOfTheirServer, OpsOfPicked, UnderWay, PatientRegistersRight
<1> QED BY <1>3, <1>4, <1>5 DEF BrowserInv

LEMMA PickKeeps ==
    ASSUME BrowserInv, NEW s \in DbServers, NEW n \in Ops, Pick(s, n)
    PROVE  BrowserInv'
<1> DEFINE o == Doing("browse", s, {})
<1>0. o \in OpState /\ o.kind = "browse" /\ o.server = s /\ o.names = {}
        /\ op \in [Ops -> OpState] /\ view \in ViewState
  BY OpTypes, BrowserTypes DEF BrowserInv, Doing, OpKinds, Server
<1>1. op' \in [Ops -> OpState] /\ op'[n] = o /\ \A m \in Ops : m # n => op'[m] = op[m]
  BY <1>0, BecomesFacts DEF Pick, Becomes
<1>2. view' \in ViewState /\ (view'.registering <=> view.registering)
  BY <1>0, ViewTypes DEF Pick
<1>3. list' = NoList /\ picked' = s /\ UNCHANGED <<ticked, services>>
  BY DEF Pick
<1>4. hurried' \in BOOLEAN /\ (~hurried' => ~hurried /\ \A m \in Ops : ~UnderWay(m))
  BY BrowserTypes DEF Pick, BrowserInv
<1> HIDE DEF o
<1>5. BrowserTypeOK'
  BY <1>1, <1>2, <1>3, <1>4, BrowserTypes, ListTypes DEF BrowserInv, BrowserTypeOK, Server,
     ListState, ViewState, OpState
<1>6. OneRegister'
  <2>1. ~Registering(n)' /\ ~Registering(n)
    BY <1>0, <1>1 DEF Pick, Unused, NoOp, Registering
  <2> QED BY <1>1, <1>2, <2>1, RegisterGoesOn DEF BrowserInv
<1>7. TicksAreListed'
  BY <1>3 DEF TicksAreListed
<1>8. OpsOfTheirServer'
  BY <1>0, <1>1, <1>3 DEF OpsOfTheirServer, UnderWay, BrowserInv
<1>9. OpsOfPicked'
  BY <1>0, <1>1, <1>3, <1>4 DEF OpsOfPicked, UnderWay
<1>10. PatientRegistersRight'
  BY <1>3, <1>4 DEF PatientRegistersRight, BrowserInv
<1> QED BY <1>5, <1>6, <1>7, <1>8, <1>9, <1>10 DEF BrowserInv

\* What the steps below leave alone.
LEMMA SameServices ==
    ASSUME PatientRegistersRight, UNCHANGED <<services, hurried>>
    PROVE  PatientRegistersRight'
BY DEF PatientRegistersRight

LEMMA SameTicks ==
    ASSUME TicksAreListed, UNCHANGED list, ticked' = ticked \/ ticked' = {}
    PROVE  TicksAreListed'
BY DEF TicksAreListed

LEMMA TypesNext ==
    ASSUME BrowserTypeOK, picked' = picked, hurried' = hurried,
           list' \in ListState, ticked' \in SUBSET DbNames, view' \in ViewState,
           op' \in [Ops -> OpState], services' \in SUBSET (DbServers \X DbNames)
    PROVE  BrowserTypeOK'
BY DEF BrowserTypeOK, Server, ListState, ViewState, OpState

\* Refresh and connectAndBrowse.
LEMMA ReadKeeps ==
    ASSUME BrowserInv, NEW n \in Ops, RefreshList(n) \/ ConnectAndBrowse(n)
    PROVE  BrowserInv'
<1>0. op \in [Ops -> OpState] /\ view \in ViewState /\ picked \in DbServers
        /\ list \in ListState /\ ticked \in SUBSET DbNames
        /\ services \in SUBSET (DbServers \X DbNames) /\ BrowserTypeOK
  BY BrowserTypes DEF BrowserInv, RefreshList, ConnectAndBrowse, Server
<1>1. PICK k \in {"browse", "connect"} : Becomes(n, Doing(k, picked, {}))
  BY DEF RefreshList, ConnectAndBrowse, Becomes
<1> DEFINE o == Doing(k, picked, {})
<1>2. o \in OpState /\ o.kind = k /\ o.server = picked /\ o.names = {}
  BY <1>0, OpTypes DEF Doing, OpKinds, Server
<1>3. op' \in [Ops -> OpState] /\ op'[n] = o /\ \A m \in Ops : m # n => op'[m] = op[m]
  BY <1>0, <1>1, <1>2, BecomesFacts
<1>4. view' \in ViewState /\ (view'.registering <=> view.registering)
  <2>1. view' = Browsing(view) \/ view' = [view EXCEPT !.browsing = TRUE, !.err = FALSE]
    BY DEF RefreshList, ConnectAndBrowse
  <2> QED BY <1>0, <2>1, ViewTypes
<1>5. UNCHANGED <<picked, list, ticked, services, hurried>> /\ op[n].kind = "none"
  BY DEF RefreshList, ConnectAndBrowse, Unused, NoOp
<1> HIDE DEF o
<1>6. BrowserTypeOK'
  BY <1>0, <1>3, <1>4, <1>5, TypesNext
<1>7. OneRegister'
  <2>1. ~Registering(n)' /\ ~Registering(n)
    BY <1>2, <1>3, <1>5 DEF Registering
  <2> QED BY <1>3, <1>4, <2>1, RegisterGoesOn DEF BrowserInv
<1>8. OpsOfTheirServer' /\ OpsOfPicked'
  BY <1>0, <1>2, <1>3, <1>5, CallStarts DEF BrowserInv
<1> QED BY <1>5, <1>6, <1>7, <1>8, SameServices, SameTicks DEF BrowserInv

\* register: what is ticked is on the list, and the list is the server's.
LEMMA RegisterKeeps ==
    ASSUME BrowserInv, NEW n \in Ops, Register(n)
    PROVE  BrowserInv'
<1>0. op \in [Ops -> OpState] /\ view \in ViewState /\ picked \in DbServers
        /\ list \in ListState /\ ticked \in SUBSET DbNames
        /\ services \in SUBSET (DbServers \X DbNames) /\ BrowserTypeOK
  BY BrowserTypes DEF BrowserInv, Register, OpsOfTheirServer
<1> DEFINE o == Doing("register", picked, ticked)
<1>2. o \in OpState /\ o.kind = "register" /\ o.server = picked /\ o.names = ticked
  BY <1>0, OpTypes DEF Doing, OpKinds, Server
<1>3. op' \in [Ops -> OpState] /\ op'[n] = o /\ \A m \in Ops : m # n => op'[m] = op[m]
  BY <1>0, <1>2, BecomesFacts DEF Register, Becomes
<1>4. view' \in ViewState /\ view'.registering
  BY <1>0, BusyTypes DEF Register
<1>5. UNCHANGED <<picked, list, ticked, services, hurried>> /\ ~view.registering
  BY DEF Register
<1> HIDE DEF o
<1>6. BrowserTypeOK'
  BY <1>0, <1>3, <1>4, <1>5, TypesNext
<1>7. OneRegister'
  <2>1. Registering(n)'
    BY <1>2, <1>3 DEF Registering
  <2> QED BY <1>3, <1>4, <1>5, <2>1, RegisterStarts DEF BrowserInv
<1>8. ~hurried => ticked \subseteq Holds[picked]
  BY DEF BrowserInv, TicksAreListed, OpsOfPicked, Register
<1>9. OpsOfTheirServer' /\ OpsOfPicked'
  BY <1>0, <1>2, <1>3, <1>5, <1>8, CallStarts DEF BrowserInv
<1> QED BY <1>5, <1>6, <1>7, <1>9, SameServices, SameTicks DEF BrowserInv

\* The calls of connectAndBrowse.
LEMMA ConnectKeeps ==
    ASSUME BrowserInv, NEW n \in Ops, Connected(n) \/ ConnectFails(n)
    PROVE  BrowserInv'
<1>0. op \in [Ops -> OpState] /\ view \in ViewState
        /\ list \in ListState /\ ticked \in SUBSET DbNames
        /\ services \in SUBSET (DbServers \X DbNames) /\ BrowserTypeOK
  BY BrowserTypes DEF BrowserInv
<1>1. op[n].kind = "connect" /\ UNCHANGED <<picked, list, ticked, services, hurried>>
  BY DEF Connected, ConnectFails
<1>2. PICK o \in OpState : /\ Becomes(n, o)
                           /\ \/ o.kind = "ended"
                              \/ o.kind = "browse" /\ o.server = op[n].server
                                   /\ o.names = op[n].names
  <2>1. CASE Connected(n)
    <3>1. Becomes(n, [op[n] EXCEPT !.kind = "browse"])
      BY <2>1 DEF Connected, Becomes
    <3>2. op[n] \in OpState /\ "browse" \in OpKinds
      BY <1>0 DEF OpKinds
    <3> DEFINE p == [op[n] EXCEPT !.kind = "browse"]
    <3>3. p \in OpState /\ p.kind = "browse" /\ p.server = op[n].server
            /\ p.names = op[n].names
      BY <3>2, OpTypes
    <3> HIDE DEF p
    <3>4. Becomes(n, p)
      BY <3>1 DEF p
    <3> QED BY <3>3, <3>4
  <2>2. CASE ConnectFails(n)
    BY <2>2, OpTypes DEF ConnectFails, Becomes
  <2> QED BY <2>1, <2>2
<1>3. op' \in [Ops -> OpState] /\ op'[n] = o /\ \A m \in Ops : m # n => op'[m] = op[m]
  BY <1>0, <1>2, BecomesFacts
<1>4. view' \in ViewState /\ (view'.registering <=> view.registering)
  <2>1. \/ view' = Browsing(view)
        \/ view' = [view EXCEPT !.browsing = FALSE, !.auth = TRUE]
        \/ view' = [view EXCEPT !.browsing = FALSE, !.err = TRUE]
    BY DEF Connected, ConnectFails
  <2> QED BY <1>0, <2>1, ViewTypes
<1>6. BrowserTypeOK'
  BY <1>0, <1>1, <1>3, <1>4, TypesNext
<1>7. OneRegister'
  <2>1. ~Registering(n)' /\ ~Registering(n)
    BY <1>1, <1>2, <1>3 DEF Registering
  <2> QED BY <1>3, <1>4, <2>1, RegisterGoesOn DEF BrowserInv
<1>8. OpsOfTheirServer' /\ OpsOfPicked'
  <2>1. UnderWay(n)
    BY <1>1 DEF UnderWay
  <2> QED BY <1>1, <1>2, <1>3, <2>1, CallGoesOn DEF BrowserInv
<1> QED BY <1>1, <1>6, <1>7, <1>8, SameServices, SameTicks DEF BrowserInv

\* browse ends: the list is its server's, or none.
LEMMA BrowseKeeps ==
    ASSUME BrowserInv, NEW n \in Ops, BrowseAnswered(n) \/ BrowseFails(n)
    PROVE  BrowserInv'
<1>0. op \in [Ops -> OpState] /\ view \in ViewState
        /\ list \in ListState /\ ticked \in SUBSET DbNames
        /\ services \in SUBSET (DbServers \X DbNames) /\ BrowserTypeOK
  BY BrowserTypes DEF BrowserInv
<1>1. op[n].kind \in {"browse", "rebrowse"} /\ UNCHANGED <<picked, services, hurried>>
  BY DEF BrowseAnswered, BrowseFails, Reads
<1>2. UnderWay(n) /\ op[n].server \in DbServers
  BY <1>1 DEF UnderWay, BrowserInv, OpsOfTheirServer
<1>3. op' \in [Ops -> OpState] /\ op'[n] = Ended /\ \A m \in Ops : m # n => op'[m] = op[m]
  BY <1>0, BecomesFacts, OpTypes DEF BrowseAnswered, BrowseFails, Becomes
<1>4. view' \in ViewState
        /\ (view'.registering <=> view.registering /\ op[n].kind = "browse")
  <2> DEFINE v == AfterBrowse(n)
  <2>1. v \in ViewState /\ (v.registering <=> view.registering /\ op[n].kind = "browse")
    BY <1>0, AfterBrowseType
  <2>2. view' = v \/ view' = [v EXCEPT !.auth = TRUE] \/ view' = [v EXCEPT !.err = TRUE]
    BY DEF BrowseAnswered, BrowseFails
  <2> HIDE DEF v
  <2> QED BY <2>1, <2>2, ViewTypes
<1>5. \/ list' = ListOf(op[n].server) /\ ticked' = {}
      \/ list' = NoList /\ ticked' = ticked
  BY DEF BrowseAnswered, BrowseFails
<1>6. BrowserTypeOK'
  <2>1. list' \in ListState /\ ticked' \in SUBSET DbNames
    BY <1>0, <1>2, <1>5, ListTypes
  <2>2. picked' = picked /\ hurried' = hurried /\ services' \in SUBSET (DbServers \X DbNames)
    BY <1>0, <1>1
  <2> QED BY <1>0, <1>3, <1>4, <2>1, <2>2, TypesNext
<1>7. OneRegister'
  <2>1. ~Registering(n)'
    BY <1>3, OpTypes DEF Registering
  <2>2. CASE op[n].kind = "browse"
    <3>1. ~Registering(n)
      BY <2>2 DEF Registering
    <3> QED BY <1>3, <1>4, <2>1, <2>2, <3>1, RegisterGoesOn DEF BrowserInv
  <2>3. CASE op[n].kind = "rebrowse"
    <3>1. Registering(n)
      BY <2>3 DEF Registering
    <3> QED BY <1>3, <1>4, <2>1, <2>3, <3>1, RegisterEnds DEF BrowserInv
  <2> QED BY <1>1, <2>2, <2>3
<1>8. OpsOfTheirServer' /\ OpsOfPicked'
  <2>1. list' = NoList \/ list'.of = op[n].server
    BY <1>2, <1>5, ListTypes
  <2> QED BY <1>1, <1>2, <1>3, <2>1, OpTypes, CallGoesOn DEF BrowserInv
<1>9. TicksAreListed'
  BY <1>5 DEF TicksAreListed
<1> QED BY <1>1, <1>6, <1>7, <1>8, <1>9, SameServices DEF BrowserInv

\* The calls of register.
LEMMA RegisteredKeeps ==
    ASSUME BrowserInv, NEW n \in Ops, Registered(n) \/ RegisterFails(n)
    PROVE  BrowserInv'
<1>0. op \in [Ops -> OpState] /\ view \in ViewState
        /\ list \in ListState /\ ticked \in SUBSET DbNames
        /\ services \in SUBSET (DbServers \X DbNames) /\ BrowserTypeOK
  BY BrowserTypes DEF BrowserInv
<1>1. /\ op[n].kind \in {"register", "told"} /\ UNCHANGED <<picked, list, services, hurried>>
      /\ ticked' = ticked \/ ticked' = {}
  BY DEF Registered, RegisterFails
<1>2. UnderWay(n) /\ Registering(n) /\ op[n].server \in Server
  BY <1>0, <1>1 DEF UnderWay, Registering, OpState
<1>3. PICK o \in OpState :
        /\ Becomes(n, o)
        /\ \/ o.kind = "ended" /\ view' = [view EXCEPT !.registering = FALSE]
           \/ /\ o.kind = "rebrowse" /\ o.server = op[n].server /\ o.names = {}
              /\ view' = Browsing(view)
  <2>1. CASE Registered(n)
    <3> DEFINE p == Doing("rebrowse", op[n].server, {})
    <3>1. p \in OpState /\ p.kind = "rebrowse" /\ p.server = op[n].server /\ p.names = {}
      BY <1>2, OpTypes DEF Doing, OpKinds
    <3>2. Becomes(n, p) /\ view' = Browsing(view)
      BY <2>1 DEF Registered, Becomes
    <3> HIDE DEF p
    <3> QED BY <3>1, <3>2
  <2>2. CASE RegisterFails(n)
    BY <2>2, OpTypes DEF RegisterFails, Becomes
  <2> QED BY <2>1, <2>2
<1>4. op' \in [Ops -> OpState] /\ op'[n] = o /\ \A m \in Ops : m # n => op'[m] = op[m]
  BY <1>0, <1>3, BecomesFacts
<1>5. view' \in ViewState /\ OneRegister'
  <2>1. CASE o.kind = "ended" /\ view' = [view EXCEPT !.registering = FALSE]
    <3>1. view' \in ViewState /\ ~view'.registering
      BY <1>0, <2>1, BusyTypes
    <3>2. ~Registering(n)'
      BY <1>4, <2>1 DEF Registering
    <3> QED BY <1>2, <1>4, <3>1, <3>2, RegisterEnds DEF BrowserInv
  <2>2. CASE o.kind = "rebrowse" /\ view' = Browsing(view)
    <3>1. view' \in ViewState /\ (view'.registering <=> view.registering)
      BY <1>0, <2>2, ViewTypes
    <3>2. Registering(n)'
      BY <1>4, <2>2 DEF Registering
    <3> QED BY <1>2, <1>4, <3>1, <3>2, RegisterGoesOn DEF BrowserInv
  <2> QED BY <1>3, <2>1, <2>2
<1>6. BrowserTypeOK'
  <2>1. /\ picked' = picked /\ hurried' = hurried /\ list' \in ListState
        /\ ticked' \in SUBSET DbNames /\ services' \in SUBSET (DbServers \X DbNames)
    BY <1>0, <1>1
  <2> QED BY <1>0, <1>4, <1>5, <2>1, TypesNext
<1>7. OpsOfTheirServer' /\ OpsOfPicked'
  <2>1. \/ op'[n].kind = "ended"
        \/ op'[n].server = op[n].server /\ op'[n].names \subseteq op[n].names
    BY <1>3, <1>4
  <2> QED BY <1>1, <1>2, <1>4, <2>1, CallGoesOn DEF BrowserInv
<1> QED BY <1>1, <1>5, <1>6, <1>7, SameServices, SameTicks DEF BrowserInv

\* The server records what it is told.
LEMMA ServeKeeps ==
    ASSUME BrowserInv, NEW n \in Ops, ServeRegister(n)
    PROVE  BrowserInv'
<1>0. op \in [Ops -> OpState] /\ view \in ViewState
        /\ list \in ListState /\ ticked \in SUBSET DbNames
        /\ services \in SUBSET (DbServers \X DbNames) /\ BrowserTypeOK
  BY BrowserTypes DEF BrowserInv
<1>1. op[n].kind = "register" /\ UNCHANGED <<picked, list, ticked, view, hurried>>
  BY DEF ServeRegister
<1>2. PICK kept \in SUBSET op[n].names :
        services' = services \cup ({op[n].server} \X kept)
  BY DEF ServeRegister
<1>3. UnderWay(n) /\ op[n].server \in DbServers /\ op[n].names \subseteq DbNames
  BY <1>0, <1>1 DEF UnderWay, BrowserInv, OpsOfTheirServer, OpState
<1> DEFINE p == [op[n] EXCEPT !.kind = "told"]
<1>4. p \in OpState /\ p.kind = "told" /\ p.server = op[n].server /\ p.names = op[n].names
  <2>1. op[n] \in OpState /\ "told" \in OpKinds
    BY <1>0 DEF OpKinds
  <2> QED BY <2>1, OpTypes
<1>5. Becomes(n, p)
  BY DEF ServeRegister, Becomes
<1> HIDE DEF p
<1>6. op' \in [Ops -> OpState] /\ op'[n] = p /\ \A m \in Ops : m # n => op'[m] = op[m]
  BY <1>0, <1>4, <1>5, BecomesFacts
<1>7. BrowserTypeOK'
  <2>1. services' \in SUBSET (DbServers \X DbNames)
    BY <1>0, <1>2, <1>3
  <2> QED BY <1>0, <1>1, <1>6, <2>1, TypesNext
<1>8. OneRegister'
  <2>1. Registering(n)' /\ Registering(n)
    BY <1>1, <1>4, <1>6 DEF Registering
  <2> QED BY <1>1, <1>6, <2>1, RegisterGoesOn DEF BrowserInv
<1>9. OpsOfTheirServer' /\ OpsOfPicked'
  BY <1>1, <1>3, <1>4, <1>6, CallGoesOn DEF BrowserInv
<1>10. PatientRegistersRight'
  <2> SUFFICES ASSUME ~hurried, NEW pair \in services' PROVE pair[2] \in Holds[pair[1]]
    BY <1>1 DEF PatientRegistersRight
  <2>1. CASE pair \in services
    BY <2>1 DEF BrowserInv, PatientRegistersRight
  <2>2. CASE pair \in {op[n].server} \X kept
    <3>1. op[n].server = picked /\ op[n].names \subseteq Holds[picked]
      BY <1>3 DEF BrowserInv, OpsOfPicked
    <3>2. pair[1] = picked /\ pair[2] \in kept
      BY <2>2, <3>1
    <3> QED BY <3>1, <3>2
  <2> QED BY <1>2, <2>1, <2>2
<1> QED BY <1>1, <1>7, <1>8, <1>9, <1>10, SameTicks DEF BrowserInv

\* Boxes of the list shown.
LEMMA TickKeeps ==
    ASSUME BrowserInv, SelectAll \/ \E d \in DbNames : Toggle(d)
    PROVE  BrowserInv'
<1>1. UNCHANGED <<picked, list, view, op, services, hurried>> /\ list # NoList
  BY DEF SelectAll, Toggle
<1>2. list.of \in DbServers /\ ticked \subseteq Holds[list.of]
  BY <1>1 DEF BrowserInv, OpsOfTheirServer, TicksAreListed
<1>3. ticked' \subseteq Holds[list.of]
  BY <1>2 DEF SelectAll, Toggle
<1>4. BrowserTypeOK'
  <2>1. ticked' \subseteq DbNames
    BY <1>2, <1>3, HeldAreNames
  <2> QED BY <1>1, <2>1 DEF BrowserInv, BrowserTypeOK
<1>5. OneRegister' /\ OpsOfTheirServer' /\ OpsOfPicked' /\ PatientRegistersRight'
  BY <1>1 DEF BrowserInv, OneRegister, Registering, OpsOfTheirServer, OpsOfPicked,
              PatientRegistersRight, UnderWay
<1>6. TicksAreListed'
  BY <1>1, <1>3 DEF TicksAreListed
<1> QED BY <1>4, <1>5, <1>6 DEF BrowserInv

\* The browser's inductive invariant: what the calls under way and the list
\* are about, and what is ticked.
THEOREM BrowserInvariance == BrowserSpec => []BrowserInv
<1>1. BrowserInv /\ [BrowserNext]_dbVars => BrowserInv'
  <2> SUFFICES ASSUME BrowserInv, [BrowserNext]_dbVars PROVE BrowserInv'
    OBVIOUS
  <2>1. CASE BrowserNext
    BY <2>1, PickKeeps, ReadKeeps, RegisterKeeps, ConnectKeeps, BrowseKeeps, RegisteredKeeps,
       ServeKeeps, TickKeeps DEF BrowserNext
  <2>2. CASE UNCHANGED dbVars
    BY <2>2 DEF dbVars, BrowserInv, BrowserTypeOK, OneRegister, Registering, TicksAreListed,
                OpsOfTheirServer, OpsOfPicked, PatientRegistersRight, UnderWay
  <2> QED BY <2>1, <2>2
<1> QED BY <1>1, BrowserStarts, PTL DEF BrowserSpec

\* A user who picks a server only when nothing is under way registers
\* databases with the server that holds them, for any servers and databases.
THEOREM PatientIsRight == BrowserSpec => []PatientRegistersRight
BY BrowserInvariance, PTL DEF BrowserInv

\* What is ticked is on the list that is shown, also when answers arrive late,
\* and no two register handlers run at once.
THEOREM TicksAndRegisters == BrowserSpec => [](TicksAreListed /\ OneRegister)
<1>1. BrowserInv => TicksAreListed /\ OneRegister
  BY DEF BrowserInv
<1> QED BY <1>1, BrowserInvariance, PTL

(***************************************************************************)
(* The rule form.                                                          *)
(***************************************************************************)

USE RuleAssumption

\* What the proof needs of a row, of the values of a form and of a body.
RowOK(r) ==
    /\ r.cooldown \in Nat /\ r.severity \in Severities
    /\ r.condition \in {"none", "plain", "foreign"}

FormValues(v) ==
    v = [amount |-> v.amount, unit |-> v.unit, severity |-> v.severity,
         condition |-> v.condition, channels |-> v.channels,
         described |-> v.described, enabled |-> v.enabled]

\* What a field of the form shows of the row it was opened from.
ShownAs(f, v, r) ==
    CASE f = "cooldown" -> ToSeconds(v.amount, v.unit) = r.cooldown
      [] f = "severity" -> v.severity = r.severity
      [] f = "condition" -> v.condition # "none" => v.condition = r.condition
      [] f = "channels" -> v.channels = r.channels \ {"TELEGRAM"}
      [] f = "enabled" -> v.enabled = r.enabled
      [] OTHER -> TRUE

\* What a body may carry in a field that was not touched.
Carries(f, x, r) ==
    IF f = "channels" THEN x = r[f] \ {"TELEGRAM"} \/ x = r[f] ELSE x = r[f]

Untouched(touched) == Fields \ ({"described"} \cup touched)

FormOK(g) ==
    \/ g = Closed
    \/ /\ g = [on |-> TRUE, from |-> g.from, touched |-> g.touched, values |-> g.values]
       /\ FormValues(g.values)
       /\ g.values.amount \in Nat /\ g.values.unit \in {"seconds", "minutes", "hours"}
       /\ g.values.severity \in Severities /\ g.values.condition \in {"none", "plain"}
       /\ \A f \in Untouched(g.touched) : ShownAs(f, g.values, g.from)

PatchOK(p) ==
    \/ p = NoPatch
    \/ /\ p = [pc |-> p.pc, body |-> p.body, touched |-> p.touched, from |-> p.from,
               saving |-> p.saving, current |-> p.current]
       /\ p.pc \in {"sent", "loaded", "written"}
       /\ p.pc = "loaded" => RowOK(p.current)
       /\ "cooldown" \in DOMAIN p.body => p.body.cooldown \in Nat
       /\ "severity" \in DOMAIN p.body => p.body.severity \in Severities
       /\ "condition" \in DOMAIN p.body => p.body.condition \in {"none", "plain"}
       /\ \A f \in Untouched(p.touched) : f \in DOMAIN p.body => Carries(f, p.body[f], p.from)

\* The rule form's inductive invariant.
RuleInv ==
    /\ RowOK(rule)
    /\ seen = [e \in Users |-> seen[e]] /\ \A e \in Users : RowOK(seen[e])
    /\ form = [e \in Users |-> form[e]] /\ \A e \in Users : FormOK(form[e])
    /\ patch = [e \in Users |-> patch[e]] /\ \A e \in Users : PatchOK(patch[e])

\* Record updates of two fields.
LEMMA FormUpdate ==
    ASSUME NEW g, NEW t, NEW w,
           g = [on |-> TRUE, from |-> g.from, touched |-> g.touched, values |-> g.values]
    PROVE  [[g EXCEPT !.touched = t] EXCEPT !.values = w]
             = [on |-> TRUE, from |-> g.from, touched |-> t, values |-> w]
<1> DEFINE h == [[g EXCEPT !.touched = t] EXCEPT !.values = w]
<1>1. DOMAIN h = {"on", "from", "touched", "values"}
  OBVIOUS
<1>2. h["on"] = TRUE /\ h["from"] = g.from /\ h["touched"] = t /\ h["values"] = w
  OBVIOUS
<1>3. h = [y \in {"on", "from", "touched", "values"} |-> h[y]]
  OBVIOUS
<1> HIDE DEF h
<1>4. h = [on |-> TRUE, from |-> g.from, touched |-> t, values |-> w]
  BY <1>1, <1>2, <1>3, Zenon
<1> QED BY <1>4 DEF h

LEMMA CooldownUpdate ==
    ASSUME NEW v, NEW a, NEW u, FormValues(v)
    PROVE  [v EXCEPT !.amount = a, !.unit = u]
             = [amount |-> a, unit |-> u, severity |-> v.severity, condition |-> v.condition,
                channels |-> v.channels, described |-> v.described, enabled |-> v.enabled]
<1> DEFINE h == [v EXCEPT !.amount = a, !.unit = u]
           D == {"amount", "unit", "severity", "condition", "channels", "described", "enabled"}
<1>1. DOMAIN h = D
  BY DEF FormValues
<1>2. /\ h["amount"] = a /\ h["unit"] = u /\ h["severity"] = v.severity
      /\ h["condition"] = v.condition /\ h["channels"] = v.channels
      /\ h["described"] = v.described /\ h["enabled"] = v.enabled
  BY DEF FormValues
<1>3. h = [y \in D |-> h[y]]
  BY DEF FormValues
<1> HIDE DEF h
<1>4. h = [amount |-> a, unit |-> u, severity |-> v.severity, condition |-> v.condition,
           channels |-> v.channels, described |-> v.described, enabled |-> v.enabled]
  BY <1>1, <1>2, <1>3, Zenon
<1> QED BY <1>4 DEF h

LEMMA PatchUpdate ==
    ASSUME NEW p, NEW r, PatchOK(p), p # NoPatch
    PROVE  [p EXCEPT !.pc = "loaded", !.current = r]
             = [pc |-> "loaded", body |-> p.body, touched |-> p.touched, from |-> p.from,
                saving |-> p.saving, current |-> r]
<1> DEFINE h == [p EXCEPT !.pc = "loaded", !.current = r]
           D == {"pc", "body", "touched", "from", "saving", "current"}
<1>1. DOMAIN h = D
  BY DEF PatchOK
<1>2. /\ h["pc"] = "loaded" /\ h["body"] = p.body /\ h["touched"] = p.touched
      /\ h["from"] = p.from /\ h["saving"] = p.saving /\ h["current"] = r
  BY DEF PatchOK
<1>3. h = [y \in D |-> h[y]]
  BY DEF PatchOK
<1> HIDE DEF h
<1>4. h = [pc |-> "loaded", body |-> p.body, touched |-> p.touched, from |-> p.from,
           saving |-> p.saving, current |-> r]
  BY <1>1, <1>2, <1>3, Zenon
<1> QED BY <1>4 DEF h

\* startEdit shows a cooldown in a unit it is a multiple of.
LEMMA CooldownComesBack ==
    ASSUME NEW cd \in Nat
    PROVE  /\ UnitOf(cd) \in {"seconds", "minutes", "hours"}
           /\ cd \div Units[UnitOf(cd)] \in Nat
           /\ ToSeconds(cd \div Units[UnitOf(cd)], UnitOf(cd)) = cd
<1>1. CASE cd >= 3600 /\ cd % 3600 = 0
  <2>1. UnitOf(cd) = "hours"
    BY <1>1 DEF UnitOf
  <2>2. Units["hours"] = 3600
    BY DEF Units
  <2>3. (cd \div 3600) \in Nat /\ (cd \div 3600) * 3600 = cd
    BY <1>1
  <2> QED BY <2>1, <2>2, <2>3 DEF ToSeconds
<1>2. CASE cd >= 60 /\ cd % 60 = 0 /\ ~(cd >= 3600 /\ cd % 3600 = 0)
  <2>1. UnitOf(cd) = "minutes"
    BY <1>2 DEF UnitOf
  <2>2. Units["minutes"] = 60
    BY DEF Units
  <2>3. (cd \div 60) \in Nat /\ (cd \div 60) * 60 = cd
    BY <1>2
  <2> QED BY <2>1, <2>2, <2>3 DEF ToSeconds
<1>3. CASE ~(cd >= 3600 /\ cd % 3600 = 0) /\ ~(cd >= 60 /\ cd % 60 = 0)
  <2>1. UnitOf(cd) = "seconds"
    BY <1>3 DEF UnitOf
  <2>2. Units["seconds"] = 1
    BY DEF Units
  <2>3. (cd \div 1) \in Nat /\ (cd \div 1) * 1 = cd
    OBVIOUS
  <2> QED BY <2>1, <2>2, <2>3 DEF ToSeconds
<1> QED BY <1>1, <1>2, <1>3

\* A body that was merged into a row leaves a row.
LEMMA MergedRow ==
    ASSUME NEW p, PatchOK(p), p.pc = "loaded"
    PROVE  RowOK(Merged(p.current, p.body))
<1>1. p # NoPatch
  BY DEF NoPatch
<1>2. "cooldown" \in Fields /\ "severity" \in Fields /\ "condition" \in Fields
  BY DEF Fields
<1> QED BY <1>1, <1>2 DEF PatchOK, RowOK, Merged

\* submit: a field that was not touched is left out or carries what the row
\* it was opened from holds.
LEMMA SentFromForm ==
    ASSUME NEW g, FormOK(g), g.on
    PROVE  PatchOK(Sent(Body(g.values), g.touched, g.from, TRUE))
<1>1. g # Closed
  BY DEF Closed
<1> DEFINE b == Body(g.values)
<1>2. /\ DOMAIN b \subseteq Fields
      /\ g.values.severity = "blank" => "severity" \notin DOMAIN b
      /\ g.values.condition = "none" => "condition" \notin DOMAIN b
  BY DEF Body
<1>3. \A f \in DOMAIN b :
        b[f] = (CASE f = "cooldown" -> ToSeconds(g.values.amount, g.values.unit)
                  [] f = "severity" -> g.values.severity
                  [] f = "condition" -> g.values.condition
                  [] f = "channels" -> g.values.channels
                  [] f = "described" -> g.values.described
                  [] OTHER -> g.values.enabled)
  BY DEF Body
<1>4. ToSeconds(g.values.amount, g.values.unit) \in Nat
  BY <1>1 DEF FormOK, ToSeconds, Units
<1>5. /\ "cooldown" \in DOMAIN b => b["cooldown"] \in Nat
      /\ "severity" \in DOMAIN b => b["severity"] \in Severities
      /\ "condition" \in DOMAIN b => b["condition"] \in {"none", "plain"}
  BY <1>1, <1>3, <1>4 DEF FormOK
<1> HIDE DEF b
<1>6. ASSUME NEW f \in Untouched(g.touched), f \in DOMAIN b
      PROVE  Carries(f, b[f], g.from)
  BY <1>1, <1>2, <1>3, <1>6 DEF FormOK, Untouched, Fields, ShownAs, Carries
<1>7. PatchOK(Sent(b, g.touched, g.from, TRUE))
  BY <1>5, <1>6 DEF PatchOK, Sent
<1> QED BY <1>7 DEF b

LEMMA RuleStarts == RuleInit => RuleInv
<1>1. \A r \in Rows : RowOK(r)
  BY DEF Rows, RowOK
<1> QED BY <1>1 DEF RuleInit, RuleInv, FormOK, PatchOK

LEMMA RuleEditing ==
    ASSUME RuleInv, NEW e \in Users, Relist(e) \/ StartEdit(e) \/ SetField(e) \/ CancelForm(e)
    PROVE  RuleInv'
<1>1. CASE Relist(e)
  BY <1>1 DEF RuleInv, Relist
<1>2. CASE CancelForm(e)
  BY <1>2 DEF RuleInv, CancelForm, FormOK
<1>3. ASSUME NEW g, FormOK(g), form' = [form EXCEPT ![e] = g], UNCHANGED <<rule, seen, patch>>
      PROVE  RuleInv'
  BY <1>3 DEF RuleInv
<1>4. CASE StartEdit(e)
  <2> DEFINE r == seen[e]
             v == [amount |-> r.cooldown \div Units[UnitOf(r.cooldown)],
                   unit |-> UnitOf(r.cooldown), severity |-> r.severity,
                   condition |-> IF r.condition = "plain" THEN "plain" ELSE "none",
                   channels |-> r.channels \ {"TELEGRAM"}, described |-> FALSE,
                   enabled |-> r.enabled]
             g == [on |-> TRUE, from |-> r, touched |-> {}, values |-> v]
  <2>1. form' = [form EXCEPT ![e] = g] /\ UNCHANGED <<rule, seen, patch>>
    BY <1>4 DEF StartEdit
  <2>2. RowOK(r)
    BY DEF RuleInv
  <2>3. /\ v.amount \in Nat /\ v.unit \in {"seconds", "minutes", "hours"}
        /\ ToSeconds(v.amount, v.unit) = r.cooldown
    BY <2>2, CooldownComesBack DEF RowOK
  <2>4. FormValues(v) /\ v.severity \in Severities /\ v.condition \in {"none", "plain"}
    BY <2>2 DEF FormValues, RowOK
  <2>5. \A f : ShownAs(f, v, r)
    BY <2>2, <2>3 DEF ShownAs, RowOK
  <2> HIDE DEF v, r
  <2>6. FormOK(g)
    BY <2>3, <2>4, <2>5 DEF FormOK
  <2> QED BY <1>3, <2>1, <2>6
<1>5. CASE SetField(e)
  <2> DEFINE v == form[e].values
  <2>0. FormOK(form[e]) /\ form[e] # Closed
    <3>1. form[e].on
      BY <1>5 DEF SetField
    <3> QED BY <3>1 DEF RuleInv, Closed
  <2>1. ASSUME NEW field, NEW w, Touched(e, field, w),
               FormValues(w), w.amount \in Nat, w.unit \in {"seconds", "minutes", "hours"},
               w.severity \in Severities, w.condition \in {"none", "plain"},
               \A f \in Fields \ {field} : ShownAs(f, v, form[e].from) => ShownAs(f, w, form[e].from)
        PROVE  RuleInv'
    <3> DEFINE g == [on |-> TRUE, from |-> form[e].from, touched |-> form[e].touched \cup {field},
                     values |-> w]
    <3>1. form' = [form EXCEPT ![e] = g]
      <4>1. form[e] = [on |-> TRUE, from |-> form[e].from, touched |-> form[e].touched,
                       values |-> form[e].values]
        BY <2>0 DEF FormOK
      <4>2. form = [u \in Users |-> form[u]]
        BY DEF RuleInv
      <4>3. form' = [form EXCEPT ![e].touched = @ \cup {field}, ![e].values = w]
        BY <2>1 DEF Touched
      <4>4. form' = [form EXCEPT ![e] = [[form[e] EXCEPT !.touched = @ \cup {field}]
                                           EXCEPT !.values = w]]
        BY <4>2, <4>3
      <4>5. [[form[e] EXCEPT !.touched = @ \cup {field}] EXCEPT !.values = w] = g
        BY <4>1, FormUpdate
      <4> QED BY <4>4, <4>5
    <3>2. \A f \in Untouched(form[e].touched \cup {field}) : ShownAs(f, w, form[e].from)
      BY <2>0, <2>1 DEF FormOK, Untouched
    <3>3. FormOK(g)
      BY <2>1, <3>2 DEF FormOK
    <3> QED BY <1>3, <1>5, <3>1, <3>3 DEF SetField
  <2>2. /\ FormValues(v) /\ v.amount \in Nat /\ v.unit \in {"seconds", "minutes", "hours"}
        /\ v.severity \in Severities /\ v.condition \in {"none", "plain"}
    BY <2>0 DEF FormOK
  <2> HIDE DEF v
  <2>3. CASE \E amount \in Amounts, unit \in DOMAIN Units :
               Touched(e, "cooldown", [v EXCEPT !.amount = amount, !.unit = unit])
    <3>1. PICK amount \in Amounts, unit \in DOMAIN Units :
                 Touched(e, "cooldown", [v EXCEPT !.amount = amount, !.unit = unit])
      BY <2>3
    <3>2. amount \in Nat /\ unit \in {"seconds", "minutes", "hours"}
      BY DEF Units
    <3> DEFINE w == [amount |-> amount, unit |-> unit, severity |-> v.severity,
                     condition |-> v.condition, channels |-> v.channels,
                     described |-> v.described, enabled |-> v.enabled]
    <3>3. [v EXCEPT !.amount = amount, !.unit = unit] = w
      BY <2>2, CooldownUpdate
    <3>4. \A f \in Fields \ {"cooldown"} :
            ShownAs(f, v, form[e].from) => ShownAs(f, w, form[e].from)
      BY DEF ShownAs
    <3>5. FormValues(w)
      BY DEF FormValues
    <3> QED BY <2>1, <2>2, <3>1, <3>2, <3>3, <3>4, <3>5
  <2>4. CASE \E s \in Severities : Touched(e, "severity", [v EXCEPT !.severity = s])
    BY <2>1, <2>2, <2>4 DEF FormValues, ShownAs
  <2>5. CASE \E c \in {"none", "plain"} : Touched(e, "condition", [v EXCEPT !.condition = c])
    BY <2>1, <2>2, <2>5 DEF FormValues, ShownAs
  <2>6. CASE Touched(e, "channels", [v EXCEPT !.channels = {"IN_APP"}])
    BY <2>1, <2>2, <2>6 DEF FormValues, ShownAs
  <2>7. CASE Touched(e, "enabled", [v EXCEPT !.enabled = ~@])
    BY <2>1, <2>2, <2>7 DEF FormValues, ShownAs
  <2> QED BY <1>5, <2>3, <2>4, <2>5, <2>6, <2>7 DEF SetField, v
<1> QED BY <1>1, <1>2, <1>4, <1>5

LEMMA RuleSaving ==
    ASSUME RuleInv, NEW e \in Users,
           \/ SubmitForm(e) \/ ToggleEnabled(e) \/ UpdateLoads(e) \/ UpdateWrites(e)
           \/ Updated(e) \/ UpdateFails(e)
    PROVE  RuleInv'
<1>1. ASSUME NEW p, PatchOK(p), patch' = [patch EXCEPT ![e] = p], UNCHANGED <<rule, seen, form>>
      PROVE  RuleInv'
  BY <1>1 DEF RuleInv
<1>2. CASE SubmitForm(e)
  BY <1>1, <1>2, SentFromForm DEF SubmitForm, RuleInv
<1>3. CASE ToggleEnabled(e)
  <2>1. PatchOK(Sent([enabled |-> ~seen[e].enabled], {"enabled"}, seen[e], FALSE))
    BY DEF PatchOK, Sent, Untouched
  <2> QED BY <1>1, <1>3, <2>1 DEF ToggleEnabled
<1>4. CASE UpdateLoads(e)
  <2> DEFINE p == [patch[e] EXCEPT !.pc = "loaded", !.current = rule]
  <2>1. PatchOK(patch[e]) /\ patch[e] # NoPatch /\ RowOK(rule)
    BY <1>4 DEF RuleInv, UpdateLoads, NoPatch
  <2>2. PatchOK(p)
    <3>1. p = [pc |-> "loaded", body |-> patch[e].body, touched |-> patch[e].touched,
               from |-> patch[e].from, saving |-> patch[e].saving, current |-> rule]
      BY <2>1, PatchUpdate
    <3> HIDE DEF p
    <3> QED BY <2>1, <3>1 DEF PatchOK
  <2>3. patch' = [patch EXCEPT ![e] = p]
    BY <1>4 DEF UpdateLoads, RuleInv
  <2> QED BY <1>1, <1>4, <2>2, <2>3 DEF UpdateLoads
<1>5. CASE UpdateWrites(e)
  <2> DEFINE p == [patch[e] EXCEPT !.pc = "written"]
  <2>1. PatchOK(patch[e]) /\ patch[e] # NoPatch
    BY <1>5 DEF RuleInv, UpdateWrites, NoPatch
  <2>2. PatchOK(p)
    BY <2>1 DEF PatchOK
  <2>3. RowOK(rule')
    BY <1>5, <2>1, MergedRow DEF UpdateWrites
  <2>4. patch' = [patch EXCEPT ![e] = p]
    BY <1>5 DEF UpdateWrites, RuleInv
  <2> QED BY <1>5, <2>2, <2>3, <2>4 DEF UpdateWrites, RuleInv
<1>6. CASE Updated(e)
  BY <1>6 DEF Updated, RuleInv, FormOK, PatchOK
<1>7. CASE UpdateFails(e)
  BY <1>1, <1>7 DEF UpdateFails, PatchOK
<1> QED BY <1>2, <1>3, <1>4, <1>5, <1>6, <1>7

\* The rule form's inductive invariant: what an open form shows, and what a
\* body under way carries, of the row they were taken from.
THEOREM RuleInvariance == RuleSpec => []RuleInv
<1>1. RuleInv /\ [RuleNext]_ruleVars => RuleInv'
  <2> SUFFICES ASSUME RuleInv, [RuleNext]_ruleVars PROVE RuleInv'
    OBVIOUS
  <2>1. CASE RuleNext
    BY <2>1, RuleEditing, RuleSaving DEF RuleNext
  <2>2. CASE UNCHANGED ruleVars
    BY <2>2 DEF ruleVars, RuleInv
  <2> QED BY <2>1, <2>2
<1> QED BY <1>1, RuleStarts, PTL DEF RuleSpec

\* A save that nobody disturbs changes only what its editor touched, for any
\* rows, editors and cooldowns.
THEOREM EditsSpareTheRest == RuleSpec => UntouchedSurvives
<1>1. RuleInv /\ [RuleNext]_ruleVars => [UntouchedSurvivesStep]_ruleVars
  <2> SUFFICES ASSUME RuleInv, RuleNext, NEW e \in Users,
                      patch[e].pc = "loaded", patch'[e].pc = "written",
                      patch[e].current = rule, patch[e].from = rule,
                      NEW f \in Fields \ ({"described"} \cup patch[e].touched)
               PROVE  Survives(f)
    BY DEF UntouchedSurvivesStep
  <2>1. PICK d \in Users :
            \/ Relist(d) \/ StartEdit(d) \/ SetField(d) \/ CancelForm(d)
            \/ SubmitForm(d) \/ ToggleEnabled(d) \/ UpdateLoads(d) \/ UpdateWrites(d)
            \/ Updated(d) \/ UpdateFails(d)
    BY DEF RuleNext
  <2>2. patch = [u \in Users |-> patch[u]] /\ PatchOK(patch[e]) /\ patch[e] # NoPatch
    BY DEF RuleInv, NoPatch
  <2>3. patch' # patch
    OBVIOUS
  <2>4. ASSUME NEW p, patch' = [patch EXCEPT ![d] = p], p.pc # "written" PROVE FALSE
    BY <2>2, <2>4
  <2>5. ~SubmitForm(d) /\ ~ToggleEnabled(d)
    BY <2>4 DEF SubmitForm, ToggleEnabled, Sent
  <2>6. ~UpdateLoads(d)
    <3> SUFFICES ASSUME UpdateLoads(d) PROVE FALSE
      OBVIOUS
    <3>1. PatchOK(patch[d]) /\ patch[d] # NoPatch
      BY DEF RuleInv, UpdateLoads, NoPatch
    <3> QED BY <2>2, <2>4, <3>1 DEF UpdateLoads, PatchOK
  <2>7. ~Updated(d) /\ ~UpdateFails(d)
    BY <2>4 DEF Updated, UpdateFails, NoPatch
  <2>8. UpdateWrites(d)
    BY <2>1, <2>3, <2>5, <2>6, <2>7 DEF Relist, StartEdit, SetField, CancelForm
  <2>9. d = e
    BY <2>2, <2>8 DEF UpdateWrites
  <2>10. rule'[f] = IF f \in DOMAIN patch[e].body THEN patch[e].body[f] ELSE rule[f]
    BY <2>8, <2>9 DEF UpdateWrites, Merged
  <2>11. f \in DOMAIN patch[e].body => Carries(f, patch[e].body[f], rule)
    BY <2>2 DEF PatchOK, Untouched
  <2> QED BY <2>10, <2>11 DEF Survives, Carries
<1> QED BY <1>1, RuleInvariance, PTL DEF RuleSpec, UntouchedSurvives
=============================================================================
