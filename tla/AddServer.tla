------------------------------ MODULE AddServer ------------------------------
(***************************************************************************)
(* AddServerModal of ServersPage: a wizard that creates a server and its   *)
(* agent token, shows the command to run, and listens for the agent.       *)
(***************************************************************************)
EXTENDS Naturals

CONSTANTS
    MaxFaults,      \* calls that fail, or whose answer is lost
    Patience        \* poll intervals until the wizard stops listening

ASSUME WizardAssumption == MaxFaults \in Nat /\ Patience \in Nat \ {0}

VARIABLES
    wiz,        \* [open, step, busy, server, token]: the modal's state;
                \* server and token: whether it knows them
    setup,      \* where handleProceedToSetup is
    ear,        \* [status, poller, asked, armed, waited, retried]: step 4
    made,       \* [servers, tokens, agent]: at the server
    fault       \* [servers, tokens, polls]: calls that failed

wizVars == <<wiz, setup, ear, made, fault>>

Faults == fault.servers + fault.tokens + fault.polls

WizardTypeOK ==
    /\ wiz \in [open : BOOLEAN, step : 1..4, busy : BOOLEAN, server : BOOLEAN, token : BOOLEAN]
    /\ setup \in {"idle", "server", "serverMade", "token", "tokenMade"}
    /\ ear \in [status : {"connecting", "connected", "timeout"}, poller : BOOLEAN,
                asked : {"no", "yes", "before"}, armed : BOOLEAN,
                waited : 0..Patience, retried : BOOLEAN]
    /\ made \in [servers : Nat, tokens : Nat, agent : BOOLEAN]
    /\ fault \in [servers : Nat, tokens : Nat, polls : Nat]
    /\ Faults <= MaxFaults

WizardStart(open) ==
    /\ wiz = [open |-> open, step |-> 1, busy |-> FALSE, server |-> FALSE, token |-> FALSE]
    /\ setup = "idle"
    /\ ear = [status |-> "connecting", poller |-> FALSE, asked |-> "no", armed |-> FALSE,
              waited |-> 0, retried |-> FALSE]
    /\ made = [servers |-> 0, tokens |-> 0, agent |-> FALSE]
    /\ fault = [servers |-> 0, tokens |-> 0, polls |-> 0]

(***************************************************************************)
(* Steps 1 to 3.                                                           *)
(***************************************************************************)

\* Next of step 1 and the Back buttons, none of which looks at busy.
Turn ==
    /\ wiz.open
    /\ \E from, to \in 1..3 :
        /\ <<from, to>> \in {<<1, 2>>, <<2, 1>>, <<3, 2>>}
        /\ wiz.step = from
        /\ wiz' = [wiz EXCEPT !.step = to]
    /\ UNCHANGED <<setup, ear, made, fault>>

\* handleProceedToSetup: what an earlier attempt has made is not made again.
HandleProceedToSetup ==
    /\ wiz.open
    /\ wiz.step = 2
    /\ ~wiz.busy
    /\ IF wiz.token THEN wiz' = [wiz EXCEPT !.step = 3] /\ setup' = "idle"
       ELSE /\ wiz' = [wiz EXCEPT !.busy = TRUE]
            /\ setup' = IF wiz.server THEN "token" ELSE "server"
    /\ UNCHANGED <<ear, made, fault>>

ServeSetup ==
    /\ \/ /\ setup = "server"
          /\ setup' = "serverMade"
          /\ made' = [made EXCEPT !.servers = @ + 1]
       \/ /\ setup = "token"
          /\ setup' = "tokenMade"
          /\ made' = [made EXCEPT !.tokens = @ + 1]
    /\ UNCHANGED <<wiz, ear, fault>>

\* Mutant: the new server's id is not kept.
ServerAnsweredForgotten ==
    /\ setup = "serverMade"
    /\ setup' = "token"
    /\ UNCHANGED <<wiz, ear, made, fault>>

\* createServer has answered; the handler goes on when the modal is gone,
\* but then nothing keeps what it learns.
ServerAnswered ==
    /\ setup = "serverMade"
    /\ setup' = "token"
    /\ wiz' = [wiz EXCEPT !.server = wiz.open]
    /\ UNCHANGED <<ear, made, fault>>

\* createAgentToken has answered: step 3 is shown, whatever step was.
TokenAnswered ==
    /\ setup = "tokenMade"
    /\ setup' = "idle"
    /\ wiz' = IF wiz.open THEN [wiz EXCEPT !.token = TRUE, !.busy = FALSE, !.step = 3] ELSE wiz
    /\ UNCHANGED <<ear, made, fault>>

\* A call of the handler fails, before or after the server has served it.
SetupFails ==
    /\ setup # "idle"
    /\ Faults < MaxFaults
    /\ setup' = "idle"
    /\ wiz' = [wiz EXCEPT !.busy = FALSE]
    /\ fault' = IF setup \in {"server", "serverMade"} THEN [fault EXCEPT !.servers = @ + 1]
                ELSE [fault EXCEPT !.tokens = @ + 1]
    /\ UNCHANGED <<ear, made>>

\* The user runs the command.
AgentConnects ==
    /\ wiz.token
    /\ made' = [made EXCEPT !.agent = TRUE]
    /\ UNCHANGED <<wiz, setup, ear, fault>>

(***************************************************************************)
(* Step 4.                                                                 *)
(***************************************************************************)

\* The cleanup of the effect; the answer of a poll under way still counts.
Torn(e) == [e EXCEPT !.poller = FALSE, !.armed = FALSE,
                     !.asked = IF @ = "yes" THEN "before" ELSE @]
\* Mutant: the effect is torn down and not set up again.
EffectNotAgain(e) == IF ear.waited = 0 /\ ~ear.poller
                     THEN [Torn(e) EXCEPT !.poller = TRUE, !.armed = TRUE, !.waited = 0]
                     ELSE Torn(e)
Effect(e) == [Torn(e) EXCEPT !.poller = TRUE, !.armed = TRUE, !.waited = 0]

HandleEnterStep4 ==
    /\ wiz.open
    /\ wiz.step = 3
    /\ wiz' = [wiz EXCEPT !.step = 4]
    /\ ear' = Effect([ear EXCEPT !.status = "connecting", !.retried = FALSE])
    /\ UNCHANGED <<setup, made, fault>>

\* ServersPage renders anew, after a poll of its own or a heartbeat of any
\* server: onCreated is another function, and the effect starts over.
PageRenders ==
    /\ wiz.open
    /\ wiz.step = 4
    /\ ear' = Effect(ear)
    /\ UNCHANGED <<wiz, setup, made, fault>>

\* The answer of managedServer.  The poller is cleared by its own effect only;
\* the timeout is not.
PollAnswered ==
    /\ ear.asked # "no"
    /\ ear' = IF made.agent
              THEN [ear EXCEPT !.status = IF wiz.open THEN "connected" ELSE @,
                               !.poller = @ /\ ear.asked = "before", !.asked = "no"]
              ELSE [ear EXCEPT !.asked = "no"]
    /\ UNCHANGED <<wiz, setup, made, fault>>

PollFails ==
    /\ ear.asked # "no"
    /\ Faults < MaxFaults
    /\ ear' = [ear EXCEPT !.asked = "no"]
    /\ fault' = [fault EXCEPT !.polls = @ + 1]
    /\ UNCHANGED <<wiz, setup, made>>

\* A poll interval passes in which the page does not render: only then does
\* the poller, which every render starts over, ask once more.
Tick ==
    /\ ear.armed
    /\ ear.waited < Patience
    /\ ear' = [ear EXCEPT !.waited = @ + 1,
                          !.asked = IF ear.poller /\ @ = "no" THEN "yes" ELSE @]
    /\ UNCHANGED <<wiz, setup, made, fault>>

\* Mutant: a connection that was found is not looked at.
TimeoutFiresAnyway ==
    /\ ear.armed
    /\ ear.waited = Patience
    /\ ear' = [ear EXCEPT !.status = "timeout", !.poller = FALSE, !.armed = FALSE]
    /\ UNCHANGED <<wiz, setup, made, fault>>

TimeoutFires ==
    /\ ear.armed
    /\ ear.waited = Patience
    /\ ear' = [ear EXCEPT !.status = IF @ = "connected" THEN @ ELSE "timeout",
                          !.poller = FALSE, !.armed = FALSE]
    /\ UNCHANGED <<wiz, setup, made, fault>>

\* Retry Listening: the status only; the effect does not depend on it.
RetryListening ==
    /\ wiz.open
    /\ wiz.step = 4
    /\ ear.status = "timeout"
    /\ ear' = [ear EXCEPT !.status = "connecting", !.retried = TRUE]
    /\ UNCHANGED <<wiz, setup, made, fault>>

ReviewSetupCommand ==
    /\ wiz.open
    /\ wiz.step = 4
    /\ ear.status = "timeout"
    /\ wiz' = [wiz EXCEPT !.step = 3]
    /\ ear' = Torn(ear)
    /\ UNCHANGED <<setup, made, fault>>

\* A click outside, Cancel or Close; the id and the token are gone.
CloseWizard ==
    /\ wiz.open
    /\ wiz' = [open |-> FALSE, step |-> 1, busy |-> FALSE, server |-> FALSE, token |-> FALSE]
    /\ ear' = Torn(ear)
    /\ UNCHANGED <<setup, made, fault>>

Waiting == Tick \/ TimeoutFires

WizardNext ==
    \/ Turn \/ HandleProceedToSetup \/ ServeSetup \/ ServerAnswered \/ TokenAnswered
    \/ SetupFails \/ AgentConnects
    \/ HandleEnterStep4 \/ PageRenders \/ PollAnswered \/ PollFails \/ Waiting
    \/ RetryListening \/ ReviewSetupCommand \/ CloseWizard

WizardSpec == WizardStart(TRUE) /\ [][WizardNext]_wizVars

\* The browser settles every poll.  Nothing is assumed of the timers: a page
\* that renders more often than they fire starts them over each time.
WizardFairness == WF_wizVars(PollAnswered)

(***************************************************************************)
(* Properties.                                                             *)
(***************************************************************************)

\* However often the user goes back and tries again, a wizard makes one server
\* and one token, and another one only for a call that failed
\* (createdServerId and agentToken are looked at before each call).
MadeOnce ==
    /\ made.servers <= 1 + fault.servers
    /\ made.tokens <= 1 + fault.tokens

\* No step is shown whose token is missing, and Next is busy while the handler
\* runs and the modal is there.
WizardInStep ==
    /\ wiz.step > 2 => wiz.token
    /\ wiz.busy = (wiz.open /\ setup # "idle")

\* What the handler is about to make, or would make again, was made for calls
\* that failed only.
NothingToSpare ==
    /\ setup = "server" \/ (setup = "idle" /\ wiz.open /\ ~wiz.server)
          => made.servers <= fault.servers
    /\ setup \in {"server", "serverMade", "token"} \/ (setup = "idle" /\ wiz.open /\ ~wiz.token)
          => made.tokens <= fault.tokens
    /\ setup \in {"token", "tokenMade"} /\ wiz.open => wiz.server

WizardInv == WizardTypeOK /\ WizardInStep /\ NothingToSpare /\ MadeOnce

\* A found connection is not taken back by the timeout, which is still armed,
\* nor by a poll or an effect that starts over; the user has to enter the
\* step anew.
ConnectedStaysStep ==
    ear.status = "connected" /\ ear'.status # "connected" => HandleEnterStep4
ConnectedStays == [][ConnectedStaysStep]_wizVars

\* An agent that connects while the wizard listens is noticed, or the wizard
\* says that it has stopped listening, provided that the page again and again
\* goes a poll interval without rendering: each render starts poller and
\* timeout over, so that one which renders more often, as heartbeats of many
\* servers make it, hears nothing and never times out.  Listening that was
\* resumed with Retry Listening is excepted: it polls only once the page renders.
AgentNoticed ==
    WF_wizVars(Waiting) =>
      []<>~(wiz.open /\ wiz.step = 4 /\ ear.status = "connecting" /\ made.agent /\ ~ear.retried)
==============================================================================
