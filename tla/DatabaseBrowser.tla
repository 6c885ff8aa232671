--------------------------- MODULE DatabaseBrowser ---------------------------
(***************************************************************************)
(* DatabasesPage: the user picks a server, its databases are read, some    *)
(* are ticked and registered as services.  Registered is recorded by the   *)
(* server as it is told: it does not look for the databases.               *)
(***************************************************************************)
EXTENDS Naturals

CONSTANTS
    Holds,          \* [servers -> the names of their databases]
    MaxOps          \* calls the user makes

ASSUME BrowserAssumption == MaxOps \in Nat /\ "none" \notin DOMAIN Holds

DbServers == DOMAIN Holds
NoServer == "none"
DbNames == UNION {Holds[s] : s \in DbServers}

VARIABLES
    picked,     \* selectedKey
    list,       \* [of, marked]: dbs, the databases of a server and those
                \* of them that were registered when they were read
    ticked,     \* checked
    view,       \* [browsing, auth, err, registering]
    op,         \* [1..MaxOps -> a call under way]
    services,   \* <<server, name>>: registered at the server
    hurried     \* a server was picked while another one was being read

dbVars == <<picked, list, ticked, view, op, services, hurried>>

Ops == 1..MaxOps
OpKinds == {"none", "browse", "connect", "register", "told", "rebrowse", "ended"}
NoOp == [kind |-> "none", server |-> NoServer, names |-> {}]
Doing(kind, s, names) == [kind |-> kind, server |-> s, names |-> names]
Unused(n) == op[n] = NoOp /\ \A m \in 1..(n - 1) : op[m] # NoOp
Ended == [NoOp EXCEPT !.kind = "ended"]
UnderWay(n) == op[n].kind \notin {"none", "ended"}

NoList == [of |-> NoServer, marked |-> {}]
ListOf(s) == [of |-> s, marked |-> {d \in Holds[s] : <<s, d>> \in services}]

BrowserTypeOK ==
    /\ picked \in DbServers \cup {NoServer}
    /\ list \in [of : DbServers \cup {NoServer}, marked : SUBSET DbNames]
    /\ ticked \subseteq DbNames
    /\ view \in [browsing : BOOLEAN, auth : BOOLEAN, err : BOOLEAN, registering : BOOLEAN]
    /\ op \in [Ops -> [kind : OpKinds, server : DbServers \cup {NoServer}, names : SUBSET DbNames]]
    /\ services \subseteq DbServers \X DbNames
    /\ hurried \in BOOLEAN

BrowserInit ==
    /\ picked = NoServer
    /\ list = NoList
    /\ ticked = {}
    /\ view = [browsing |-> FALSE, auth |-> FALSE, err |-> FALSE, registering |-> FALSE]
    /\ op = [n \in Ops |-> NoOp]
    /\ services = {}
    /\ hurried = FALSE

\* What browse sets before its call.
Browsing(v) == [v EXCEPT !.browsing = TRUE, !.auth = FALSE, !.err = FALSE]

\* Mutant: the other server's list stays until the new one is there.
PickKeepingList(s, n) ==
    /\ Unused(n)
    /\ picked' = s
    /\ view' = Browsing(view)
    /\ op' = [op EXCEPT ![n] = Doing("browse", s, {})]
    /\ hurried' = (hurried \/ \E m \in Ops : UnderWay(m))
    /\ UNCHANGED <<list, ticked, services>>

\* pick: possible at any time; the ticks stay until the answer.
Pick(s, n) ==
    /\ Unused(n)
    /\ picked' = s
    /\ list' = NoList
    /\ view' = Browsing(view)
    /\ op' = [op EXCEPT ![n] = Doing("browse", s, {})]
    /\ hurried' = (hurried \/ \E m \in Ops : UnderWay(m))
    /\ UNCHANGED <<ticked, services>>

\* Refresh: browse of the selected server.
RefreshList(n) ==
    /\ Unused(n)
    /\ picked # NoServer
    /\ ~view.browsing
    /\ view' = Browsing(view)
    /\ op' = [op EXCEPT ![n] = Doing("browse", picked, {})]
    /\ UNCHANGED <<picked, list, ticked, services, hurried>>

\* connectAndBrowse: offered when the server wants a password (or has one).
ConnectAndBrowse(n) ==
    /\ Unused(n)
    /\ picked # NoServer
    /\ ~view.browsing
    /\ view' = [view EXCEPT !.browsing = TRUE, !.err = FALSE]
    /\ op' = [op EXCEPT ![n] = Doing("connect", picked, {})]
    /\ UNCHANGED <<picked, list, ticked, services, hurried>>

\* Connected: the same handler browses the server it was started for.
Connected(n) ==
    /\ op[n].kind = "connect"
    /\ view' = Browsing(view)
    /\ op' = [op EXCEPT ![n].kind = "browse"]
    /\ UNCHANGED <<picked, list, ticked, services, hurried>>

ConnectFails(n) ==
    /\ op[n].kind = "connect"
    /\ \/ view' = [view EXCEPT !.browsing = FALSE, !.auth = TRUE]
       \/ view' = [view EXCEPT !.browsing = FALSE, !.err = TRUE]
    /\ op' = [op EXCEPT ![n] = Ended]
    /\ UNCHANGED <<picked, list, ticked, services, hurried>>

\* The button of a register handler is busy until its browse has ended.
Reads(n) == op[n].kind \in {"browse", "rebrowse"}
AfterBrowse(n) == [view EXCEPT !.browsing = FALSE,
                               !.registering = @ /\ op[n].kind = "browse"]

\* The answer of browse is shown, whichever server is selected by then.
BrowseAnswered(n) ==
    /\ Reads(n)
    /\ list' = ListOf(op[n].server)
    /\ ticked' = {}
    /\ view' = AfterBrowse(n)
    /\ op' = [op EXCEPT ![n] = Ended]
    /\ UNCHANGED <<picked, services, hurried>>

BrowseFails(n) ==
    /\ Reads(n)
    /\ list' = NoList
    /\ \/ view' = [AfterBrowse(n) EXCEPT !.auth = TRUE]
       \/ view' = [AfterBrowse(n) EXCEPT !.err = TRUE]
    /\ op' = [op EXCEPT ![n] = Ended]
    /\ UNCHANGED <<picked, ticked, services, hurried>>

\* A box of the list shown.
Toggle(d) ==
    /\ list # NoList
    /\ d \in Holds[list.of] \ list.marked
    /\ ticked' = IF d \in ticked THEN ticked \ {d} ELSE ticked \cup {d}
    /\ UNCHANGED <<picked, list, view, op, services, hurried>>

\* Select all, or none.
SelectAll ==
    LET tickable == Holds[list.of] \ list.marked IN
    /\ list # NoList
    /\ ticked' = IF tickable # {} /\ tickable \subseteq ticked THEN {} ELSE tickable
    /\ UNCHANGED <<picked, list, view, op, services, hurried>>

\* register: the server selected and the names ticked when it is clicked.
Register(n) ==
    /\ Unused(n)
    /\ list # NoList
    /\ ticked # {}
    /\ ~view.registering
    /\ view' = [view EXCEPT !.registering = TRUE]
    /\ op' = [op EXCEPT ![n] = Doing("register", picked, ticked)]
    /\ UNCHANGED <<picked, list, ticked, services, hurried>>

\* Register of the server; a name whose insert fails is skipped.
ServeRegister(n) ==
    /\ op[n].kind = "register"
    /\ \E kept \in SUBSET op[n].names :
        services' = services \cup ({op[n].server} \X kept)
    /\ op' = [op EXCEPT ![n].kind = "told"]
    /\ UNCHANGED <<picked, list, ticked, view, hurried>>

\* Answered: the ticks are cleared and the server is browsed again, by the
\* same handler.
Registered(n) ==
    /\ op[n].kind = "told"
    /\ ticked' = {}
    /\ view' = Browsing(view)
    /\ op' = [op EXCEPT ![n] = Doing("rebrowse", op[n].server, {})]
    /\ UNCHANGED <<picked, list, services, hurried>>

RegisterFails(n) ==
    /\ op[n].kind \in {"register", "told"}
    /\ view' = [view EXCEPT !.registering = FALSE]
    /\ op' = [op EXCEPT ![n] = Ended]
    /\ UNCHANGED <<picked, list, ticked, services, hurried>>

BrowserNext ==
    \/ \E n \in Ops :
        \/ \E s \in DbServers : Pick(s, n)
        \/ RefreshList(n) \/ ConnectAndBrowse(n) \/ Connected(n) \/ ConnectFails(n)
        \/ BrowseAnswered(n) \/ BrowseFails(n)
        \/ Register(n) \/ ServeRegister(n) \/ Registered(n) \/ RegisterFails(n)
    \/ \E d \in DbNames : Toggle(d)
    \/ SelectAll

BrowserSpec == BrowserInit /\ [][BrowserNext]_dbVars

(***************************************************************************)
(* Properties.                                                             *)
(***************************************************************************)

\* While a list is shown, what is ticked is on it, whatever answers arrive
\* late: Register sends no name the user does not see.
TicksAreListed == list # NoList => ticked \subseteq Holds[list.of]

\* A user who lets every answer arrive before picking another server registers
\* databases with the server that holds them, though ticks outlive a pick.
PatientRegistersRight ==
    ~hurried => \A pair \in services : pair[2] \in Holds[pair[1]]

\* One register handler at a time, and its button is busy until the last of
\* its calls has ended, whatever browses end meanwhile.
Registering(n) == op[n].kind \in {"register", "told", "rebrowse"}
OneRegister ==
    /\ \A m, n \in Ops : Registering(m) /\ Registering(n) => m = n
    /\ view.registering <=> \E n \in Ops : Registering(n)

\* What the handlers under way are about.
OpsOfTheirServer ==
    /\ \A n \in Ops : UnderWay(n) => op[n].server \in DbServers /\ picked \in DbServers
    /\ list # NoList => picked \in DbServers /\ list.of \in DbServers

\* Until the user is in a hurry, all is about the server that is selected.
OpsOfPicked ==
    ~hurried =>
        /\ list # NoList => list.of = picked
        /\ \A n \in Ops :
            UnderWay(n) => op[n].server = picked /\ op[n].names \subseteq Holds[picked]

BrowserInv ==
    /\ BrowserTypeOK
    /\ OneRegister
    /\ TicksAreListed
    /\ OpsOfTheirServer
    /\ OpsOfPicked
    /\ PatientRegistersRight
==============================================================================
