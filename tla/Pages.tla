-------------------------------- MODULE Pages --------------------------------
(***************************************************************************)
(* A page of a client at work: its panels load through React Query (or     *)
(* through bare fetches), its controls call the server, and the answers    *)
(* close dialogs, clear busy flags and reload panels.  The page is one of  *)
(* the tables'; the panels of a page do not depend on each other, so one   *)
(* of them is watched.  The data behind a panel is its version.            *)
(***************************************************************************)
EXTENDS BackupPages, SettingsPages, ServerPages, MobilePages, Integers, Sequences, SequencesExt, FiniteSets

CONSTANTS
    Shown,          \* the pages used
    Items,          \* the items of every list
    MaxCalls,       \* calls the user makes in a behaviour
    MaxEvents       \* other users' changes, faults, role changes, leaving

Tables == {DatabaseBackupsPage, SettingsPage, ServerSide, Phone}
PageTable ==
    [n \in UNION {DOMAIN t : t \in Tables} |-> (CHOOSE t \in Tables : n \in DOMAIN t)[n]]

ASSUME PagesAssumption ==
    Shown \subseteq DOMAIN PageTable /\ MaxCalls \in Nat /\ MaxEvents \in Nat

\* Changes the page does not load again: the artifacts of a verified run keep
\* their old verification until the card is opened anew, a silenced alert
\* looks as before until the next event, and a search its old results.
NeverReloaded ==
    {<<"verifyRun", "vg-artifacts">>, <<"createSilence", "mon-alerts">>}
      \cup (TransferNames \X {Searched})

VARIABLES
    page,       \* [panel, controls]: what is watched and what is used
    seat,       \* [open, mount]: whether the component is mounted, how often
    demoted,    \* whether the server goes by a lesser role than the store
    srv,        \* the version of the panel's data at the server
    panel,      \* [data, status, stale, loads]
    dialog,     \* the open dialog
    flags,      \* busy flags that are set
    call,       \* [1..MaxCalls -> call]
    events

pageVars == <<page, seat, demoted, srv, panel, dialog, flags, call, events>>

\* What the machine needs to know of control a when the panel of key k is
\* watched.  Controls that look alike are the same to it, and so are pages.
Control(a, k) ==
    [per |-> a.per, asks |-> a.via # "button", flag |-> a.flag[1], tested |-> a.tested,
     box |-> a.box, closes |-> a.closes, heeds |-> a.heeds, rereads |-> a.rereads,
     awaits |-> a.awaits,
     gated |-> a.offered # "viewer",
     granted |-> Rank[a.offered] >= Rank[a.needs],
     changes |-> k \in a.changes, refreshes |-> k \in a.refreshes,
     excused |-> <<a.name, k>> \in NeverReloaded]

\* A control, and another one that shares its busy flag.
Pairs(acts) ==
    {{pair[1], pair[2]} : pair \in {p \in acts \X acts :
        p[1] = p[2] \/ (p[1].flag = p[2].flag /\ p[1].flag[1] \in {"page", "item"})}}

\* What the machine needs to know of a panel.
Behaviour(p) == [poll |-> p.poll, live |-> p.live, cancels |-> p.cancels,
                 refetch |-> p.refetch, fails |-> p.fails]

Situations ==
    UNION {{[panel |-> Behaviour(p), controls |-> {Control(b, p.key) : b \in pair}]
              : p \in PageTable[n].panels, pair \in Pairs(PageTable[n].acts) \cup {{}}}
            : n \in Shown}

Row == page.panel

None == -1
NoItem == "none"
NoAct == [flag |-> "none"]
NoCall == [act |-> NoAct, item |-> NoItem, pc |-> "unused", made |-> None,
           mount |-> 0, late |-> FALSE]
ItemsOf(a) == IF a.per = "page" THEN {NoItem} ELSE Items
Calls == 1..MaxCalls

\* A load: what it has read, and the call that waits for it.
Load(c) == [read |-> None, for |-> c]
Nobody == 0

\* busy: the call that a dialog with a flag of its own waits for.
NoDialog == [act |-> NoAct, item |-> NoItem, busy |-> Nobody]

\* What the panel shows: nothing yet, the data, an error that it tells, what it
\* had before a failure that it does not tell, an empty list though the data
\* are not known, or the page's skeleton.
Statuses == {"pending", "success", "error", "unsaid", "blank", "skeleton"}

Versions == 0..(MaxCalls + MaxEvents)

PageTypeOK ==
    /\ seat \in [open : BOOLEAN, mount : 0..MaxEvents]
    /\ demoted \in BOOLEAN
    /\ srv \in Versions
    /\ panel.data \in Versions \cup {None}
    /\ panel.status \in Statuses
    /\ panel.stale \in BOOLEAN
    /\ Row.cancels => Len(panel.loads) <= 1
    /\ \A c \in Calls :
        /\ call[c].pc \in {"unused", "sent", "served", "denied", "failed", "rereading",
                         "reloading", "done", "rejected"}
        /\ call[c].made \in Versions \cup {None}
    /\ events \in 0..MaxEvents

\* A page that is opened loads at once.
PageStart(open) ==
    /\ seat = [open |-> open, mount |-> 0]
    /\ demoted = FALSE
    /\ srv = 0
    /\ panel = [data |-> None, status |-> "pending", stale |-> FALSE,
              loads |-> IF open THEN <<Load(Nobody)>> ELSE <<>>]
    /\ dialog = NoDialog
    /\ flags = {}
    /\ call = [c \in Calls |-> NoCall]
    /\ events = 0

Event == events < MaxEvents /\ events' = events + 1

(***************************************************************************)
(* Loading.                                                                *)
(***************************************************************************)

\* Mutants: loads pile up; the load under way is joined as a first one is; an
\* invalidation only marks.
ReloadedBeside(c) == [panel EXCEPT !.loads = Append(@, Load(c))]
ReloadedJoining(c) ==
    IF panel.loads # <<>> THEN panel ELSE [panel EXCEPT !.loads = <<Load(c)>>]
InvalidatedLazily(c) == [panel EXCEPT !.stale = TRUE]

\* Query.fetch with cancelRefetch: the first load of all is joined, a later
\* one is dropped for a new one.  A bare fetch runs beside the others.
FirstLoad == panel.data = None /\ panel.status \notin {"blank", "skeleton"} /\ panel.loads # <<>>
Reloaded(c) ==
    CASE ~Row.cancels             -> [panel EXCEPT !.loads = Append(@, Load(c))]
      [] Row.cancels /\ FirstLoad -> panel
      [] OTHER                    -> [panel EXCEPT !.loads = <<Load(c)>>]

\* invalidateQueries: a mounted panel loads at once, another one when it is
\* mounted again; refetch loads in any case.
Invalidated(c) ==
    IF seat.open \/ Row.refetch THEN Reloaded(c) ELSE [panel EXCEPT !.stale = TRUE]

LoadServed(n) ==
    /\ n \in DOMAIN panel.loads
    /\ panel.loads[n].read = None
    /\ panel' = [panel EXCEPT !.loads[n].read = srv]
    /\ UNCHANGED <<page, seat, demoted, srv, dialog, flags, call, events>>

\* A tab that never clears its error goes on showing it.
LoadDone(n) ==
    /\ n \in DOMAIN panel.loads
    /\ panel.loads[n].read # None
    /\ panel' = [panel EXCEPT !.data = panel.loads[n].read,
                              !.status = IF Row.fails = "sticks" /\ @ = "error" THEN @
                                         ELSE "success",
                              !.stale = FALSE, !.loads = RemoveAt(@, n)]
    /\ UNCHANGED <<page, seat, demoted, srv, dialog, flags, call, events>>

\* retry: 1.  A query's first failure is tried again.
LoadRetried(n) ==
    /\ n \in DOMAIN panel.loads
    /\ Row.cancels
    /\ Event
    /\ panel' = [panel EXCEPT !.loads[n].read = None]
    /\ UNCHANGED <<page, seat, demoted, srv, dialog, flags, call>>

\* How the panel shows that a load has failed.
Failures ==
    CASE Row.fails = "first"   -> {IF panel.data = None THEN "error" ELSE "unsaid"}
      [] Row.fails = "silent"  -> {"unsaid"}
      [] Row.fails = "empties" -> {"blank", "unsaid"}
      [] Row.fails = "parts"   -> {"blank", "skeleton"}
      [] Row.fails = "frame"   -> {"skeleton"}
      [] OTHER                 -> {"error"}

\* The load fails for good.  The skeleton takes the tabs and their state away.
LoadFails(n) ==
    /\ n \in DOMAIN panel.loads
    /\ Event
    /\ \E how \in Failures :
        /\ panel' = [panel EXCEPT !.data = IF how \in {"blank", "skeleton"} THEN None ELSE @,
                                  !.status = how, !.loads = RemoveAt(@, n)]
        /\ IF how = "skeleton" /\ seat.open
           THEN /\ seat' = [seat EXCEPT !.mount = @ + 1]
                /\ dialog' = NoDialog
                /\ flags' = {}
           ELSE UNCHANGED <<seat, dialog, flags>>
    /\ UNCHANGED <<page, demoted, srv, call>>

\* refetchInterval: also after an error.
Poll ==
    /\ seat.open
    /\ Row.poll
    /\ panel.loads = <<>>
    /\ panel' = Reloaded(Nobody)
    /\ UNCHANGED <<page, seat, demoted, srv, dialog, flags, call, events>>

\* The page's refresh button, or Retry of its error.
RefreshButton ==
    /\ seat.open
    /\ Event
    /\ panel' = Reloaded(Nobody)
    /\ UNCHANGED <<page, seat, demoted, srv, dialog, flags, call>>

\* useEvents: an event of the bus, about this data or not.
BusEvent ==
    /\ seat.open
    /\ Row.live
    /\ Event
    /\ panel' = Reloaded(Nobody)
    /\ UNCHANGED <<page, seat, demoted, srv, dialog, flags, call>>

(***************************************************************************)
(* Controls.                                                               *)
(***************************************************************************)

\* The flag of act a on item i; a "last" flag remembers one item only.
FlagOf(a, i) ==
    CASE a.flag \in {"item", "last"} -> {<<a.flag, i>>}
      [] a.flag = "page"             -> {<<a.flag, NoItem>>}
      [] OTHER                          -> {}
Others(a) == {f \in flags : a.flag # "last" \/ f[1] # a.flag}

\* An error, or the wait for the first load, in place of the tab: its controls
\* and its dialog are out of sight, though the state of the dialog is kept.
Hidden ==
    \/ panel.status = "skeleton"
    \/ /\ Row.fails \in {"walls", "sticks", "parts", "frame"}
       /\ panel.status \in {"pending", "error"}

\* The control is offered to the user's role; an item can be chosen while it
\* is listed.
Visible(a) ==
    /\ seat.open
    /\ ~Hidden
    /\ a.per = "item" => /\ panel.data # None
                        /\ ~(Row.fails = "instead" /\ panel.status = "error")

OpenDialog(a, i) ==
    /\ Visible(a)
    /\ a.asks
    /\ dialog = NoDialog
    /\ \E c \in Calls : call[c] = NoCall
    /\ dialog' = [act |-> a, item |-> i, busy |-> Nobody]
    /\ UNCHANGED <<page, seat, demoted, srv, panel, flags, call, events>>

\* Cancel, Escape or a click outside, whether or not a call is under way.
CloseDialog ==
    /\ dialog # NoDialog
    /\ ~Hidden
    /\ dialog' = NoDialog
    /\ UNCHANGED <<page, seat, demoted, srv, panel, flags, call, events>>

\* Mutant: the control never looks at its flag.
EnabledAlways(a, i) == TRUE

Enabled(a, i) ==
    a.tested => IF a.flag = "dialog" THEN dialog.busy = Nobody ELSE FlagOf(a, i) \cap flags = {}

Submit(a, i, c) ==
    /\ Visible(a)
    /\ IF a.asks THEN dialog.act = a /\ dialog.item = i ELSE dialog = NoDialog
    /\ Enabled(a, i)
    /\ call[c] = NoCall
    /\ \A d \in 1..(c - 1) : call[d] # NoCall
    /\ call' = [call EXCEPT ![c] = [act |-> a, item |-> i, pc |-> "sent",
                                    made |-> None, mount |-> seat.mount,
                                    late |-> FALSE]]
    /\ flags' = Others(a) \cup FlagOf(a, i)
    /\ dialog' = IF a.closes = "before" THEN NoDialog
                 ELSE [dialog EXCEPT !.busy = IF a.flag = "dialog" THEN c ELSE @]
    /\ UNCHANGED <<page, seat, demoted, srv, panel, events>>

\* Whether the user's role is enough, for the least role the control is
\* offered to; of a control that all roles see, either may be the case.
Answers(a) ==
    CASE demoted              -> {"denied"}
      [] ~demoted /\ a.granted -> {"served"}
      [] OTHER -> IF a.gated THEN {"denied"} ELSE {"served", "denied"}

\* The server: the role first, then the change.
Serve(c) ==
    LET a == call[c].act IN
    /\ call[c].pc = "sent"
    /\ \E answer \in Answers(a) :
        LET made == answer = "served" /\ a.changes IN
        /\ srv' = IF made THEN srv + 1 ELSE srv
        /\ call' = [call EXCEPT ![c].pc = answer, ![c].made = IF made THEN srv' ELSE None]
    /\ UNCHANGED <<page, seat, demoted, panel, dialog, flags, events>>

\* The call fails, or its answer is lost after the change was made.
CallFails(c) ==
    /\ call[c].pc \in {"sent", "served"}
    /\ Event
    /\ call' = [call EXCEPT ![c].pc = "failed"]
    /\ UNCHANGED <<page, seat, demoted, srv, panel, dialog, flags>>

\* The dialog that the end of call c closes: the code resets the state the
\* dialog was opened with, whatever it shows by then.
ClosedBy(a, c) ==
    /\ dialog.act = a
    /\ a.box = "item" => dialog.item = call[c].item

\* A dialog's own flag goes with the dialog; the call of one that was closed
\* leaves the flag of a later one alone.
DialogAfter(a, c, ok) ==
    IF ClosedBy(a, c) /\ (ok \/ a.closes = "always") THEN NoDialog
    ELSE [dialog EXCEPT !.busy = IF @ = c THEN Nobody ELSE @]

Here(c) == seat.open /\ call[c].mount = seat.mount

\* Mutant: the flag is cleared after the await, not in a finally.
ReleasedInTry(a, c) ==
    IF Here(c) /\ call[c].pc \notin {"denied", "failed"}
    THEN Others(a) \ FlagOf(a, call[c].item) ELSE flags

\* The flag is cleared, unless the mount that set it is gone.
Released(a, c) ==
    IF Here(c) THEN Others(a) \ FlagOf(a, call[c].item) ELSE flags

\* A reload that does not replace the load under way, or of a page that is
\* away, may show the change later only.
Late == ~seat.open \/ FirstLoad \/ (~Row.cancels /\ panel.loads # <<>>)

\* What follows a success: the panels are reloaded, and a handler that awaits
\* this has not ended.
Refreshed(a, c) == IF a.refreshes THEN Invalidated(c) ELSE panel
AfterSuccess(a) == IF a.awaits THEN "reloading" ELSE "done"

\* The answer is taken, and the dialog closed after a success; an error is
\* told.  State of an earlier mount is gone.
Settle(c) ==
    LET a == call[c].act
        ok == call[c].pc = "served" \/ ~a.heeds
    IN
    /\ call[c].pc \in {"served", "denied", "failed"}
    /\ call' = [call EXCEPT ![c].pc = CASE ok /\ a.rereads  -> "rereading"
                                         [] ok /\ ~a.rereads -> AfterSuccess(a)
                                         [] OTHER            -> "rejected",
                            ![c].late = Late]
    /\ panel' = IF ok /\ ~a.rereads THEN Refreshed(a, c) ELSE panel
    /\ dialog' = IF Here(c) THEN DialogAfter(a, c, ok) ELSE dialog
    /\ flags' = IF ok /\ (a.rereads \/ a.awaits) THEN flags ELSE Released(a, c)
    /\ UNCHANGED <<page, seat, demoted, srv, events>>

\* What the handler reads back has come: only now are the panels reloaded.
Reread(c) ==
    LET a == call[c].act IN
    /\ call[c].pc = "rereading"
    /\ call' = [call EXCEPT ![c].pc = AfterSuccess(a), ![c].late = Late]
    /\ panel' = Refreshed(a, c)
    /\ flags' = IF a.awaits THEN flags ELSE Released(a, c)
    /\ UNCHANGED <<page, seat, demoted, srv, dialog, events>>

\* It has not: the change is made, an error is told and nothing reloaded.
RereadFails(c) ==
    /\ call[c].pc = "rereading"
    /\ Event
    /\ call' = [call EXCEPT ![c].pc = "rejected"]
    /\ flags' = Released(call[c].act, c)
    /\ UNCHANGED <<page, seat, demoted, srv, panel, dialog>>

\* The loads that the handler awaits before its finally have ended.
Finish(c) ==
    /\ call[c].pc = "reloading"
    /\ \A n \in DOMAIN panel.loads : panel.loads[n].for # c
    /\ call' = [call EXCEPT ![c].pc = "done"]
    /\ flags' = Released(call[c].act, c)
    /\ UNCHANGED <<page, seat, demoted, srv, panel, dialog, events>>

(***************************************************************************)
(* Elsewhere.                                                              *)
(***************************************************************************)

SomebodyElse ==
    /\ Event
    /\ srv' = srv + 1
    /\ UNCHANGED <<page, seat, demoted, panel, dialog, flags, call>>

\* An administrator changes the user's role; the store keeps the old one.
RoleChanged ==
    /\ Event
    /\ demoted' = TRUE
    /\ UNCHANGED <<page, seat, srv, panel, dialog, flags, call>>

\* Another tab or page is shown: local state is gone, loads of bare fetches
\* with it.
Leave ==
    /\ seat.open
    /\ Event
    /\ seat' = [seat EXCEPT !.open = FALSE]
    /\ dialog' = NoDialog
    /\ flags' = {}
    /\ panel' = IF Row.cancels THEN panel
                ELSE [data |-> None, status |-> "pending", stale |-> TRUE, loads |-> <<>>]
    /\ UNCHANGED <<page, demoted, srv, call>>

\* Mounted again: what is older than staleTime, or invalidated, is loaded.
Return ==
    /\ ~seat.open
    /\ seat' = [open |-> TRUE, mount |-> seat.mount + 1]
    /\ \/ panel' = IF panel.loads = <<>> THEN Reloaded(Nobody) ELSE [panel EXCEPT !.stale = FALSE]
       \/ /\ ~panel.stale /\ panel.status \in {"success", "blank", "skeleton"}
          /\ panel' = panel
    /\ UNCHANGED <<page, demoted, srv, dialog, flags, call, events>>

Loading == \E n \in 1..3 : LoadServed(n) \/ LoadDone(n)
Answering == \E c \in Calls : Serve(c) \/ Settle(c) \/ Reread(c) \/ Finish(c)

PageNext ==
    \/ Loading \/ Answering \/ Poll
    \/ \E n \in 1..3 : LoadRetried(n) \/ LoadFails(n)
    \/ RefreshButton \/ BusEvent
    \/ \E a \in page.controls : \E i \in ItemsOf(a) :
        OpenDialog(a, i) \/ \E c \in Calls : Submit(a, i, c)
    \/ CloseDialog
    \/ \E c \in Calls : CallFails(c) \/ RereadFails(c)
    \/ SomebodyElse \/ RoleChanged \/ Leave \/ Return

PageSpec == page \in Situations /\ PageStart(TRUE) /\ [][PageNext]_pageVars

\* Requests are served, answers arrive and timers fire; the user and the
\* others need not do anything.
PageFairness ==
    /\ WF_pageVars(Loading)
    /\ WF_pageVars(Poll)
    /\ \A c \in Calls : WF_pageVars(Serve(c) \/ Settle(c) \/ Reread(c) \/ Finish(c))

(***************************************************************************)
(* Properties.                                                             *)
(***************************************************************************)

\* What the user changed and the page reloads is on display once the page
\* has come to rest and shows data: no load that read the data before the
\* change overwrites it (invalidateQueries after the await, cancelling the load
\* under way).  A change may have to wait that is answered while the page is
\* away, during a query's first load, which React Query does not cancel, or
\* while another bare fetch of the panel is under way, which nothing cancels.
\* A failed load that the panel does not tell is not data: see OwnChangeShown.
RestShowsLatest ==
    (seat.open /\ panel.loads = <<>> /\ panel.status = "success")
      => \A c \in Calls :
            (call[c].pc \in {"reloading", "done"} /\ ~call[c].late /\ call[c].act.refreshes)
              => panel.data >= call[c].made

\* A control that the page shows to some roles only is not refused by the
\* server, unless the role has been changed since the session store learnt it.
OfferedIsServed ==
    \A c \in Calls : (call[c].pc = "denied" /\ call[c].act.gated) => demoted

\* A control whose flag outlives its dialog, all sharers of which look at it,
\* never makes the same call twice at a time.
NoDoubleSubmit ==
    \A c, d \in Calls :
        (/\ c # d
         /\ call[c].pc \in {"sent", "served"} /\ call[d].pc \in {"sent", "served"}
         /\ call[c].act = call[d].act /\ call[c].item = call[d].item
         /\ call[c].mount = call[d].mount)
      => \/ call[c].act.flag \in {"dialog", "last", "none"}
         \/ \E a \in page.controls : ~a.tested

\* A call of the present mount whose handler has not ended.
Working(c) ==
    /\ call[c].pc \in {"sent", "served", "denied", "failed", "rereading", "reloading"}
    /\ call[c].mount = seat.mount

\* No control stays disabled for good: a busy flag that is set, of the page, of
\* an item or of a dialog, belongs to a call of the present mount whose handler
\* is still to release it, whichever of its calls fails, and whether meanwhile
\* dialogs are closed and opened, tabs unmounted or other flags shared.
BusyMeansWorking ==
    /\ \A f \in flags : \E c \in Calls :
        Working(c) /\ f \in FlagOf(call[c].act, call[c].item)
    /\ dialog.busy # Nobody => Working(dialog.busy)

\* Every change that the user makes and the handler goes on to load again comes
\* to be displayed, or the page is left.  A panel that is not polled may say
\* instead that it could not be loaded, or it may be one of those that do not
\* say so and draw a failed load as what there was before or as nothing: of
\* these nothing is claimed after a failure that no poll makes up for.
Owed(c) ==
    /\ call[c].pc \in {"reloading", "done"} /\ seat.open
    /\ Row.poll \/ (~call[c].late /\ panel.status \notin {"unsaid", "blank", "skeleton"})
    /\ ~call[c].act.excused
OwnChangeShown ==
    []<>(\A c \in Calls :
            Owed(c) => panel.data >= call[c].made \/ (~Row.poll /\ panel.status = "error"))
==============================================================================
