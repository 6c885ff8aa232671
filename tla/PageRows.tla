------------------------------- MODULE PageRows -------------------------------
(***************************************************************************)
(* The vocabulary in which the pages of the clients are described.  A page *)
(* is a record of the data it loads (its panels) and of the calls its      *)
(* controls make (its acts).                                               *)
(***************************************************************************)
EXTENDS Naturals, TLC

Rank == [viewer |-> 0, operator |-> 1, admin |-> 2]
Roles == DOMAIN Rank

\* key: what is loaded.
\* poll: a timer loads it again.  live: events of the server's bus do.
\* cancels: a new load replaces the one under way (React Query); a bare fetch
\* runs beside it.
\* refetch: what follows a call is the query's refetch, which loads even when
\* the page is gone.
\* fails: how a load that failed is shown: what there was stays and the page
\* says so ("told"), or says so where the list was ("instead"), where the whole
\* tab with its dialogs was ("walls"), so that no later success takes it away
\* ("sticks"), or only while it has nothing to show ("first"); or the panel
\* does not say so: what there was stays, if anything ("silent"), there seems
\* to be nothing ("empties"), or nothing but the page's skeleton is drawn
\* ("frame"), or one of these two, by the part that failed ("parts").
Polled(key) == [key |-> key, poll |-> TRUE, live |-> FALSE, cancels |-> TRUE,
                refetch |-> FALSE, fails |-> "silent"]
Failing(how, panel) == [panel EXCEPT !.fails = how]
Refetched(key) == Failing("told", [Polled(key) EXCEPT !.refetch = TRUE])
Loaded(key) == [Polled(key) EXCEPT !.poll = FALSE]
Fetched(key) == [Loaded(key) EXCEPT !.cancels = FALSE]
Live(panel) == [panel EXCEPT !.live = TRUE]

\* per: an act on the page or on one item of a list.
\* via: a plain button, or a dialog that asks or that is filled in.
\* flag: the busy flag that disables the control, and where it lives: in the
\* page, in the item's card, in the dialog, in the page but remembering the
\* last item only, or nowhere.
\* tested: whether the control looks at the flag it sets.
\* box: whether the dialog's open state belongs to the page or to the item.
\* closes: the dialog closes after a success ("ok"), after either outcome
\* ("always"), or before the call is made ("before").
\* heeds: whether the handler looks at the outcome of its call.
\* rereads: after the answer the handler makes one more call, and reloads only
\* when that has succeeded too.
\* awaits: the flag is kept until the panels have been loaded again.
\* needs, offered: the least role the server asks for and the page shows it to.
\* changes, refreshes: the keys the server changes and the page then reloads.
PageFlag(name) == <<"page", name>>
CardFlag(name) == <<"item", name>>
LastItem == <<"last", "last">>
DialogFlag == <<"dialog", "busy">>
NoFlag == <<"none", "none">>

Act(name, per, via, flag, box, role, keys) ==
    [name |-> name, per |-> per, via |-> via, flag |-> flag, tested |-> TRUE,
     box |-> box, closes |-> "ok", heeds |-> TRUE, rereads |-> FALSE, awaits |-> FALSE,
     needs |-> role, offered |-> role, changes |-> keys, refreshes |-> keys]

\* A form that creates: opened from the page, its own busy flag.
Create(name, role, keys) == Act(name, "page", "form", DialogFlag, "page", role, keys)
\* A form that edits an item.
Edit(name, box, role, keys) == Act(name, "item", "form", DialogFlag, box, role, keys)
\* A question about an item, the flag being the card's or the page's.
Confirm(name, flag, box, role, keys) == Act(name, "item", "confirm", flag, box, role, keys)
\* A button that acts at once.
Button(name, per, flag, role, keys) == Act(name, per, "button", flag, "page", role, keys)

\* The page shows the control to every role.
Open(act) == [act EXCEPT !.offered = "viewer"]
Rereading(act) == [act EXCEPT !.rereads = TRUE]
Awaiting(act) == [act EXCEPT !.awaits = TRUE]
Untested(act) == [act EXCEPT !.tested = FALSE]
Heedless(act) == [act EXCEPT !.heeds = FALSE]
Closing(when, act) == [act EXCEPT !.closes = when]
Changing(keys, act) == [act EXCEPT !.changes = keys]

Page(panels, acts) == [panels |-> panels, acts |-> acts]
===============================================================================
