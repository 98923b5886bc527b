------------------------------- MODULE Views -------------------------------
(***************************************************************************)
(* One list of rows in the web client, whichever it is: it is fetched for  *)
(* the selected key, changed by its user's operations and by the events of *)
(* the WebSocket, while other users change the rows on the server too.     *)
(* Panels.tla says which of this a particular store or panel does.         *)
(*                                                                         *)
(* A row is "unborn", in its "old" or its "new" version, or "gone".        *)
(***************************************************************************)
EXTENDS Panels, Naturals, Sequences, FiniteSets

CONSTANTS
    Key,          \* servers, channels, pages that can be selected
    Row, KeyOf,   \* rows, and the key of each
    Studied,      \* the lists studied: a set of records of Panels
    MaxCalls,     \* bound: calls in flight
    MaxInbox      \* bound: events on their way

ASSUME ViewsAssumption ==
    /\ KeyOf \in [Row -> Key] /\ MaxCalls \in Nat /\ MaxInbox \in Nat
    /\ \A s \in Studied :
         /\ DOMAIN s = DOMAIN List("") /\ ~(s.guard /\ s.map)
         /\ s.resync = "ready" => ~s.guard /\ (s.map \/ ~s.keyed)
         /\ ~ApiCalls[s.list].writes /\ ApiCalls[s.list].answers # "nothing"
         /\ \A op \in DOMAIN s.acts :
              /\ ApiCalls[s.acts[op].call].writes
              /\ DOMAIN s.acts[op] = DOMAIN Act("", "")
              /\ TRUE \in s.acts[op].whole => s.guard

(* An answer or event does to the list what its operation does, and a row  *)
(* that an answer adds without a look at the list is not heard of as well; *)
(* who hears of new rows hears of those removed; rows kept for a key that  *)
(* is not fetched again are not cleared.                                   *)
Consistent(s) ==
    /\ s.cached => s.map /\ ~s.fresh
    /\ "create" \in s.hears /\ "delete" \in DOMAIN s.acts => "delete" \in s.hears
    /\ \A op \in DOMAIN s.acts :
         /\ s.acts[op].then \in {"add", "addnew"} => op = "create"
         /\ s.acts[op].then = "add" => "create" \notin s.hears
         /\ s.acts[op].then = "replace" \/ s.acts[op].early => op = "update"
         /\ s.acts[op].then = "drop" => op = "delete"
         /\ s.acts[op].then \in {"add", "addnew", "replace", "drop", "refetch", "wait"}

(* All lists are, but for those that show a row twice.                     *)
ASSUME ListsAssumption == \A s \in Studied : s.twice \/ Consistent(s)

VARIABLES
    list,     \* the list, without the names of its calls
    sel,      \* the selected key, or None
    rows,     \* row -> how often it is shown, and its version
    loaded,   \* keys that need not be fetched again
    truth,    \* row -> what the server has
    form,     \* the form or dialog that is open: of which operation, on
              \* which row, and whether it was sent
    call,     \* calls in flight
    inbox,    \* events on their way, in order
    online,   \* the WebSocket: "off", connected and not registered for
              \* events yet ("greeted"), or "on"
    ready,    \* the rows in a READY on its way
    stale     \* rows whose changes the client was not told of, or heard in
              \* the wrong order (for the properties only)

lvars == <<list, sel, rows, loaded, truth, form, call, inbox, online, ready,
           stale>>

None == "none"
Ops == {"create", "update", "delete"}
Of(k) == {r \in Row : KeyOf[r] = k}

(* Lists that differ in the names of their calls behave alike.             *)
Shape(s) == [s EXCEPT !.list = None,
                      !.acts = [op \in DOMAIN s.acts |->
                                  [s.acts[op] EXCEPT !.call = None]]]

Nothing == [n |-> 0, v |-> "old"]
NoForm == [op |-> None, r |-> None, sent |-> FALSE]
Seen(t) == IF t \in {"old", "new"} THEN [n |-> 1, v |-> t] ELSE Nothing

LInit == /\ list \in {Shape(s) : s \in Studied}
         /\ sel = None /\ loaded = {} /\ rows = [r \in Row |-> Nothing]
         /\ truth \in [Row -> {"unborn", "old", "gone"}]
         /\ form = NoForm /\ call = {} /\ inbox = <<>> /\ online = "on"
         /\ ready = <<>> /\ stale = {}

-----------------------------------------------------------------------------
(* What an operation does to a row on the server, and whether it can.      *)
Fits(op, t) == IF op = "create" THEN t = "unborn" ELSE t \in {"old", "new"}
Result(op) == CASE op = "create" -> "old" [] op = "update" -> "new"
                                          [] op = "delete" -> "gone"

(* Who hears of it by an event does so while the server has the socket     *)
(* registered.                                                             *)
Announce(op, r) ==
    IF op \in list.hears /\ online = "on"
    THEN /\ Len(inbox) < MaxInbox
         /\ inbox' = Append(inbox, [op |-> op, r |-> r])
    ELSE UNCHANGED inbox

Unheard(op, r) == IF op \in list.hears /\ online = "on" THEN {} ELSE {r}

(* What is shown after a row was added, changed or removed; a row is there *)
(* twice at most.                                                          *)
Added(s) == [s EXCEPT !.n = IF @ < 2 THEN @ + 1 ELSE @]
AddedAgain(s) == Added(s)
AddedNew(s) == IF s.n = 0 THEN Added(s) ELSE s
Replaced(s) == IF s.n > 0 THEN [s EXCEPT !.v = "new"] ELSE s
Applied(op, s) == CASE op = "create" -> IF list.twice THEN Added(s)
                                                       ELSE AddedNew(s)
                    [] op = "update" -> Replaced(s)
                    [] op = "delete" -> Nothing

-----------------------------------------------------------------------------
(* Fetching.  A call knows the key it was made for; it is dead once its    *)
(* answer will be thrown away, and is not the open form's once that form   *)
(* was closed.  "got" is what a fetch brings, or the list at the click of  *)
(* an operation that will write it back.                                   *)
Call(op, r, k) == [op |-> op, r |-> r, key |-> k, at |-> "sent", dead |-> FALSE,
                   own |-> FALSE, got |-> <<>>, was |-> Nothing]
Fetch(k) == Call("fetch", None, k)

Fetches(k) == IF list.cached /\ k \in loaded THEN {} ELSE {Fetch(k)}

(* What becomes of the calls under way when the key changes. *)
Kept(c) == c
Abandoned(c) == IF list.guard THEN [c EXCEPT !.dead = TRUE] ELSE c

(* Another key is selected, or the panel is opened for it. *)
Select(k) ==
    /\ form = NoForm /\ k # sel /\ (list.keyed \/ sel = None) /\ sel' = k
    /\ call' = {Abandoned(c) : c \in call} \cup Fetches(k)
    /\ Cardinality(call') <= MaxCalls
    /\ rows' = IF list.fresh THEN [r \in Row |-> Nothing] ELSE rows
    /\ UNCHANGED <<list, loaded, truth, form, inbox, online, ready, stale>>

(* The panel asks again: at times, when the socket is back, or after an    *)
(* operation, then for the key of that one if rows are kept for every key. *)
Asks(calls) == IF sel = None THEN calls ELSE calls \cup {Fetch(sel)}
AsksAfter(c) == IF list.map THEN (call \ {c}) \cup {Fetch(c.key)}
                            ELSE Asks(call \ {c})

Refresh == /\ list.again /\ sel # None /\ Cardinality(call) < MaxCalls
           /\ call' = Asks(call)
           /\ UNCHANGED <<list, sel, rows, loaded, truth, form, inbox, online,
                          ready, stale>>

FetchServed(c) ==
    /\ c.op = "fetch" /\ c.at = "sent"
    /\ call' = (call \ {c}) \cup
         {[c EXCEPT !.at = "ok", !.got = [r \in Of(c.key) |-> truth[r]]]}
    /\ UNCHANGED <<list, sel, rows, loaded, truth, form, inbox, online, ready,
                   stale>>

(* A call is refused, or lost on its way to the server. *)
CallFails(c) ==
    /\ c.at = "sent"
    /\ call' = (call \ {c}) \cup {[c EXCEPT !.at = "failed"]}
    /\ UNCHANGED <<list, sel, rows, loaded, truth, form, inbox, online, ready,
                   stale>>

(* The rows are put in place of those there were. *)
Filled(c) == [r \in Row |-> IF r \in DOMAIN c.got THEN Seen(c.got[r])
                            ELSE IF list.map THEN rows[r] ELSE Nothing]

(* Changes that overtook the list, or that it overtook; an answer for      *)
(* another key, not thrown away, takes the place of the rows selected.     *)
Crossed(got) == {r \in DOMAIN got : \/ Seen(got[r]) # Seen(truth[r])
                                    \/ \E e \in Range(inbox) : e.r = r
                                    \/ \E d \in call : d.r = r}
Overtaken(c) == Crossed(c.got)
                \cup (IF c.key = sel \/ list.map THEN {} ELSE Of(sel))

FetchEnds(c) ==
    /\ c.op = "fetch" /\ c.at # "sent" /\ call' = call \ {c}
    /\ \/ /\ c.dead /\ UNCHANGED <<rows, loaded, stale>>
       \/ /\ ~c.dead /\ c.at = "failed"
          /\ stale' = stale \cup Of(c.key) /\ UNCHANGED <<rows, loaded>>
       \/ /\ ~c.dead /\ c.at = "ok"
          /\ rows' = Filled(c)
          /\ loaded' = IF list.cached THEN loaded \cup {c.key} ELSE loaded
          /\ stale' = (stale \ DOMAIN c.got) \cup Overtaken(c)
    /\ UNCHANGED <<list, sel, truth, form, inbox, online, ready>>

-----------------------------------------------------------------------------
(* The user's operations on the rows shown, with a form or without. *)
Offered(op, r) ==
    /\ op \in DOMAIN list.acts /\ KeyOf[r] = sel
    /\ IF op = "create" THEN truth[r] = "unborn" ELSE rows[r].n > 0

Open(op, r) ==
    /\ form = NoForm /\ Offered(op, r) /\ list.acts[op].form
    /\ form' = [op |-> op, r |-> r, sent |-> FALSE]
    /\ UNCHANGED <<list, sel, rows, loaded, truth, call, inbox, online, ready,
                   stale>>

(* A form can be closed while its call is on its way. *)
Close ==
    /\ form # NoForm /\ form' = NoForm
    /\ call' = {[c EXCEPT !.own = FALSE] : c \in call}
    /\ UNCHANGED <<list, sel, rows, loaded, truth, inbox, online, ready, stale>>

(* What is greyed out while something is under way. *)
Unlocked(op, r) ==
    LET lock == list.acts[op].lock
    IN /\ lock = "row" => \A c \in call : c.r # r
       /\ lock = "op" => \A c \in call : c.op # op
       /\ lock = "all" => \A c \in call : c.op \notin Ops
       /\ lock = "form" => ~form.sent

Submit(op, r) ==
    /\ op \in DOMAIN list.acts /\ Cardinality(call) < MaxCalls
    /\ IF list.acts[op].form
       THEN form # NoForm /\ form.op = op /\ form.r = r
       ELSE form = NoForm /\ Offered(op, r)
    /\ Unlocked(op, r)
    /\ \E whole \in list.acts[op].whole :
         call' = call \cup
           {[Call(op, r, sel) EXCEPT
               !.own = list.acts[op].form,
               !.was = IF list.acts[op].early THEN rows[r] ELSE @,
               !.got = IF whole THEN [x \in Of(sel) |-> rows[x]] ELSE @]}
    /\ form' = IF form = NoForm THEN NoForm ELSE [form EXCEPT !.sent = TRUE]
    /\ rows' = IF list.acts[op].early
               THEN [rows EXCEPT ![r] = Applied(op, @)] ELSE rows
    /\ UNCHANGED <<list, sel, loaded, truth, inbox, online, ready, stale>>

(* The server does it, and answers. *)
Acted(c, at) ==
    /\ c.op \in Ops /\ c.at = "sent" /\ Fits(c.op, truth[c.r])
    /\ truth' = [truth EXCEPT ![c.r] = Result(c.op)]
    /\ call' = (call \ {c}) \cup {[c EXCEPT !.at = at]}
    /\ Announce(c.op, c.r)
    /\ UNCHANGED <<list, sel, rows, loaded, form, online, ready>>

Serve(c) == /\ Acted(c, "ok")
            /\ stale' = IF list.acts[c.op].then = "wait"
                        THEN stale \cup Unheard(c.op, c.r) ELSE stale

(* The answer is lost on its way back: to the client a failure.            *)
AnswerLost(c) == /\ Acted(c, "failed")
                 /\ stale' = stale \cup Unheard(c.op, c.r)

(* The answer of an operation, which also closes its form, or the one      *)
(* opened since for another row; it may come too late to show.  It changes *)
(* the list, or puts the one of the click in its place, with that row      *)
(* changed: what the list has been told since about others is undone.      *)
AtClick(c) == [r \in Row |-> IF r \in DOMAIN c.got THEN c.got[r] ELSE rows[r]]
Settled(c) == LET s == AtClick(c)[c.r]
                  then == list.acts[c.op].then
              IN CASE then = "add" -> Added(s)
                   [] then = "addnew" -> AddedNew(s)
                   [] then = "replace" -> Replaced(s)
                   [] then = "drop" -> Nothing
                   [] OTHER -> s

Done(c) ==
    /\ c.op \in Ops /\ c.at = "ok"
    /\ rows' = IF c.dead THEN rows ELSE [AtClick(c) EXCEPT ![c.r] = Settled(c)]
    /\ call' = IF list.acts[c.op].then = "refetch" /\ ~c.dead
               THEN AsksAfter(c) ELSE call \ {c}
    /\ form' = IF form.op = c.op /\ ~c.dead THEN NoForm ELSE form
    /\ stale' = stale \cup (IF c.dead \/ Result(c.op) # truth[c.r]
                            THEN {c.r} ELSE {})
                     \cup (IF c.dead THEN {}
                           ELSE {r \in DOMAIN c.got : c.got[r] # rows[r]})
    /\ UNCHANGED <<list, sel, loaded, truth, inbox, online, ready>>

GreyForever(c) == form
Freed(c) == IF c.own THEN [form EXCEPT !.sent = FALSE] ELSE form

(* A failure leaves the form open, to be sent again, and undoes what was   *)
(* done early: also what the server did, if only the answer was lost, and  *)
(* what came later.                                                        *)
Undone(c) ==
    /\ c.op \in Ops /\ c.at = "failed"
    /\ call' = IF list.acts[c.op].heal /\ ~c.dead THEN AsksAfter(c)
                                                  ELSE call \ {c}
    /\ form' = Freed(c)
    /\ IF list.acts[c.op].early /\ ~c.dead
       THEN /\ rows' = [rows EXCEPT ![c.r] = c.was]
            /\ stale' = IF c.was # Seen(truth[c.r])
                        THEN stale \cup {c.r} ELSE stale
       ELSE UNCHANGED <<rows, stale>>
    /\ UNCHANGED <<list, sel, loaded, truth, inbox, online, ready>>

-----------------------------------------------------------------------------
(* Other users, and the events.                                            *)
Other(op, r) ==
    /\ Fits(op, truth[r]) /\ Result(op) # truth[r]
    /\ truth' = [truth EXCEPT ![r] = Result(op)]
    /\ Announce(op, r)
    /\ stale' = stale \cup Unheard(op, r)
    /\ UNCHANGED <<list, sel, rows, loaded, form, call, online, ready>>

(* An event is for the list of its key; READY comes before all events.     *)
Hear ==
    /\ ready = <<>> /\ inbox # <<>> /\ inbox' = Tail(inbox)
    /\ LET e == Head(inbox)
       IN rows' = IF list.map \/ KeyOf[e.r] = sel
                  THEN [rows EXCEPT ![e.r] = Applied(e.op, @)] ELSE rows
    /\ UNCHANGED <<list, sel, loaded, truth, form, call, online, ready, stale>>

Disconnect == /\ list.hears # {} \/ list.resync # "no"
              /\ online # "off" /\ online' = "off"
              /\ inbox' = <<>> /\ stale' = stale \cup {e.r : e \in Range(inbox)}
              /\ ready' = <<>>
              /\ UNCHANGED <<list, sel, rows, loaded, truth, form, call>>

(* What READY brings of what was read for it: a list of all there is, or,  *)
(* where rows are kept for every key, the rows of the keys that have any.  *)
Brought(read) == LET brought == IF list.map
                                THEN {r \in Row : \E x \in Of(KeyOf[r]) :
                                         Seen(read[x]) # Nothing}
                                ELSE Of(sel)
                 IN [r \in brought |-> read[r]]
NoRows == [r \in Row |-> "unborn"]

(* The socket is back: the client asks for its list, or the server builds  *)
(* READY, with an empty list if the query fails ...                        *)
Reconnect ==
    /\ online = "off" /\ online' = "greeted"
    /\ call' = IF list.resync = "fetch" THEN Asks(call) ELSE call
    /\ IF list.resync = "ready"
       THEN \E read \in {truth, NoRows} : ready' = Brought(read)
       ELSE UNCHANGED ready
    /\ UNCHANGED <<list, sel, rows, loaded, truth, form, inbox, stale>>

(* ... and registers the connection for events once READY is sent.         *)
Register == /\ online = "greeted" /\ online' = "on"
            /\ UNCHANGED <<list, sel, rows, loaded, truth, form, call, inbox,
                           ready, stale>>

Ready ==
    /\ ready # <<>> /\ ready' = <<>>
    /\ rows' = [r \in Row |-> IF r \in DOMAIN ready THEN Seen(ready[r])
                              ELSE rows[r]]
    /\ stale' = (stale \ DOMAIN ready) \cup Crossed(ready)
    /\ UNCHANGED <<list, sel, loaded, truth, form, call, inbox, online>>

-----------------------------------------------------------------------------
LNext == \/ \E k \in Key : Select(k)
         \/ \E c \in call : \/ FetchServed(c) \/ CallFails(c) \/ FetchEnds(c)
                            \/ Serve(c) \/ AnswerLost(c) \/ Done(c)
                            \/ Undone(c)
         \/ \E op \in Ops, r \in Row :
              Open(op, r) \/ Submit(op, r) \/ Other(op, r)
         \/ Refresh \/ Close \/ Hear
         \/ Disconnect \/ Reconnect \/ Register \/ Ready

LSpec == LInit /\ [][LNext]_lvars

-----------------------------------------------------------------------------
(* Nothing is under way. *)
AtRest == call = {} /\ inbox = <<>> /\ ready = <<>> /\ sel # None

(* At rest a list shows what the server has, once: own operations leave no *)
(* second copy beside that of their event, failed ones no trace, and what  *)
(* came late nothing that is not there.  Except for rows the client was    *)
(* not told of.                                                            *)
ShowsWhatIs == AtRest /\ ~list.twice =>
                   \A r \in Of(sel) \ stale : rows[r] = Seen(truth[r])

(* Lists that throw late answers away, or sort them by key, show nothing   *)
(* of another key.                                                         *)
NoStrangers == list.guard /\ list.fresh =>
                   \A r \in Row : rows[r].n > 0 => KeyOf[r] = sel

(* A form is greyed out only while the answer of what was sent from it is  *)
(* still to come: closing it, sending again or answers that come late      *)
(* leave no form that can never be sent.                                   *)
NeverStuck == form # NoForm /\ form.sent =>
                  \E c \in call : c.own /\ c.op = form.op /\ c.r = form.r
=============================================================================
