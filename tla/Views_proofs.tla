---------------------------- MODULE Views_proofs ----------------------------
(***************************************************************************)
(* Proofs about the lists of the web client, for every set of lists that   *)
(* Views allows, any keys and rows, and any number of calls and events     *)
(* under way.                                                              *)
(***************************************************************************)
EXTENDS Views, SequenceTheorems, TLAPS

Fields == {"op", "r", "key", "at", "dead", "own", "got", "was"}

(* Calls and forms have their fields; a form is of one of the operations.  *)
LTypes == /\ \A c \in call : DOMAIN c = Fields /\ c.dead \in BOOLEAN
          /\ DOMAIN form = {"op", "r", "sent"}
          /\ form # NoForm => form.op \in Ops

(* NeverStuck alone is not inductive: the answer that is to come must not  *)
(* have been thrown away by the time it comes, which it is only while no   *)
(* form is open.                                                           *)
Waited(c) == /\ c.own /\ ~c.dead /\ c.op \in Ops
             /\ c.op = form.op /\ c.r = form.r
StuckInv == LTypes /\ (form.sent => \E c \in call : Waited(c))

(* Calls that go on keep what they are. *)
Same(d, c) == /\ DOMAIN d = Fields /\ d.op = c.op /\ d.r = c.r
              /\ d.key = c.key

LEMMA AnsweredFields ==
    ASSUME NEW c, DOMAIN c = Fields, NEW v, NEW w, NEW d,
           d = [c EXCEPT !.at = v] \/ d = [c EXCEPT !.at = v, !.got = w]
    PROVE  Same(d, c) /\ d.own = c.own /\ d.dead = c.dead /\ d.was = c.was
BY DEF Same, Fields

LEMMA ClosedFields ==
    ASSUME NEW c, DOMAIN c = Fields, NEW d, d = [c EXCEPT !.own = FALSE]
    PROVE  /\ Same(d, c) /\ d.dead = c.dead /\ d.at = c.at
           /\ d.got = c.got /\ d.was = c.was
BY DEF Same, Fields

LEMMA AbandonedFields ==
    ASSUME NEW c, DOMAIN c = Fields, c.dead \in BOOLEAN,
           NEW d, d = Abandoned(c)
    PROVE  /\ Same(d, c) /\ d.dead \in BOOLEAN /\ d.at = c.at
           /\ d.got = c.got /\ d.was = c.was /\ (list.guard => d.dead)
BY DEF Same, Fields, Abandoned

LEMMA SubmittedFields ==
    ASSUME NEW op, NEW r, NEW k, NEW v, NEW w, NEW d,
           NEW g, d = [Call(op, r, k) EXCEPT !.own = v, !.was = w, !.got = g]
    PROVE  /\ DOMAIN d = Fields /\ d.op = op /\ d.r = r /\ d.key = k
           /\ d.own = v /\ d.dead = FALSE /\ d.at = "sent" /\ d.was = w
           /\ d.got = g
BY DEF Fields, Call

(* The call that an operation makes. *)
Sent(op, r, d) ==
    /\ DOMAIN d = Fields /\ d.op = op /\ d.r = r /\ d.key = sel
    /\ d.own = list.acts[op].form /\ d.dead = FALSE
    /\ d.at = "sent" /\ d.was \in {rows[r], Nothing}
    /\ d.got \in {<<>>, [x \in Of(sel) |-> rows[x]]}

LEMMA SubmittedCall ==
    ASSUME NEW op \in Ops, NEW r \in Row, Submit(op, r)
    PROVE  \E d : call' = call \cup {d} /\ Sent(op, r, d)
<1>1. Call(op, r, sel).was = Nothing /\ Call(op, r, sel).got = <<>>
  BY DEF Call
<1>2. PICK whole \in list.acts[op].whole :
        call' = call \cup
           {[Call(op, r, sel) EXCEPT
               !.own = list.acts[op].form,
               !.was = IF list.acts[op].early THEN rows[r] ELSE @,
               !.got = IF whole THEN [x \in Of(sel) |-> rows[x]] ELSE @]}
  BY Zenon DEF Submit
<1>3. PICK w : w = IF list.acts[op].early THEN rows[r] ELSE Nothing
  OBVIOUS
<1>4. PICK g : g = IF whole THEN [x \in Of(sel) |-> rows[x]] ELSE <<>>
  OBVIOUS
<1>5. PICK d : d = [Call(op, r, sel) EXCEPT
                      !.own = list.acts[op].form, !.was = w, !.got = g]
  OBVIOUS
<1>6. call' = call \cup {d}
  BY <1>1, <1>2, <1>3, <1>4, <1>5, Zenon
<1>7. /\ DOMAIN d = Fields /\ d.op = op /\ d.r = r /\ d.key = sel
      /\ d.own = list.acts[op].form /\ d.dead = FALSE
      /\ d.at = "sent" /\ d.was = w /\ d.got = g
  BY <1>5 DEF Fields, Call
<1>8. Sent(op, r, d)
  BY <1>3, <1>4, <1>7 DEF Sent
<1> QED
  BY <1>6, <1>8

(* The calls made after an operation, beside those there were. *)
LEMMA AskedCalls ==
    ASSUME NEW calls, NEW d \in Asks(calls)
    PROVE  d \in calls \/ (d = Fetch(sel) /\ sel # None)
BY DEF Asks

LEMMA FetchFields ==
    ASSUME NEW k
    PROVE  /\ DOMAIN Fetch(k) = Fields /\ Fetch(k).op = "fetch"
           /\ Fetch(k).key = k /\ Fetch(k).dead = FALSE
           /\ Fetch(k).at = "sent"
BY DEF Fetch, Call, Fields

LEMMA StuckInit == LInit => StuckInv
BY DEF LInit, StuckInv, LTypes, NoForm, Waited, Nothing, Fields

(* A call is answered or fails, and stays. *)
LEMMA StuckAnswered ==
    ASSUME StuckInv, NEW c \in call,
           FetchServed(c) \/ CallFails(c) \/ Serve(c) \/ AnswerLost(c)
    PROVE  StuckInv'
<1>1. PICK d : /\ call' = (call \ {c}) \cup {d}
               /\ DOMAIN d = Fields /\ d.op = c.op /\ d.r = c.r
               /\ d.own = c.own /\ d.dead = c.dead
  <2>1. DOMAIN c = Fields
    BY DEF StuckInv, LTypes
  <2>2. PICK d, v, w : /\ call' = (call \ {c}) \cup {d}
                       /\ \/ d = [c EXCEPT !.at = v]
                          \/ d = [c EXCEPT !.at = v, !.got = w]
    BY Zenon DEF FetchServed, CallFails, Serve, AnswerLost, Acted
  <2> QED
    <3>1. Same(d, c) /\ d.own = c.own /\ d.dead = c.dead
      BY <2>1, <2>2, AnsweredFields, Zenon DEF Fields
    <3> QED
      BY <2>2, <3>1 DEF Same
<1>2. UNCHANGED form
  BY DEF FetchServed, CallFails, Serve, AnswerLost, Acted
<1>3. LTypes'
  BY <1>1, <1>2 DEF StuckInv, LTypes
<1>4. form.sent => \E w \in call' : Waited(w)'
  <2> SUFFICES ASSUME form.sent PROVE \E w \in call' : Waited(w)'
    OBVIOUS
  <2>1. PICK w \in call : Waited(w)
    BY DEF StuckInv
  <2>2. CASE w = c
    BY <1>1, <1>2, <2>1, <2>2 DEF Waited
  <2>3. CASE w # c
    BY <1>1, <1>2, <2>1, <2>3 DEF Waited
  <2> QED
    BY <2>2, <2>3
<1> QED
  BY <1>2, <1>3, <1>4 DEF StuckInv

(* A call that ends is not the one waited for, or closes or frees the form. *)
LEMMA StuckEnded ==
    ASSUME StuckInv, NEW c \in call,
           FetchEnds(c) \/ Done(c) \/ Undone(c)
    PROVE  StuckInv'
<1>1. /\ call \ {c} \subseteq call'
      /\ \A d \in call' \ call : DOMAIN d = Fields /\ d.dead \in BOOLEAN
  <2>1. \/ call' = call \ {c}
        \/ call' = (call \ {c}) \cup {Fetch(c.key)}
        \/ call' = (call \ {c}) \cup {Fetch(sel)}
    BY DEF FetchEnds, Done, Undone, AsksAfter, Asks
  <2> QED
    BY <2>1, FetchFields, ZenonT(30)
<1>2. \/ UNCHANGED form /\ (c.op = "fetch" \/ c.dead \/ c.op # form.op)
      \/ form' = NoForm
      \/ UNCHANGED form /\ ~c.own
      \/ form' = [form EXCEPT !.sent = FALSE]
  BY DEF FetchEnds, Done, Undone, Freed
<1>3. LTypes'
  BY <1>1, <1>2 DEF StuckInv, LTypes, NoForm
<1>4. form'.sent => \E w \in call' : Waited(w)'
  <2> SUFFICES ASSUME form'.sent PROVE \E w \in call' : Waited(w)'
    OBVIOUS
  <2>1. /\ UNCHANGED form
        /\ c.op = "fetch" \/ c.dead \/ c.op # form.op \/ ~c.own
    BY <1>2 DEF NoForm, StuckInv, LTypes
  <2>2. PICK w \in call : Waited(w)
    BY <2>1 DEF StuckInv
  <2>3. w # c
    BY <2>1, <2>2 DEF Waited, Ops
  <2> QED
    BY <1>1, <2>1, <2>2, <2>3 DEF Waited
<1> QED
  BY <1>3, <1>4 DEF StuckInv

LEMMA StuckSubmitted ==
    ASSUME StuckInv, NEW op \in Ops, NEW r \in Row, Submit(op, r)
    PROVE  StuckInv'
<1>0. PICK d : call' = call \cup {d} /\ Sent(op, r, d)
  BY SubmittedCall
<1>1. /\ call' = call \cup {d}
      /\ DOMAIN d = Fields /\ d.op = op /\ d.r = r
      /\ d.own = list.acts[op].form /\ d.dead = FALSE
  BY <1>0 DEF Sent
<1>2. CASE ~list.acts[op].form
  <2>1. form = NoForm /\ form' = NoForm
    BY <1>2 DEF Submit
  <2> QED
    BY <1>1, <2>1 DEF StuckInv, LTypes, NoForm
<1>3. CASE list.acts[op].form
  <2>1. /\ form # NoForm /\ form.op = op /\ form.r = r
        /\ form' = [form EXCEPT !.sent = TRUE]
    BY <1>3 DEF Submit
  <2>2. LTypes'
    BY <1>1, <2>1 DEF StuckInv, LTypes
  <2>3. form'.op = op /\ form'.r = r
    BY <2>1 DEF StuckInv, LTypes
  <2>4. Waited(d)'
    BY <1>1, <1>3, <2>3 DEF Waited
  <2> QED
    BY <1>1, <2>2, <2>4 DEF StuckInv
<1> QED
  BY <1>2, <1>3

(* Calls are given up while no form is open; a closed form waits for none. *)
LEMMA StuckPanel ==
    ASSUME StuckInv,
           \/ \E k \in Key : Select(k)
           \/ \E op \in Ops, r \in Row : Open(op, r)
           \/ Close
    PROVE  StuckInv'
<1>1. CASE \E k \in Key : Select(k)
  <2>1. form = NoForm /\ form' = NoForm
    BY <1>1 DEF Select
  <2>2. \A d \in call' : DOMAIN d = Fields /\ d.dead \in BOOLEAN
    <3>1. \A d \in call' : \/ \E c \in call : d = Abandoned(c)
                           \/ \E k \in Key : d = Fetch(k)
      BY <1>1 DEF Select, Fetches
    <3>2. \A c \in call : /\ DOMAIN Abandoned(c) = Fields
                          /\ Abandoned(c).dead \in BOOLEAN
      BY AbandonedFields DEF StuckInv, LTypes, Same
    <3>3. \A k \in Key : DOMAIN Fetch(k) = Fields /\ Fetch(k).dead = FALSE
      BY FetchFields
    <3> QED
      BY <3>1, <3>2, <3>3
  <2> QED
    BY <2>1, <2>2 DEF StuckInv, LTypes, NoForm
<1>2. CASE \E op \in Ops, r \in Row : Open(op, r)
  BY <1>2 DEF Open, StuckInv, LTypes
<1>3. CASE Close
  <2>1. \A d \in call' : DOMAIN d = Fields /\ d.dead \in BOOLEAN
    <3>1. \A d \in call' : \E c \in call : d = [c EXCEPT !.own = FALSE]
      BY <1>3 DEF Close
    <3> QED
      BY <3>1, ClosedFields DEF StuckInv, LTypes, Same
  <2> QED
    BY <1>3, <2>1 DEF Close, StuckInv, LTypes, NoForm
<1> QED
  BY <1>1, <1>2, <1>3

LEMMA StuckOther ==
    ASSUME StuckInv,
           \/ \E op \in Ops, r \in Row : Other(op, r)
           \/ Refresh \/ Hear \/ Disconnect \/ Reconnect \/ Register \/ Ready
           \/ UNCHANGED lvars
    PROVE  StuckInv'
<1>1. UNCHANGED form /\ call \subseteq call'
  BY DEF Other, Refresh, Hear, Disconnect, Reconnect, Register, Ready, Asks, lvars
<1>2. \A d \in call' : DOMAIN d = Fields /\ d.dead \in BOOLEAN
  <2>1. call' = call \/ call' = Asks(call)
    BY DEF Other, Refresh, Hear, Disconnect, Reconnect, Register, Ready, lvars
  <2> QED
    <3>1. \A d \in call : DOMAIN d = Fields /\ d.dead \in BOOLEAN
      BY DEF StuckInv, LTypes
    <3>2. \A d \in call' : d \in call \/ d = Fetch(sel)
      BY <2>1, AskedCalls
    <3>3. DOMAIN Fetch(sel) = Fields /\ Fetch(sel).dead = FALSE
      BY FetchFields
    <3> QED
      BY <3>1, <3>2, <3>3
<1> QED
  BY <1>1, <1>2 DEF StuckInv, LTypes, Waited

LEMMA StuckStep == StuckInv /\ [LNext]_lvars => StuckInv'
<1> SUFFICES ASSUME StuckInv, [LNext]_lvars PROVE StuckInv'
  OBVIOUS
<1> QED
  BY StuckAnswered, StuckEnded, StuckSubmitted, StuckPanel, StuckOther
     DEF LNext

(* Whatever is closed, sent again or late, no form of the client stays     *)
(* greyed out without an answer to come.                                   *)
THEOREM FormsComeBack == LSpec => []NeverStuck
<1>1. StuckInv => NeverStuck
  BY DEF StuckInv, NeverStuck, Waited
<1> QED
  BY <1>1, StuckInit, StuckStep, PTL DEF LSpec

-----------------------------------------------------------------------------
(* NoStrangers alone is not inductive: the calls under way must be for the *)
(* key that is selected, or dead, and so must the open form.               *)
Guarded == list.guard /\ list.fresh
Sorted(c) == ~c.dead =>
                 /\ c.op \in Ops => /\ KeyOf[c.r] = sel
                                    /\ DOMAIN c.got \subseteq Of(sel)
                 /\ c.op = "fetch" => /\ c.key = sel
                                      /\ c.at = "ok" => DOMAIN c.got = Of(sel)
Tidy == /\ ~list.map /\ DOMAIN rows = Row
        /\ list.resync # "ready" /\ ready = <<>>
        /\ form # NoForm => KeyOf[form.r] = sel
        /\ \A c \in call : Sorted(c)
        /\ \A r \in Row : rows[r].n > 0 => KeyOf[r] = sel
StrangerInv == Guarded => Tidy

LEMMA StrangerInit == LInit => StrangerInv
<1> SUFFICES ASSUME LInit, Guarded PROVE Tidy
  BY DEF StrangerInv
<1>1. PICK s \in Studied : list = Shape(s)
  BY DEF LInit
<1>2. {"guard", "map", "resync"} \subseteq DOMAIN s
  BY ViewsAssumption DEF List
<1>3. list.guard = s.guard /\ list.map = s.map /\ list.resync = s.resync
  BY <1>1, <1>2 DEF Shape
<1>4. ~list.map /\ list.resync # "ready"
  BY <1>3, ViewsAssumption DEF Guarded
<1>5. \A r \in Row : rows[r] = Nothing /\ ~(Nothing.n > 0)
  BY DEF LInit, Nothing
<1> QED
  BY <1>4, <1>5 DEF LInit, Tidy

(* What an answered operation leaves is still sorted. *)
LEMMA SortedFetch == Sorted(Fetch(sel))
  BY FetchFields DEF Sorted, Ops

LEMMA TidySelect ==
    ASSUME LTypes, Guarded, Tidy, NEW k \in Key, Select(k)
    PROVE  Tidy'
<1>1. /\ form' = NoForm /\ list' = list /\ sel' = k /\ ready' = ready
      /\ rows' = [r \in Row |-> Nothing]
  BY DEF Select, Guarded
<1>2. \A r \in Row : rows'[r] = Nothing /\ ~(Nothing.n > 0)
  BY <1>1 DEF Nothing
<1>3. ASSUME NEW d \in call' PROVE Sorted(d)'
  <2>1. CASE \E c \in call : d = Abandoned(c)
    <3>1. d.dead
      BY <2>1, AbandonedFields DEF LTypes, Guarded
    <3> QED
      BY <3>1 DEF Sorted
  <2>2. CASE d = Fetch(k)
    BY <1>1, <2>2, FetchFields DEF Sorted, Ops
  <2> QED
    BY <2>1, <2>2 DEF Select, Fetches
<1> QED
  BY <1>1, <1>2, <1>3 DEF Tidy

LEMMA TidyAnswered ==
    ASSUME LTypes, Guarded, Tidy, NEW c \in call,
           FetchServed(c) \/ CallFails(c) \/ Serve(c) \/ AnswerLost(c)
    PROVE  Tidy'
<1>1. UNCHANGED <<list, sel, rows, form, ready>>
  BY DEF FetchServed, CallFails, Serve, AnswerLost, Acted
<1>2. PICK d : /\ call' = (call \ {c}) \cup {d}
               /\ Same(d, c) /\ d.dead = c.dead
               /\ d.op = "fetch" /\ d.at = "ok" => DOMAIN d.got = Of(c.key)
               /\ c.op \in Ops => d.got = c.got
  <2>0. DOMAIN c = Fields
    BY DEF LTypes
  <2>1. CASE FetchServed(c)
    <3> DEFINE g == [r \in Of(c.key) |-> truth[r]]
               d == [c EXCEPT !.at = "ok", !.got = g]
    <3>1. call' = (call \ {c}) \cup {d} /\ c.op \notin Ops
      BY <2>1 DEF FetchServed, Ops
    <3>2. d.got = g /\ DOMAIN g = Of(c.key)
      BY <2>0 DEF Fields
    <3>3. Same(d, c) /\ d.dead = c.dead
      BY <2>0 DEF Fields, Same
    <3> QED
      BY <3>1, <3>2, <3>3
  <2>2. CASE CallFails(c)
    <3> DEFINE d == [c EXCEPT !.at = "failed"]
    <3>1. call' = (call \ {c}) \cup {d}
      BY <2>2 DEF CallFails
    <3>2. /\ Same(d, c) /\ d.dead = c.dead /\ d.at = "failed"
          /\ d.got = c.got
      BY <2>0 DEF Fields, Same
    <3> QED
      BY <3>1, <3>2
  <2>3. ASSUME NEW at, Acted(c, at)
        PROVE  \E d : /\ call' = (call \ {c}) \cup {d}
                      /\ Same(d, c) /\ d.dead = c.dead /\ d.got = c.got
                      /\ c.op # "fetch"
    <3> DEFINE d == [c EXCEPT !.at = at]
    <3>1. call' = (call \ {c}) \cup {d} /\ c.op # "fetch"
      BY <2>3 DEF Acted, Ops
    <3>2. Same(d, c) /\ d.dead = c.dead /\ d.got = c.got
      BY <2>0 DEF Fields, Same
    <3> QED
      BY <3>1, <3>2
  <2>4. CASE Serve(c) \/ AnswerLost(c)
    <3>1. \E at : Acted(c, at)
      BY <2>4 DEF Serve, AnswerLost
    <3> QED
      BY <2>3, <3>1 DEF Same
  <2> QED
    BY <2>1, <2>2, <2>4
<1>3. Sorted(d)'
  <2>1. Sorted(c)
    BY DEF Tidy
  <2> QED
    BY <1>1, <1>2, <2>1 DEF Sorted, Same, Of
<1>4. \A e \in call' : Sorted(e)'
  BY <1>1, <1>2, <1>3 DEF Tidy, Sorted, Of
<1> QED
  BY <1>1, <1>4 DEF Tidy

LEMMA FreedNoForm == [NoForm EXCEPT !.sent = FALSE] = NoForm
<1>1. NoForm \in [op : {None}, r : {None}, sent : BOOLEAN]
  BY DEF NoForm
<1>2. NoForm = [NoForm EXCEPT !.sent = NoForm.sent]
  BY <1>1
<1>3. NoForm.sent = FALSE
  BY DEF NoForm
<1> QED
  BY <1>2, <1>3

LEMMA TidyEnded ==
    ASSUME LTypes, Guarded, Tidy, NEW c \in call,
           FetchEnds(c) \/ Done(c) \/ Undone(c)
    PROVE  Tidy'
<1>1. UNCHANGED <<list, sel, ready>>
  BY DEF FetchEnds, Done, Undone
<1>2. \A d \in call' : Sorted(d)'
  <2>1. \A d \in call' : d \in call \/ d = Fetch(sel)
    BY DEF FetchEnds, Done, Undone, AsksAfter, Asks, Tidy
  <2> QED
    BY <1>1, <2>1, SortedFetch DEF Tidy, Sorted, Of
<1>3. form' # NoForm => KeyOf[form'.r] = sel
  <2>1. \/ form' = form \/ form' = NoForm
        \/ form' = [form EXCEPT !.sent = FALSE]
    BY DEF FetchEnds, Done, Undone, Freed
  <2>2. CASE form' = form \/ form' = NoForm
    BY <2>2 DEF Tidy
  <2>3. CASE form' = [form EXCEPT !.sent = FALSE]
    <3>1. form'.r = form.r
      BY <2>3 DEF LTypes
    <3>2. form' # NoForm => form # NoForm
      BY <2>3, FreedNoForm
    <3> QED
      BY <3>1, <3>2 DEF Tidy
  <2> QED
    BY <2>1, <2>2, <2>3
<1>4. DOMAIN rows' = Row /\ \A r \in Row : rows'[r].n > 0 => KeyOf[r] = sel
  <2>1. CASE UNCHANGED rows
    BY <2>1 DEF Tidy
  <2>2. CASE FetchEnds(c) /\ ~c.dead /\ c.at = "ok" /\ rows' = Filled(c)
    <3>1. DOMAIN c.got = Of(sel)
      BY <2>2 DEF FetchEnds, Tidy, Sorted
    <3>2. DOMAIN rows' = Row
      BY <2>2 DEF Filled
    <3>3. \A r \in Row : rows'[r] = Nothing \/ KeyOf[r] = sel
      BY <2>2, <3>1 DEF Filled, Tidy, Of
    <3>4. ~(Nothing.n > 0)
      BY DEF Nothing
    <3> QED
      BY <3>2, <3>3, <3>4
  <2>3. CASE /\ c.op \in Ops /\ ~c.dead
             /\ DOMAIN rows' = Row
             /\ \A r \in Row \ {c.r} :
                  r \in DOMAIN c.got \/ rows'[r] = rows[r]
    <3>1. KeyOf[c.r] = sel /\ \A r \in DOMAIN c.got : KeyOf[r] = sel
      BY <2>3 DEF Tidy, Sorted, Of
    <3> QED
      BY <2>3, <3>1 DEF Tidy
  <2>4. ASSUME FetchEnds(c), rows' # rows
        PROVE  ~c.dead /\ c.at = "ok" /\ rows' = Filled(c)
    BY <2>4 DEF FetchEnds
  <2>5. ASSUME Done(c) \/ Undone(c), rows' # rows
        PROVE  /\ c.op \in Ops /\ ~c.dead
               /\ DOMAIN rows' = Row
               /\ \A r \in Row \ {c.r} :
                    r \in DOMAIN c.got \/ rows'[r] = rows[r]
    <3>1. DOMAIN rows = Row
      BY DEF Tidy
    <3>2. CASE Done(c)
      <4>1. ~c.dead /\ c.op \in Ops
            /\ rows' = [AtClick(c) EXCEPT ![c.r] = Settled(c)]
        BY <2>5, <3>2 DEF Done
      <4> QED
        BY <4>1 DEF AtClick
    <3>3. CASE Undone(c)
      BY <2>5, <3>1, <3>3 DEF Undone
    <3> QED
      BY <2>5, <3>2, <3>3
  <2> QED
    BY <2>1, <2>2, <2>3, <2>4, <2>5
<1> QED
  BY <1>1, <1>2, <1>3, <1>4 DEF Tidy

LEMMA TidyForm ==
    ASSUME LTypes, Guarded, Tidy,
           (\E op \in Ops, r \in Row : Open(op, r)) \/ Close
    PROVE  Tidy'
<1>1. UNCHANGED <<list, sel, rows, ready>>
  BY DEF Open, Close
<1>2. CASE \E op \in Ops, r \in Row : Open(op, r)
  <2>1. KeyOf[form'.r] = sel /\ call' = call
    BY <1>2 DEF Open, Offered
  <2> QED
    BY <1>1, <2>1 DEF Tidy, Sorted, Of
<1>3. CASE Close
  <2>1. form' = NoForm
    BY <1>3 DEF Close
  <2>2. ASSUME NEW d \in call' PROVE Sorted(d)'
    <3>1. PICK c \in call : d = [c EXCEPT !.own = FALSE]
      BY <1>3 DEF Close
    <3>2. /\ Same(d, c) /\ d.dead = c.dead /\ d.at = c.at
          /\ d.got = c.got
      BY <3>1, ClosedFields DEF LTypes
    <3>3. Sorted(c)
      BY DEF Tidy
    <3> QED
      BY <1>1, <3>2, <3>3 DEF Sorted, Same, Of
  <2> QED
    BY <1>1, <2>1, <2>2 DEF Tidy
<1> QED
  BY <1>2, <1>3

LEMMA TidySubmitted ==
    ASSUME LTypes, Guarded, Tidy, NEW op \in Ops, NEW r \in Row, Submit(op, r)
    PROVE  Tidy'
<1>1. UNCHANGED <<list, sel, ready>>
  BY DEF Submit
<1>2. KeyOf[r] = sel
  BY DEF Submit, Offered, Tidy
<1>3. \A d \in call' : Sorted(d)'
  <2>0. PICK d : call' = call \cup {d} /\ Sent(op, r, d)
    BY SubmittedCall
  <2>1. /\ call' = call \cup {d} /\ d.op = op /\ d.r = r
        /\ d.got \in {<<>>, [x \in Of(sel) |-> rows[x]]}
    BY <2>0 DEF Sent
  <2>2. DOMAIN d.got \subseteq Of(sel)
    <3>1. DOMAIN <<>> = {}
      OBVIOUS
    <3> QED
      BY <2>1, <3>1
  <2>3. Sorted(d)'
    BY <1>1, <1>2, <2>1, <2>2 DEF Sorted, Ops, Of
  <2> QED
    BY <1>1, <2>1, <2>3 DEF Tidy, Sorted, Of
<1>4. form' # NoForm => KeyOf[form'.r] = sel
  <2>1. form' \in {NoForm, [form EXCEPT !.sent = TRUE]}
    BY DEF Submit
  <2>2. form' # NoForm => form # NoForm
    BY DEF Submit
  <2>3. [form EXCEPT !.sent = TRUE].r = form.r
    BY DEF LTypes
  <2> QED
    BY <2>1, <2>2, <2>3 DEF Tidy
<1>5. DOMAIN rows' = Row /\ \A x \in Row : rows'[x].n > 0 => KeyOf[x] = sel
  <2>1. \/ rows' = rows
        \/ \E s : rows' = [rows EXCEPT ![r] = s]
    BY DEF Submit
  <2> QED
    BY <1>2, <2>1 DEF Tidy
<1> QED
  BY <1>1, <1>3, <1>4, <1>5 DEF Tidy

LEMMA TidyOther ==
    ASSUME LTypes, Guarded, Tidy,
           \/ \E op \in Ops, r \in Row : Other(op, r)
           \/ Refresh \/ Hear \/ Disconnect \/ Reconnect \/ Register \/ Ready
           \/ UNCHANGED lvars
    PROVE  Tidy'
<1>1. UNCHANGED <<list, sel, form>>
  BY DEF Other, Refresh, Hear, Disconnect, Reconnect, Register, Ready, lvars
<1>4. ready' = <<>>
  BY DEF Other, Refresh, Hear, Disconnect, Reconnect, Register, Ready, lvars, Tidy
<1>2. \A d \in call' : Sorted(d)'
  <2>1. call' = call \/ call' = Asks(call)
    BY DEF Other, Refresh, Hear, Disconnect, Reconnect, Register, Ready, lvars
  <2>2. \A d \in call' : d \in call \/ d = Fetch(sel)
    BY <2>1, AskedCalls
  <2> QED
    BY <1>1, <2>2, SortedFetch DEF Tidy, Sorted, Of
<1>3. DOMAIN rows' = Row /\ \A r \in Row : rows'[r].n > 0 => KeyOf[r] = sel
  <2>1. \/ rows' = rows
        \/ \E q, s : KeyOf[q] = sel /\ rows' = [rows EXCEPT ![q] = s]
    BY DEF Other, Refresh, Hear, Disconnect, Reconnect, Register, Ready, lvars,
           Tidy
  <2> QED
    BY <2>1 DEF Tidy
<1> QED
  BY <1>1, <1>2, <1>3, <1>4 DEF Tidy

LEMMA StrangerStep ==
    LTypes /\ StrangerInv /\ [LNext]_lvars => StrangerInv'
<1> SUFFICES ASSUME LTypes, StrangerInv, [LNext]_lvars, Guarded' PROVE Tidy'
  BY DEF StrangerInv
<1>1. list' = list
  BY DEF LNext, lvars, Select, FetchServed, CallFails, FetchEnds, Serve, AnswerLost, Acted,
         Done, Undone, Open, Submit, Other, Refresh, Close, Hear,
         Disconnect, Reconnect, Register, Ready
<1>2. Guarded /\ Tidy
  BY <1>1 DEF Guarded, StrangerInv
<1> QED
  BY <1>2, TidySelect, TidyAnswered, TidyEnded, TidyForm, TidySubmitted,
     TidyOther DEF LNext

(* A list that gives up late answers when another key is selected, and     *)
(* clears its rows then, shows rows of the selected key only: however slow *)
(* the answers and whatever is done meanwhile.                             *)
THEOREM NothingOfAnotherKey == LSpec => []NoStrangers
<1>1. StuckInv => LTypes
  BY DEF StuckInv
<1>2. StrangerInv => NoStrangers
  BY DEF StrangerInv, NoStrangers, Guarded, Tidy
<1> QED
  BY <1>1, <1>2, StuckInit, StuckStep, StrangerInit, StrangerStep, PTL
     DEF LSpec
-----------------------------------------------------------------------------
(* ShowsWhatIs speaks of a list at rest.  What makes it come true is what  *)
(* is under way: for each row, which answers and events will bring it to   *)
(* what the server has.                                                    *)
Versions == {"unborn", "old", "new", "gone"}
Shown(v) == [n |-> 1, v |-> v]
Events == [op : Ops, r : Row]

(* A row that an operation was done to is at least as far as that.         *)
Reached(op, t) == CASE op = "create" -> t \in {"old", "new", "gone"}
                    [] op = "update" -> t \in {"new", "gone"}
                    [] op = "delete" -> t = "gone"
Born(s, r) == s.n > 0 => truth[r] # "unborn"

CallOK(c) ==
    /\ DOMAIN c = Fields /\ c.dead \in BOOLEAN
    /\ c.op \in Ops \cup {"fetch"} /\ c.at \in {"sent", "ok", "failed"}
    /\ c.op \in Ops =>
         /\ c.op \in DOMAIN list.acts /\ c.r \in Row /\ c.key = KeyOf[c.r]
         /\ Born(c.was, c.r)
         /\ \A r \in DOMAIN c.got : r \in Row /\ Born(c.got[r], r)
         /\ c.op = "update" => truth[c.r] # "unborn"
         /\ c.at = "ok" => Reached(c.op, truth[c.r])
    /\ c.op = "fetch" /\ c.at = "ok" =>
         /\ DOMAIN c.got = Of(c.key)
         /\ \A r \in Of(c.key) : Born(Seen(c.got[r]), r)
Created(c, r) == c.op = "create" /\ c.r = r /\ c.at = "ok"

InboxOK == /\ inbox \in Seq(Events) /\ (inbox # <<>> => online = "on")
           /\ \A i \in DOMAIN inbox : /\ inbox[i].op \in list.hears
                                      /\ Reached(inbox[i].op, truth[inbox[i].r])
FormOK == form # NoForm => /\ form.r \in Row /\ KeyOf[form.r] = sel
                           /\ form.op = "update" => truth[form.r] # "unborn"
RowsOK == /\ truth \in [Row -> Versions] /\ DOMAIN rows = Row
          /\ \A r \in Row : Born(rows[r], r)
CallsOK == /\ \A c \in call : CallOK(c)
           /\ \A r \in Row : \A c, d \in call :
                Created(c, r) /\ Created(d, r) => c = d
ReadyOK == \A r \in DOMAIN ready : r \in Row /\ Born(Seen(ready[r]), r)
Ground == /\ ~list.twice /\ Consistent(list) /\ ~(list.guard /\ list.map)
          /\ RowsOK /\ CallsOK /\ InboxOK /\ FormOK /\ ReadyOK

(* What is under way for a row.                                            *)
Has(C, op, r, at) == \E c \in C : c.op = op /\ c.r = r /\ c.at = at
Says(s, op, r) == \E i \in DOMAIN s : s[i].op = op /\ s[i].r = r
SaysThen(s, a, b, r) ==
    \E i, j \in DOMAIN s : /\ i < j /\ s[i].op = a /\ s[i].r = r
                           /\ s[j].op = b /\ s[j].r = r
Ends(s, r) ==
    \A i \in DOMAIN s : s[i].op = "create" /\ s[i].r = r =>
        \E j \in DOMAIN s : i < j /\ s[j].op = "delete" /\ s[j].r = r
Due(op, r, then) == Has(call, op, r, "ok") /\ list.acts[op].then = then
Tried(r) == /\ Has(call, "update", r, "sent") \/ Has(call, "update", r, "failed")
            /\ list.acts["update"].early
Changing(r) == \/ form # NoForm /\ form.op = "update" /\ form.r = r
               \/ \E c \in call : c.op = "update" /\ c.r = r

(* A row is claimed to come right if it is shown, or will be without a new *)
(* fetch; the client is told of its changes; and nothing will replace it:  *)
(* neither a fetch nor an answer that is superseded or asks for one.       *)
Concerned(r) == \/ KeyOf[r] = sel /\ sel # None
                \/ list.cached /\ KeyOf[r] \in loaded
Awaited(r) == \E c \in call : c.op = "fetch" /\ c.key = KeyOf[r] /\ ~c.dead
Doomed(r) == \E op \in Ops : /\ Has(call, op, r, "ok")
                             /\ \/ Result(op) # truth[r]
                                \/ list.acts[op].then = "refetch"
Claimed(r) == Concerned(r) /\ r \notin stale /\ ~Awaited(r) /\ ~Doomed(r)

OldComes(r) == \/ rows[r] = Shown("old")
               \/ rows[r] = Shown("new") /\ Tried(r)
               \/ /\ rows[r] = Nothing
                  /\ \/ Says(inbox, "create", r)
                     \/ Due("create", r, "add") \/ Due("create", r, "addnew")
NewComes(r) == \/ rows[r] = Shown("new")
               \/ /\ rows[r] = Shown("old")
                  /\ Says(inbox, "update", r) \/ Due("update", r, "replace")
               \/ rows[r] = Nothing /\ SaysThen(inbox, "create", "update", r)
Goes(r) == /\ \/ rows[r] = Nothing
              \/ /\ rows[r] \in {Shown("old"), Shown("new")}
                 /\ Says(inbox, "delete", r) \/ Due("delete", r, "drop")
           /\ Ends(inbox, r)
Good(r) == /\ truth[r] = "unborn" => rows[r] = Nothing
           /\ truth[r] = "old" => OldComes(r)
           /\ truth[r] = "new" => NewComes(r)
           /\ truth[r] = "gone" => Goes(r)
           /\ Due("create", r, "add") => rows[r] = Nothing
           /\ Changing(r) => rows[r] # Nothing \/ truth[r] = "gone"
           /\ \A c \in call : c.op \in Ops /\ c.r = r => ~c.dead
AllGood == \A r \in Row : Claimed(r) => Good(r)
ShowInv == ~list.twice => Ground /\ AllGood

(* Sequences of events: one more, one less.                                *)
LEMMA Longer ==
    ASSUME NEW s \in Seq(Events), NEW e \in Events
    PROVE  /\ Append(s, e) \in Seq(Events)
           /\ \A i \in DOMAIN s : /\ i \in DOMAIN Append(s, e) /\ Append(s, e)[i] = s[i]
                                  /\ i \in Nat /\ i < Len(s) + 1
           /\ Len(s) + 1 \in DOMAIN Append(s, e) /\ Append(s, e)[Len(s) + 1] = e
           /\ \A i \in DOMAIN Append(s, e) : i \in DOMAIN s \/ i = Len(s) + 1
  OBVIOUS

LEMMA Shorter ==
    ASSUME NEW s \in Seq(Events), s # <<>>
    PROVE  /\ Tail(s) \in Seq(Events) /\ Head(s) = s[1] /\ 1 \in DOMAIN s
           /\ \A i \in DOMAIN Tail(s) : /\ i \in Nat /\ i + 1 \in DOMAIN s
                                        /\ Tail(s)[i] = s[i + 1]
           /\ \A i \in DOMAIN s : i \in Nat /\ i > 0
           /\ \A i \in DOMAIN s : i # 1 =>
                i - 1 \in DOMAIN Tail(s) /\ Tail(s)[i - 1] = s[i]
  OBVIOUS

LEMMA SaysMore ==
    ASSUME NEW s \in Seq(Events), NEW e \in Events, NEW t, t = Append(s, e), NEW r
    PROVE  /\ \A op : Says(s, op, r) => Says(t, op, r)
           /\ \A a, b : SaysThen(s, a, b, r) => SaysThen(t, a, b, r)
           /\ e.r = r => /\ Says(t, e.op, r)
                         /\ \A a : Says(s, a, r) => SaysThen(t, a, e.op, r)
                         /\ e.op = "delete" => Ends(t, r)
           /\ e.r # r => (Ends(s, r) => Ends(t, r))
<1>1. /\ \A i \in DOMAIN s : /\ i \in DOMAIN t /\ t[i] = s[i]
                             /\ i \in Nat /\ i < Len(s) + 1
      /\ Len(s) + 1 \in DOMAIN t /\ t[Len(s) + 1] = e
      /\ \A i \in DOMAIN t : i \in DOMAIN s \/ i = Len(s) + 1
  BY Longer
<1>2. \A op : Says(s, op, r) => Says(t, op, r)
  BY <1>1 DEF Says
<1>3. \A a, b : SaysThen(s, a, b, r) => SaysThen(t, a, b, r)
  BY <1>1 DEF SaysThen
<1>4. ASSUME e.r = r
      PROVE  /\ Says(t, e.op, r)
             /\ \A a : Says(s, a, r) => SaysThen(t, a, e.op, r)
  BY <1>1, <1>4 DEF Says, SaysThen
<1>5. ASSUME e.r = r, e.op = "delete" PROVE Ends(t, r)
  <2> SUFFICES ASSUME NEW i \in DOMAIN t, t[i].op = "create"
               PROVE  \E j \in DOMAIN t : i < j /\ t[j].op = "delete" /\ t[j].r = r
    BY DEF Ends
  <2>1. i \in DOMAIN s
    BY <1>1, <1>5
  <2> QED
    BY <1>1, <1>5, <2>1
<1>6. ASSUME e.r # r, Ends(s, r) PROVE Ends(t, r)
  <2> SUFFICES ASSUME NEW i \in DOMAIN t, t[i].op = "create", t[i].r = r
               PROVE  \E j \in DOMAIN t : i < j /\ t[j].op = "delete" /\ t[j].r = r
    BY DEF Ends
  <2>1. i \in DOMAIN s /\ s[i].op = "create" /\ s[i].r = r
    BY <1>1, <1>6
  <2>2. PICK j \in DOMAIN s : i < j /\ s[j].op = "delete" /\ s[j].r = r
    BY <1>6, <2>1 DEF Ends
  <2> QED
    BY <1>1, <2>2
<1> QED
  BY <1>2, <1>3, <1>4, <1>5, <1>6

LEMMA SaysLess ==
    ASSUME NEW s \in Seq(Events), s # <<>>, NEW t, t = Tail(s), NEW r
    PROVE  /\ \A op : Says(s, op, r) =>
                Says(t, op, r) \/ (Head(s).op = op /\ Head(s).r = r)
           /\ \A a, b : SaysThen(s, a, b, r) =>
                /\ Says(t, b, r)
                /\ SaysThen(t, a, b, r) \/ (Head(s).op = a /\ Head(s).r = r)
           /\ Ends(s, r) => /\ Ends(t, r)
                            /\ Head(s).op = "create" /\ Head(s).r = r =>
                                 Says(t, "delete", r)
           /\ Says(s, Head(s).op, Head(s).r)
<1>1. /\ Head(s) = s[1] /\ 1 \in DOMAIN s
      /\ \A i \in DOMAIN t : i \in Nat /\ i + 1 \in DOMAIN s /\ t[i] = s[i + 1]
      /\ \A i \in DOMAIN s : i \in Nat /\ i > 0
      /\ \A i \in DOMAIN s : i # 1 => i - 1 \in DOMAIN t /\ t[i - 1] = s[i]
  BY Shorter
<1>2. ASSUME NEW op, Says(s, op, r)
      PROVE  Says(t, op, r) \/ (Head(s).op = op /\ Head(s).r = r)
  <2>1. PICK i \in DOMAIN s : s[i].op = op /\ s[i].r = r
    BY <1>2 DEF Says
  <2>2. CASE i = 1
    BY <1>1, <2>1, <2>2
  <2>3. CASE i # 1
    <3>1. i - 1 \in DOMAIN t /\ t[i - 1] = s[i]
      BY <1>1, <2>3
    <3> QED
      BY <2>1, <3>1 DEF Says
  <2> QED
    BY <2>2, <2>3
<1>3. ASSUME NEW a, NEW b, SaysThen(s, a, b, r)
      PROVE  /\ Says(t, b, r)
             /\ SaysThen(t, a, b, r) \/ (Head(s).op = a /\ Head(s).r = r)
  <2>1. PICK i, j \in DOMAIN s : /\ i < j /\ s[i].op = a /\ s[i].r = r
                                 /\ s[j].op = b /\ s[j].r = r
    BY <1>3 DEF SaysThen
  <2>2. j # 1 /\ j - 1 \in DOMAIN t /\ t[j - 1] = s[j]
    BY <1>1, <2>1
  <2>3. Says(t, b, r)
    BY <2>1, <2>2 DEF Says
  <2>4. CASE i = 1
    BY <1>1, <2>1, <2>3, <2>4
  <2>5. CASE i # 1
    <3>1. i - 1 \in DOMAIN t /\ t[i - 1] = s[i] /\ i - 1 < j - 1
      BY <1>1, <2>1, <2>5
    <3>2. SaysThen(t, a, b, r)
      BY <2>1, <2>2, <3>1 DEF SaysThen
    <3> QED
      BY <2>3, <3>2
  <2> QED
    BY <2>4, <2>5
<1>4. ASSUME Ends(s, r) PROVE Ends(t, r)
  <2> SUFFICES ASSUME NEW i \in DOMAIN t, t[i].op = "create", t[i].r = r
               PROVE  \E j \in DOMAIN t : i < j /\ t[j].op = "delete" /\ t[j].r = r
    BY DEF Ends
  <2>1. i \in Nat /\ i + 1 \in DOMAIN s /\ s[i + 1].op = "create" /\ s[i + 1].r = r
    BY <1>1
  <2>2. PICK j \in DOMAIN s : i + 1 < j /\ s[j].op = "delete" /\ s[j].r = r
    BY <1>4, <2>1 DEF Ends
  <2>3. j # 1 /\ j - 1 \in DOMAIN t /\ t[j - 1] = s[j] /\ i < j - 1
    BY <1>1, <2>1, <2>2
  <2> QED
    BY <2>2, <2>3
<1>5. ASSUME Ends(s, r), Head(s).op = "create", Head(s).r = r
      PROVE  Says(t, "delete", r)
  <2>1. PICK j \in DOMAIN s : 1 < j /\ s[j].op = "delete" /\ s[j].r = r
    BY <1>1, <1>5 DEF Ends
  <2>2. j # 1 /\ j - 1 \in DOMAIN t /\ t[j - 1] = s[j]
    BY <1>1, <2>1
  <2> QED
    BY <2>1, <2>2 DEF Says
<1>6. Says(s, Head(s).op, Head(s).r)
  BY <1>1 DEF Says
<1> QED
  BY <1>2, <1>3, <1>4, <1>5, <1>6

LEMMA VersionsDiffer ==
    /\ Shown("old") # Shown("new") /\ Shown("old") # Nothing /\ Shown("new") # Nothing
    /\ Shown("old").n = 1 /\ Shown("new").n = 1 /\ Nothing.n = 0
    /\ Seen("old") = Shown("old") /\ Seen("new") = Shown("new")
    /\ Seen("unborn") = Nothing /\ Seen("gone") = Nothing
    /\ Result("create") = "old" /\ Result("update") = "new" /\ Result("delete") = "gone"
<1>1. /\ Shown("old").n = 1 /\ Shown("new").n = 1 /\ Nothing.n = 0
      /\ Shown("old").v = "old" /\ Shown("new").v = "new"
  BY DEF Shown, Nothing
<1>2. /\ Seen("old") = Shown("old") /\ Seen("new") = Shown("new")
      /\ Seen("unborn") = Nothing /\ Seen("gone") = Nothing
  BY DEF Seen, Shown
<1>3. /\ Result("create") = "old" /\ Result("update") = "new"
      /\ Result("delete") = "gone"
  BY DEF Result
<1> QED
  BY <1>1, <1>2, <1>3
-----------------------------------------------------------------------------
(* What comes to a row when nothing is done to it.                         *)
LEMMA Unmoved ==
    ASSUME NEW r \in Row, Good(r),
           rows'[r] = rows[r], truth'[r] = truth[r], list' = list,
           \A op \in Ops : Has(call', op, r, "ok") <=> Has(call, op, r, "ok"),
           Tried(r) => Tried(r)',
           \A op : Says(inbox, op, r) => Says(inbox', op, r),
           \A a, b : SaysThen(inbox, a, b, r) => SaysThen(inbox', a, b, r),
           Ends(inbox, r) => Ends(inbox', r),
           Changing(r)' => Changing(r) \/ rows[r] # Nothing,
           \A c \in call' : c.op \in Ops /\ c.r = r => ~c.dead
    PROVE  Good(r)'
<1>1. /\ OldComes(r) => OldComes(r)'
      /\ NewComes(r) => NewComes(r)'
      /\ Goes(r) => Goes(r)'
      /\ Due("create", r, "add")' => Due("create", r, "add")
  BY DEF OldComes, NewComes, Goes, Due, Ops
<1>2. Good(r)
  OBVIOUS
<1> QED
  BY <1>1, <1>2 DEF Good

(* An operation is done to a row on the server; it is heard of, or its     *)
(* answer will show it.                                                    *)
LEMMA Turned ==
    ASSUME Ground, NEW r \in Row, NEW op \in Ops, Good(r), ~Doomed(r)',
           Fits(op, truth[r]), truth'[r] = Result(op),
           rows'[r] = rows[r], list' = list,
           inbox' = inbox \/ inbox' = Append(inbox, [op |-> op, r |-> r]),
           \A o \in Ops : Has(call, o, r, "ok") => Has(call', o, r, "ok"),
           \/ inbox' = Append(inbox, [op |-> op, r |-> r])
           \/ /\ Has(call', op, r, "ok") /\ list.acts[op].then # "wait"
              /\ op = "update" => Changing(r)
              /\ op = "delete" => Ends(inbox, r),
           op \in DOMAIN list.acts \/ ~Has(call', op, r, "ok"),
           Changing(r)' => Changing(r),
           \A c \in call' : c.op \in Ops /\ c.r = r => ~c.dead
    PROVE  Good(r)'
<1>0. PICK e \in Events : e = [op |-> op, r |-> r]
  BY DEF Events
<1>1. /\ \A o : Says(inbox, o, r) => Says(inbox', o, r)
      /\ \A a, b : SaysThen(inbox, a, b, r) => SaysThen(inbox', a, b, r)
      /\ inbox' = Append(inbox, e) =>
           /\ Says(inbox', op, r)
           /\ \A a : Says(inbox, a, r) => SaysThen(inbox', a, op, r)
           /\ op = "delete" => Ends(inbox', r)
  <2>1. inbox \in Seq(Events) /\ e.op = op /\ e.r = r
    BY <1>0 DEF Ground, InboxOK
  <2>2. ASSUME inbox' = Append(inbox, e)
        PROVE  /\ \A o : Says(inbox, o, r) => Says(inbox', o, r)
               /\ \A a, b : SaysThen(inbox, a, b, r) => SaysThen(inbox', a, b, r)
               /\ Says(inbox', op, r)
               /\ \A a : Says(inbox, a, r) => SaysThen(inbox', a, op, r)
               /\ op = "delete" => Ends(inbox', r)
    <3> PICK s \in Seq(Events) : s = inbox
      BY <2>1
    <3> QED
      BY <2>1, <2>2, SaysMore
  <2> QED
    BY <1>0, <2>2
<1>2. \A o \in Ops : Has(call', o, r, "ok") =>
        Result(o) = Result(op) /\ list.acts[o].then # "refetch"
  BY DEF Doomed
<1>3. inbox' = Append(inbox, e) \/
        /\ Has(call', op, r, "ok") /\ op \in DOMAIN list.acts
        /\ list.acts[op].then \in {"add", "addnew", "replace", "drop"}
        /\ op = "update" => Changing(r)
        /\ op = "delete" => Ends(inbox, r)
  BY <1>0, <1>2 DEF Ground, Consistent
<1>4. CASE op = "create"
  <2>1. rows[r] = Nothing /\ truth'[r] = "old" /\ ~Changing(r)
    BY <1>4, VersionsDiffer DEF Fits, Good
  <2>2. OldComes(r)'
    BY <1>1, <1>3, <1>4, <2>1 DEF OldComes, Due, Ground, Consistent
  <2> QED
    BY <2>1, <2>2 DEF Good
<1>5. CASE op = "update"
  <2>1. truth[r] \in {"old", "new"} /\ truth'[r] = "new"
    BY <1>5, VersionsDiffer DEF Fits
  <2>2. ~Has(call', "create", r, "ok") /\ ~Has(call, "create", r, "ok")
    BY <1>2, <1>5, VersionsDiffer DEF Ops
  <2>3. Says(inbox', "update", r) \/ Due("update", r, "replace")'
    BY <1>1, <1>3, <1>5 DEF Due, Ground, Consistent
  <2>4. CASE truth[r] = "old"
    <3>1. OldComes(r) /\ (Changing(r) => rows[r] # Nothing)
      BY <2>4 DEF Good
    <3>2. NewComes(r)'
      BY <1>1, <1>3, <1>5, <2>2, <2>3, <3>1 DEF OldComes, NewComes, Due
    <3> QED
      BY <2>1, <2>2, <3>1, <3>2 DEF Good, Due
  <2>5. CASE truth[r] = "new"
    <3>1. NewComes(r) /\ (Changing(r) => rows[r] # Nothing)
      BY <2>5 DEF Good
    <3>2. NewComes(r)'
      BY <1>1, <2>3, <3>1 DEF NewComes
    <3> QED
      BY <2>1, <2>2, <3>1, <3>2 DEF Good, Due
  <2> QED
    BY <2>1, <2>4, <2>5
<1>6. CASE op = "delete"
  <2>1. truth[r] \in {"old", "new"} /\ truth'[r] = "gone"
    BY <1>6, VersionsDiffer DEF Fits
  <2>2. ~Has(call', "create", r, "ok") /\ ~Has(call, "create", r, "ok")
    BY <1>2, <1>6, VersionsDiffer DEF Ops
  <2>3. Says(inbox', "delete", r) \/ Due("delete", r, "drop")'
    BY <1>1, <1>3, <1>6 DEF Due, Ground, Consistent
  <2>4. Ends(inbox', r)
    BY <1>0, <1>1, <1>3, <1>6
  <2>5. rows[r] \in {Nothing, Shown("old"), Shown("new")}
    BY <2>1 DEF Good, OldComes, NewComes
  <2>6. Goes(r)'
    BY <2>3, <2>4, <2>5 DEF Goes
  <2> QED
    BY <2>1, <2>2, <2>6 DEF Good, Due
<1> QED
  BY <1>4, <1>5, <1>6 DEF Ops
(* The answer of an operation that nothing came after. *)
LEMMA AnswerShows ==
    ASSUME Ground, NEW r \in Row, NEW c \in call, Good(r), ~Doomed(r),
           Done(c), c.r = r, r \notin stale'
    PROVE  Good(r)'
<1>1. /\ c.op \in Ops /\ c.at = "ok" /\ c.op \in DOMAIN list.acts
      /\ Has(call, c.op, r, "ok") /\ ~c.dead
  BY DEF Done, Ground, CallsOK, CallOK, Has, Good
<1>2. /\ Result(c.op) = truth[r] /\ list.acts[c.op].then # "refetch"
      /\ \A op \in Ops : Has(call, op, r, "ok") => Result(op) = truth[r]
  BY <1>1 DEF Doomed
<1>3. /\ call' = call \ {c} /\ form' \in {NoForm, form}
      /\ rows'[r] = Settled(c) /\ AtClick(c)[c.r] = rows[r]
      /\ UNCHANGED <<list, truth, inbox>>
  <2>1. r \in DOMAIN c.got => c.got[r] = rows[r]
    BY <1>1 DEF Done
  <2>2. AtClick(c)[r] = rows[r] /\ DOMAIN AtClick(c) = Row
    BY <2>1 DEF AtClick
  <2>3. rows' = [AtClick(c) EXCEPT ![r] = Settled(c)]
    BY <1>1 DEF Done
  <2>4. call' = call \ {c} /\ form' \in {NoForm, form}
        /\ UNCHANGED <<list, truth, inbox>>
    BY <1>1, <1>2 DEF Done
  <2> QED
    BY <2>2, <2>3, <2>4
<1>4. /\ \A op, at : Has(call', op, r, at) => Has(call, op, r, at)
      /\ \A op, at : op # c.op \/ at # "ok" =>
           (Has(call, op, r, at) => Has(call', op, r, at))
      /\ Changing(r)' => Changing(r)
      /\ \A d \in call' : d.op \in Ops /\ d.r = r => ~d.dead
  BY <1>1, <1>3 DEF Has, Changing, Good
<1>5. CASE c.op = "create"
  <2>1. truth[r] = "old" /\ OldComes(r)
    BY <1>2, <1>5, VersionsDiffer DEF Good
  <2>2. Tried(r) => Tried(r)'
    BY <1>3, <1>4, <1>5 DEF Tried
  <2>3. Changing(r) => rows[r] # Nothing
    BY <2>1 DEF Good
  <2>4. CASE list.acts["create"].then = "add"
    <3>1. rows[r] = Nothing
      BY <1>1, <1>5, <2>4 DEF Good, Due
    <3>2. rows'[r] = Shown("old")
      BY <1>3, <1>5, <2>4, <3>1 DEF Settled, Added, Nothing, Shown
    <3>3. ~Has(call', "create", r, "ok")
      BY <1>1, <1>3, <1>5 DEF Has, Ground, CallsOK, Created
    <3> QED
      BY <1>3, <1>4, <2>1, <2>3, <3>2, <3>3, VersionsDiffer DEF Good, OldComes, Due
  <2>5. CASE list.acts["create"].then = "addnew"
    <3>1. /\ rows[r] = Nothing => rows'[r] = Shown("old")
          /\ rows[r] \in {Shown("old"), Shown("new")} => rows'[r] = rows[r]
      BY <1>3, <1>5, <2>5 DEF Settled, Added, AddedNew, Nothing, Shown
    <3>2. OldComes(r)' /\ rows'[r] # Nothing
      BY <2>1, <2>2, <3>1, VersionsDiffer DEF OldComes
    <3> QED
      BY <1>3, <1>4, <2>1, <2>5, <3>2 DEF Good, Due
  <2>6. CASE list.acts["create"].then = "wait"
    <3>1. rows'[r] = rows[r]
      BY <1>3, <1>5, <2>6 DEF Settled
    <3>2. OldComes(r)'
      BY <1>3, <2>1, <2>2, <2>6, <3>1 DEF OldComes, Due
    <3> QED
      BY <1>3, <1>4, <2>1, <2>3, <2>6, <3>1, <3>2 DEF Good, Due
  <2> QED
    BY <1>1, <1>2, <1>5, <2>4, <2>5, <2>6 DEF Ground, Consistent
<1>6. CASE c.op = "update"
  <2>1. truth[r] = "new" /\ NewComes(r) /\ rows[r] # Nothing
    BY <1>2, <1>6, VersionsDiffer DEF Good, Changing
  <2>2. ~Has(call', "create", r, "ok")
    BY <1>2, <1>4, <2>1, VersionsDiffer DEF Ops
  <2>3. NewComes(r)' /\ rows'[r] # Nothing
    <3>1. CASE list.acts["update"].then = "replace"
      <4>1. rows'[r] = Shown("new")
        <5>1. rows[r] \in {Shown("old"), Shown("new")}
          BY <2>1 DEF NewComes
        <5> QED
          BY <1>3, <1>6, <3>1, <5>1 DEF Settled, Replaced, Shown
      <4> QED
        BY <4>1, VersionsDiffer DEF NewComes
    <3>2. CASE list.acts["update"].then = "wait"
      <4>1. rows'[r] = rows[r]
        BY <1>3, <1>6, <3>2 DEF Settled
      <4> QED
        BY <1>3, <2>1, <3>2, <4>1 DEF NewComes, Due
    <3> QED
      BY <1>1, <1>2, <1>6, <3>1, <3>2 DEF Ground, Consistent
  <2> QED
    BY <1>3, <1>4, <2>1, <2>2, <2>3 DEF Good, Due
<1>7. CASE c.op = "delete"
  <2>1. truth[r] = "gone" /\ Goes(r)
    BY <1>2, <1>7, VersionsDiffer DEF Good
  <2>2. ~Has(call', "create", r, "ok")
    BY <1>2, <1>4, <2>1, VersionsDiffer DEF Ops
  <2>3. Goes(r)'
    <3>1. CASE list.acts["delete"].then = "drop"
      BY <1>3, <1>7, <2>1, <3>1 DEF Settled, Goes
    <3>2. CASE list.acts["delete"].then = "wait"
      <4>1. rows'[r] = rows[r]
        BY <1>3, <1>7, <3>2 DEF Settled
      <4> QED
        BY <1>3, <2>1, <3>2, <4>1 DEF Goes, Due
    <3> QED
      BY <1>1, <1>2, <1>7, <3>1, <3>2 DEF Ground, Consistent
  <2> QED
    BY <1>3, <1>4, <2>1, <2>2, <2>3 DEF Good, Due
<1> QED
  BY <1>1, <1>5, <1>6, <1>7 DEF Ops

(* A failure undoes what was done early, to what the server has. *)
LEMMA FailureUndoes ==
    ASSUME Ground, NEW r \in Row, NEW c \in call, Good(r), r \notin stale',
           ~Doomed(r), Undone(c), c.r = r, list.acts[c.op].early,
           \A op \in Ops : Has(call', op, r, "ok") => Has(call, op, r, "ok"),
           Changing(r)' => Changing(r),
           \A d \in call' : d.op \in Ops /\ d.r = r => ~d.dead
    PROVE  Good(r)'
<1>1. c.op = "update" /\ ~c.dead /\ Changing(r)
  BY DEF Undone, Ground, CallsOK, CallOK, Consistent, Good, Changing
<1>2. /\ rows'[r] = Seen(truth[r]) /\ UNCHANGED <<list, truth, inbox>>
  BY <1>1 DEF Undone, Ground, RowsOK
<1>3. rows[r] # Nothing \/ truth[r] = "gone"
  BY <1>1 DEF Good
<1>4. truth[r] # "unborn" /\ truth[r] \in Versions
  BY <1>3 DEF Good, Ground, RowsOK, Versions
<1>5. ~Due("create", r, "add")'
  <2>1. ASSUME Due("create", r, "add")' PROVE FALSE
    <3>1. Due("create", r, "add")
      BY <1>2, <2>1 DEF Due, Ops
    <3>2. truth[r] = "old"
      BY <3>1, VersionsDiffer DEF Due, Doomed, Ops
    <3> QED
      BY <1>3, <3>1, <3>2 DEF Good
  <2> QED
    BY <2>1
<1>6. CASE truth[r] = "gone"
  <2>1. Goes(r)
    BY <1>6 DEF Good
  <2>2. Goes(r)'
    BY <1>2, <1>6, <2>1, VersionsDiffer DEF Goes
  <2> QED
    BY <1>2, <1>5, <1>6, <2>2 DEF Good
<1>7. CASE truth[r] \in {"old", "new"}
  <2>1. rows'[r] = Shown(truth[r]) /\ rows'[r] # Nothing
    BY <1>2, <1>7, VersionsDiffer
  <2>2. /\ truth[r] = "old" => OldComes(r)'
        /\ truth[r] = "new" => NewComes(r)'
    BY <2>1 DEF OldComes, NewComes
  <2> QED
    BY <1>2, <1>5, <1>7, <2>1, <2>2 DEF Good
<1> QED
  BY <1>4, <1>6, <1>7 DEF Versions

(* A change that is shown before it was made. *)
LEMMA EarlyShows ==
    ASSUME Ground, NEW r \in Row, Good(r), ~Doomed(r),
           rows'[r] = Applied("update", rows[r]), rows[r] # Nothing,
           list' = list, truth' = truth, inbox' = inbox,
           \A op \in Ops : Has(call', op, r, "ok") <=> Has(call, op, r, "ok"),
           Tried(r)',
           \A d \in call' : d.op \in Ops /\ d.r = r => ~d.dead
    PROVE  Good(r)'
<1>1. truth[r] \in {"old", "new", "gone"}
  BY DEF Ground, RowsOK, Versions, Good
<1>2. rows[r] \in {Shown("old"), Shown("new")}
  BY <1>1 DEF Good, OldComes, NewComes, Goes
<1>3. rows'[r] = Shown("new")
  BY <1>2 DEF Applied, Replaced, Shown
<1>4. /\ truth[r] = "old" => OldComes(r)'
      /\ truth[r] = "new" => NewComes(r)'
  BY <1>3 DEF OldComes, NewComes
<1>5. truth[r] = "gone" => Goes(r)'
  <2>1. truth[r] = "gone" => Goes(r)
    BY DEF Good
  <2> QED
    BY <1>3, <2>1 DEF Goes, Due, Ops
<1>6. ~Due("create", r, "add")'
  <2>1. ~Due("create", r, "add")
    BY DEF Good
  <2> QED
    BY <2>1 DEF Due, Ops
<1> QED
  BY <1>1, <1>3, <1>4, <1>5, <1>6, VersionsDiffer DEF Good
(* An event about a row that is shown. *)
LEMMA EventShows ==
    ASSUME Ground, NEW r \in Row, Concerned(r), Good(r), ~Doomed(r),
           Hear, Head(inbox).r = r
    PROVE  Good(r)'
<1>1. /\ UNCHANGED <<list, truth, form, call>>
      /\ rows'[r] = Applied(Head(inbox).op, rows[r])
  BY DEF Hear, Concerned, Ground, RowsOK, Consistent
<1>2. PICK s \in Seq(Events) : s = inbox
  BY DEF Ground, InboxOK
<1>3. PICK e \in Events : e = Head(inbox)
  <2>1. s # <<>> /\ Head(s) \in Events
    BY <1>2 DEF Hear
  <2> QED
    BY <1>2, <2>1
<1>4. s # <<>> /\ Tail(s) = inbox' /\ Head(s) = e
  BY <1>2, <1>3 DEF Hear
<1>5. /\ e.op \in Ops /\ e.r = r
      /\ e.op \in list.hears /\ Reached(e.op, truth[r])
  <2>1. 1 \in DOMAIN s /\ s[1] = e
    BY <1>4, Shorter
  <2> QED
    BY <1>2, <1>3, <2>1 DEF Ground, InboxOK, Events
<1>6. /\ \A op : Says(inbox, op, r) => Says(inbox', op, r) \/ e.op = op
      /\ \A a, b : SaysThen(inbox, a, b, r) =>
           Says(inbox', b, r) /\ (SaysThen(inbox', a, b, r) \/ e.op = a)
      /\ Ends(inbox, r) => /\ Ends(inbox', r)
                           /\ e.op = "create" => Says(inbox', "delete", r)
  <2> DEFINE t == Tail(s)
  <2>1. /\ \A op : Says(s, op, r) =>
             Says(t, op, r) \/ (Head(s).op = op /\ Head(s).r = r)
        /\ \A a, b : SaysThen(s, a, b, r) =>
             /\ Says(t, b, r)
             /\ SaysThen(t, a, b, r) \/ (Head(s).op = a /\ Head(s).r = r)
        /\ Ends(s, r) => /\ Ends(t, r)
                         /\ Head(s).op = "create" /\ Head(s).r = r =>
                              Says(t, "delete", r)
    BY <1>4, SaysLess
  <2>2. t = inbox'
    BY <1>4
  <2> HIDE DEF t
  <2> QED
    BY <1>2, <1>4, <1>5, <2>1, <2>2
<1>7. /\ \A op, then : Due(op, r, then)' = Due(op, r, then)
      /\ Tried(r)' = Tried(r) /\ Changing(r)' = Changing(r)
      /\ \A c \in call' : c.op \in Ops /\ c.r = r => ~c.dead
  BY <1>1 DEF Due, Tried, Changing, Good
<1>8. /\ Applied("create", Nothing) = Shown("old")
      /\ \A v : Applied("create", Shown(v)) = Shown(v)
      /\ Applied("update", Nothing) = Nothing
      /\ \A v : Applied("update", Shown(v)) = Shown("new")
      /\ \A x : Applied("delete", x) = Nothing
  <2>1. ~list.twice
    BY DEF Ground
  <2> QED
    BY <2>1 DEF Applied, AddedNew, Added, Replaced, Nothing, Shown
<1>9. CASE truth[r] = "old"
  <2>1. e.op = "create" /\ OldComes(r)
    BY <1>5, <1>9 DEF Reached, Ops, Good
  <2>2. ~Due("create", r, "add")
    <3>1. ASSUME Due("create", r, "add") PROVE FALSE
      <4>1. "create" \in DOMAIN list.acts
        BY <3>1 DEF Due, Has, Ground, CallsOK, CallOK, Ops
      <4> QED
        BY <1>5, <2>1, <3>1, <4>1 DEF Due, Ground, Consistent
    <3> QED
      BY <3>1
  <2>3. OldComes(r)' /\ rows'[r] # Nothing
    BY <1>1, <1>3, <1>7, <1>8, <2>1, VersionsDiffer DEF OldComes
  <2> QED
    BY <1>1, <1>7, <1>9, <2>2, <2>3 DEF Good
<1>10. CASE truth[r] = "new"
  <2>1. e.op \in {"create", "update"} /\ NewComes(r)
    BY <1>5, <1>10 DEF Reached, Ops, Good
  <2>2. ~Due("create", r, "add")
    BY <1>10, VersionsDiffer DEF Due, Doomed, Ops
  <2>3. NewComes(r)' /\ (rows[r] # Nothing => rows'[r] # Nothing)
    BY <1>1, <1>3, <1>6, <1>7, <1>8, <2>1, VersionsDiffer DEF NewComes
  <2> QED
    BY <1>1, <1>7, <1>10, <2>2, <2>3 DEF Good
<1>11. CASE truth[r] = "gone"
  <2>1. Goes(r)
    BY <1>11 DEF Good
  <2>2. ~Due("create", r, "add")
    BY <1>11, VersionsDiffer DEF Due, Doomed, Ops
  <2>3. Goes(r)'
    BY <1>1, <1>3, <1>5, <1>6, <1>7, <1>8, <2>1 DEF Goes, Ops
  <2> QED
    BY <1>1, <1>7, <1>11, <2>2, <2>3 DEF Good
<1> QED
  BY <1>5, <1>9, <1>10, <1>11 DEF Reached, Ops

(* A row is shown as it is, and nothing is under way for it. *)
LEMMA AsItIs ==
    ASSUME Ground, NEW r \in Row, rows'[r] = Seen(truth[r]),
           UNCHANGED <<list, truth, inbox, form>>,
           \A d \in call' : d.r # r, \A e \in Range(inbox) : e.r # r
    PROVE  Good(r)'
<1>1. \A op : ~Says(inbox', op, r)
  <2>1. \A i \in DOMAIN inbox : inbox[i] \in Range(inbox)
    BY DEF Range
  <2> QED
    BY <2>1 DEF Says
<1>2. /\ \A op, then : ~Due(op, r, then)'
      /\ Ends(inbox', r)
      /\ Changing(r)' => truth[r] # "unborn"
  BY <1>1 DEF Due, Has, Ends, Says, Changing, Ground, FormOK
<1>3. CASE truth[r] \in {"unborn", "gone"}
  <2>1. rows'[r] = Nothing
    BY <1>3, VersionsDiffer
  <2> QED
    BY <1>2, <1>3, <2>1 DEF Good, Goes
<1>4. CASE truth[r] \in {"old", "new"}
  <2>1. rows'[r] = Shown(truth[r]) /\ rows'[r] # Nothing
    BY <1>4, VersionsDiffer
  <2> QED
    BY <1>2, <1>4, <2>1 DEF Good, OldComes, NewComes
<1> QED
  BY <1>3, <1>4 DEF Ground, RowsOK, Versions

(* The list is fetched, and nothing overtook it. *)
LEMMA FetchShows ==
    ASSUME Ground, NEW r \in Row, NEW c \in call, FetchEnds(c),
           c.at = "ok", ~c.dead, c.key = KeyOf[r], r \notin stale'
    PROVE  Good(r)'
<1>1. /\ r \in DOMAIN c.got /\ c.op = "fetch"
      /\ rows' = Filled(c) /\ r \notin Overtaken(c) /\ call' = call \ {c}
      /\ UNCHANGED <<list, truth, inbox, form>>
  BY DEF FetchEnds, Ground, CallsOK, CallOK, Of
<1>2. rows'[r] = Seen(truth[r])
  BY <1>1 DEF Overtaken, Crossed, Filled
<1>3. (\A d \in call' : d.r # r) /\ \A e \in Range(inbox) : e.r # r
  BY <1>1 DEF Overtaken, Crossed
<1> QED
  BY <1>1, <1>2, <1>3, AsItIs
-----------------------------------------------------------------------------
(* Ground holds always.  What the server has only moves on.                *)
Later == /\ list' = list /\ truth' \in [Row -> Versions]
         /\ \A r \in Row : /\ truth[r] # "unborn" => truth'[r] # "unborn"
                           /\ \A op \in Ops : Reached(op, truth[r]) =>
                                Reached(op, truth'[r])

LEMMA MovesOn ==
    ASSUME RowsOK, NEW r \in Row, NEW op \in Ops, Fits(op, truth[r]),
           truth' = [truth EXCEPT ![r] = Result(op)], list' = list
    PROVE  /\ Later /\ truth'[r] = Result(op) /\ truth'[r] # "unborn"
           /\ Reached(op, truth'[r])
           /\ op = "create" => ~Reached("create", truth[r])
           /\ \A x \in Row : x # r => truth'[x] = truth[x]
<1>1. Result(op) \in {"old", "new", "gone"} /\ Reached(op, Result(op))
  BY VersionsDiffer DEF Ops, Reached
<1>2. \A o \in Ops : Reached(o, truth[r]) => Reached(o, Result(op))
  BY VersionsDiffer DEF Ops, Reached, Fits
<1>3. /\ truth' \in [Row -> Versions] /\ truth'[r] = Result(op)
      /\ \A x \in Row : x # r => truth'[x] = truth[x]
  BY <1>1 DEF RowsOK, Versions
<1>4. op = "create" => ~Reached("create", truth[r])
  BY DEF Fits, Reached
<1>5. Later
  BY <1>1, <1>2, <1>3 DEF Later
<1> QED
  BY <1>1, <1>3, <1>4, <1>5

LEMMA LaterStep == ASSUME Ground, [LNext]_lvars PROVE Later
<1>1. RowsOK
  BY DEF Ground
<1>2. CASE UNCHANGED <<list, truth>>
  BY <1>1, <1>2 DEF Later, RowsOK
<1>3. CASE \E c \in call : Serve(c) \/ AnswerLost(c)
  <2>1. PICK c \in call, at \in {"ok", "failed"} : Acted(c, at)
    BY <1>3 DEF Serve, AnswerLost
  <2>2. c.op \in Ops /\ c.r \in Row
    BY <2>1 DEF Acted, Ground, CallsOK, CallOK
  <2> QED
    BY <1>1, <2>1, <2>2, MovesOn DEF Acted
<1>4. CASE \E op \in Ops, r \in Row : Other(op, r)
  BY <1>1, <1>4, MovesOn DEF Other
<1> QED
  BY <1>2, <1>3, <1>4 DEF LNext, lvars, Select, FetchServed, CallFails, FetchEnds,
       Done, Undone, Open, Submit, Refresh, Close, Hear,
       Disconnect, Reconnect, Register, Ready

LEMMA ConsistentStays ==
    ASSUME Ground, Later
    PROVE  (~list.twice /\ Consistent(list) /\ ~(list.guard /\ list.map))'
BY DEF Ground, Later, Consistent

LEMMA RowsStep == ASSUME Ground, [LNext]_lvars, Later PROVE RowsOK'
<1> USE DEF Ground
<1>0. /\ truth' \in [Row -> Versions]
      /\ \A s : \A r \in Row : Born(s, r) => Born(s, r)'
      /\ \A r \in Row : Born(Nothing, r)
  BY VersionsDiffer DEF Later, Born
<1>1. CASE UNCHANGED rows
  BY <1>0, <1>1 DEF RowsOK
<1>2. CASE \E c \in call : FetchEnds(c) /\ rows' = Filled(c) /\ c.at = "ok" /\ c.op = "fetch"
  <2>1. PICK c \in call : FetchEnds(c) /\ rows' = Filled(c) /\ c.at = "ok" /\ c.op = "fetch"
    BY <1>2
  <2>2. /\ DOMAIN c.got = Of(c.key)
        /\ \A r \in Of(c.key) : Born(Seen(c.got[r]), r)
    BY <2>1 DEF CallsOK, CallOK
  <2>3. DOMAIN rows' = Row
    BY <2>1 DEF Filled
  <2>4. ASSUME NEW r \in Row PROVE Born(rows'[r], r)
    <3>1. CASE r \in DOMAIN c.got
      BY <2>1, <2>2, <3>1 DEF Filled
    <3>2. CASE r \notin DOMAIN c.got
      BY <1>0, <2>1, <3>2 DEF Filled, RowsOK
    <3> QED
      BY <3>1, <3>2
  <2> QED
    BY <1>0, <2>3, <2>4 DEF RowsOK
<1>3. CASE rows' = [r \in Row |-> Nothing]
  BY <1>0, <1>3 DEF RowsOK
<1>4. ASSUME NEW r \in Row, NEW s, rows' = [rows EXCEPT ![r] = s], Born(s, r)
      PROVE  RowsOK'
  <2>1. DOMAIN rows' = Row /\ \A x \in Row : Born(rows'[x], x)
    BY <1>4 DEF RowsOK
  <2> QED
    BY <1>0, <2>1 DEF RowsOK
<1>5. CASE \E c \in call : Done(c) /\ rows' # rows
  <2>1. PICK c \in call : Done(c) /\ rows' # rows
    BY <1>5
  <2>2. /\ c.r \in Row /\ Reached(c.op, truth[c.r]) /\ c.op \in Ops
        /\ \A r \in DOMAIN c.got : Born(c.got[r], r)
        /\ rows' = [AtClick(c) EXCEPT ![c.r] = Settled(c)]
    BY <2>1 DEF Done, CallsOK, CallOK
  <2>3. truth[c.r] # "unborn"
    BY <2>2 DEF Reached, Ops
  <2>4. \A r \in Row : Born(AtClick(c)[r], r)
    BY <2>2 DEF AtClick, RowsOK
  <2>5. DOMAIN AtClick(c) = Row
    BY DEF AtClick
  <2>6. ASSUME NEW r \in Row PROVE Born(rows'[r], r)
    <3>1. CASE r = c.r
      BY <2>3, <3>1 DEF Born
    <3>2. CASE r # c.r
      <4>1. rows'[r] = AtClick(c)[r]
        BY <2>2, <2>5, <3>2
      <4> QED
        BY <2>4, <4>1
    <3> QED
      BY <3>1, <3>2
  <2>7. DOMAIN rows' = Row
    BY <2>2, <2>5
  <2> QED
    BY <1>0, <2>6, <2>7 DEF RowsOK
<1>6. CASE \E c \in call : Undone(c) /\ rows' # rows
  <2>1. PICK c \in call : Undone(c) /\ rows' # rows
    BY <1>6
  <2>2. /\ c.r \in Row /\ Born(c.was, c.r)
        /\ rows' = [rows EXCEPT ![c.r] = c.was]
    BY <2>1 DEF Undone, CallsOK, CallOK
  <2> QED
    BY <1>4, <2>2
<1>7. CASE \E op \in Ops, r \in Row : Submit(op, r) /\ rows' # rows
  <2>1. PICK op \in Ops, r \in Row : Submit(op, r) /\ rows' # rows
    BY <1>7
  <2>2. op = "update" /\ rows' = [rows EXCEPT ![r] = Applied(op, rows[r])]
    BY <2>1 DEF Submit, Consistent
  <2>3. Born(Applied("update", rows[r]), r)
    <3>1. Applied("update", rows[r]) \in {rows[r], [rows[r] EXCEPT !.v = "new"]}
      BY DEF Applied, Replaced
    <3>2. rows[r].n > 0 => truth[r] # "unborn"
      BY DEF RowsOK, Born
    <3>3. CASE rows[r].n > 0
      BY <3>2, <3>3 DEF Born
    <3>4. CASE ~(rows[r].n > 0)
      BY <3>4 DEF Applied, Replaced, Born
    <3> QED
      BY <3>3, <3>4
  <2> QED
    BY <1>4, <2>2, <2>3
<1>8. CASE Hear /\ rows' # rows
  <2>1. PICK e \in Events : e = Head(inbox)
    <3>1. PICK s \in Seq(Events) : s = inbox
      BY DEF InboxOK
    <3>2. Head(s) \in Events
      BY <1>8, <3>1 DEF Hear
    <3> QED
      BY <3>1, <3>2
  <2>2. Reached(e.op, truth[e.r])
    <3>1. PICK s \in Seq(Events) : s = inbox
      BY DEF InboxOK
    <3>2. 1 \in DOMAIN s /\ s[1] = e
      BY <1>8, <2>1, <3>1, Shorter DEF Hear
    <3> QED
      BY <3>1, <3>2 DEF InboxOK
  <2>3. truth[e.r] # "unborn" /\ e.r \in Row
    BY <2>2 DEF Reached, Ops, Events
  <2>4. rows' = [rows EXCEPT ![e.r] = Applied(e.op, rows[e.r])]
    BY <1>8, <2>1 DEF Hear
  <2> QED
    BY <1>4, <2>3, <2>4 DEF Born
<1>9. CASE Ready
  <2>1. ASSUME NEW r \in Row PROVE Born(rows'[r], r)
    <3>1. CASE r \in DOMAIN ready
      BY <1>9, <3>1 DEF Ready, ReadyOK
    <3>2. CASE r \notin DOMAIN ready
      BY <1>9, <3>2 DEF Ready, RowsOK
    <3> QED
      BY <3>1, <3>2
  <2>2. DOMAIN rows' = Row
    BY <1>9 DEF Ready
  <2> QED
    BY <1>0, <2>1, <2>2 DEF RowsOK
<1> QED
  BY <1>1, <1>2, <1>3, <1>5, <1>6, <1>7, <1>8, <1>9
     DEF LNext, lvars, Select, FetchServed, CallFails, FetchEnds, Serve,
         AnswerLost, Acted, Other, Open, Refresh, Close, Disconnect, Reconnect,
         Register

LEMMA InboxStep == ASSUME Ground, [LNext]_lvars, Later PROVE InboxOK'
<1>0. PICK s \in Seq(Events) :
        /\ s = inbox /\ (s # <<>> => online = "on")
        /\ \A i \in DOMAIN s : /\ s[i] \in Events /\ s[i].op \in list.hears
                               /\ Reached(s[i].op, truth'[s[i].r])
  <2>1. PICK s \in Seq(Events) : s = inbox
    BY DEF Ground, InboxOK
  <2>2. \A i \in DOMAIN s : s[i] \in Events
    BY ElementOfSeq
  <2> QED
    BY <2>1, <2>2 DEF Ground, InboxOK, Later, Events
<1>1. list' = list
  BY DEF Later
<1>2. CASE UNCHANGED inbox /\ (online' \in {online, "on"} \/ online = "off")
  BY <1>0, <1>1, <1>2 DEF InboxOK
<1>3. CASE inbox' = <<>>
  BY <1>1, <1>3 DEF InboxOK
<1>4. ASSUME NEW op \in Ops, NEW r \in Row, Announce(op, r), online' = online,
             Reached(op, truth'[r])
      PROVE  InboxOK'
  <2>1. CASE UNCHANGED inbox
    BY <1>2, <1>4, <2>1
  <2>2. CASE /\ op \in list.hears /\ online = "on"
             /\ inbox' = Append(inbox, [op |-> op, r |-> r])
    <3>1. PICK e \in Events : e = [op |-> op, r |-> r]
      BY DEF Events
    <3>2. e.op = op /\ e.r = r
      BY <3>1
    <3>3. PICK t \in Seq(Events) : t = Append(s, e)
      BY Longer
    <3>4. \A i \in DOMAIN t : t[i] = e \/ (i \in DOMAIN s /\ t[i] = s[i])
      BY <3>3, Longer
    <3>5. inbox' = t
      BY <1>0, <2>2, <3>1, <3>3
    <3> QED
      BY <1>0, <1>1, <1>4, <2>2, <3>2, <3>4, <3>5 DEF InboxOK
  <2> QED
    BY <1>4, <2>1, <2>2 DEF Announce
<1>5. CASE \E c \in call : Serve(c) \/ AnswerLost(c)
  <2>1. PICK c \in call, at \in {"ok", "failed"} : Acted(c, at)
    BY <1>5 DEF Serve, AnswerLost
  <2>2. c.op \in Ops /\ c.r \in Row /\ Announce(c.op, c.r) /\ online' = online
    BY <2>1 DEF Acted, Ground, CallsOK, CallOK
  <2>3. Reached(c.op, truth'[c.r])
    BY <2>1, <2>2, MovesOn DEF Acted, Ground
  <2> QED
    BY <1>4, <2>2, <2>3
<1>6. CASE \E op \in Ops, r \in Row : Other(op, r)
  <2>1. PICK op \in Ops, r \in Row : Other(op, r)
    BY <1>6
  <2>2. Reached(op, truth'[r])
    BY <2>1, MovesOn DEF Other, Ground
  <2> QED
    BY <1>4, <2>1, <2>2 DEF Other
<1>7. CASE Hear
  <2>1. PICK t \in Seq(Events) : t = Tail(s)
    BY <1>0, <1>7, Shorter DEF Hear
  <2>2. \A i \in DOMAIN t : i + 1 \in DOMAIN s /\ t[i] = s[i + 1]
    BY <1>0, <1>7, <2>1, Shorter DEF Hear
  <2>3. inbox' = t /\ online' = online /\ online = "on"
    BY <1>0, <1>7, <2>1 DEF Hear
  <2> QED
    BY <1>0, <1>1, <2>2, <2>3 DEF InboxOK
<1> QED
  BY <1>2, <1>3, <1>5, <1>6, <1>7
     DEF LNext, lvars, Select, FetchServed, CallFails, FetchEnds, Done, Undone,
         Open, Submit, Refresh, Close, Disconnect, Reconnect, Register, Ready
LEMMA FormStep == ASSUME Ground, LTypes, [LNext]_lvars, Later PROVE FormOK'
<1>0. FormOK
  BY DEF Ground
<1>1. ASSUME sel' = sel, form' = NoForm \/ (form # NoForm /\ form'.op = form.op
                                                          /\ form'.r = form.r)
      PROVE  FormOK'
  BY <1>0, <1>1 DEF FormOK, Later
<1>2. CASE UNCHANGED <<sel, form>>
  <2>1. form' # NoForm => form # NoForm /\ form'.op = form.op /\ form'.r = form.r
    BY <1>2
  <2> QED
    BY <1>1, <1>2, <2>1
<1>3. CASE \E k \in Key : Select(k)
  BY <1>3 DEF Select, FormOK
<1>4. CASE \E op \in Ops, r \in Row : Open(op, r)
  <2>1. PICK op \in Ops, r \in Row : Open(op, r)
    BY <1>4
  <2>2. /\ form' = [op |-> op, r |-> r, sent |-> FALSE] /\ sel' = sel
        /\ KeyOf[r] = sel /\ truth' = truth
        /\ op = "update" => rows[r].n > 0
    BY <2>1 DEF Open, Offered
  <2>3. form'.op = op /\ form'.r = r
    BY <2>2
  <2>4. op = "update" => truth[r] # "unborn"
    BY <2>2 DEF Ground, RowsOK, Born
  <2> QED
    BY <2>2, <2>3, <2>4 DEF FormOK
<1>5. CASE \E op \in Ops, r \in Row : Submit(op, r)
  <2>1. /\ sel' = sel
        /\ form' = NoForm \/ (form # NoForm /\ form' = [form EXCEPT !.sent = TRUE])
    BY <1>5 DEF Submit
  <2>2. [form EXCEPT !.sent = TRUE].r = form.r /\ [form EXCEPT !.sent = TRUE].op = form.op
    BY DEF LTypes
  <2> QED
    BY <1>1, <2>1, <2>2
<1>6. CASE \E c \in call : Done(c) \/ Undone(c)
  <2>1. /\ sel' = sel
        /\ form' \in {NoForm, form, [form EXCEPT !.sent = FALSE]}
    BY <1>6 DEF Done, Undone, Freed
  <2>2. /\ [form EXCEPT !.sent = FALSE].r = form.r
        /\ [form EXCEPT !.sent = FALSE].op = form.op
    BY DEF LTypes
  <2>3. form = NoForm => form' = NoForm
    BY <2>1, FreedNoForm
  <2> QED
    BY <1>1, <2>1, <2>2, <2>3
<1>7. CASE Close
  BY <1>1, <1>7 DEF Close
<1> QED
  BY <1>2, <1>3, <1>4, <1>5, <1>6, <1>7
     DEF LNext, lvars, FetchServed, CallFails, FetchEnds, Serve, AnswerLost, Acted,
         Other, Refresh, Hear, Disconnect, Reconnect, Register, Ready

LEMMA ReadyStep == ASSUME Ground, [LNext]_lvars, Later PROVE ReadyOK'
<1>1. \A s : \A r \in Row : Born(s, r) => Born(s, r)'
  BY DEF Later, Born
<1>2. CASE ready' = ready
  BY <1>1, <1>2 DEF Ground, ReadyOK
<1>3. CASE ready' = <<>>
  BY <1>3 DEF ReadyOK
<1>4. CASE Reconnect /\ ready' # ready
  <2>1. PICK read \in {truth, NoRows} : ready' = Brought(read)
    BY <1>4 DEF Reconnect
  <2>2. PICK brought : brought \subseteq Row /\ ready' = [r \in brought |-> read[r]]
    <3>1. Of(sel) \subseteq Row
      BY DEF Of
    <3> QED
      BY <2>1, <3>1 DEF Brought
  <2>3. ASSUME NEW r \in Row PROVE Born(Seen(read[r]), r)
    <3>1. read[r] = truth[r] \/ read[r] = "unborn"
      BY <2>1 DEF NoRows
    <3> QED
      BY <3>1, VersionsDiffer DEF Born
  <2>4. \A r \in DOMAIN ready' : r \in Row /\ ready'[r] = read[r]
    BY <2>2
  <2>5. \A r \in DOMAIN ready' :
           r \in Row /\ (Seen(ready'[r]).n > 0 => truth'[r] # "unborn")
    BY <1>1, <2>3, <2>4 DEF Born
  <2> QED
    BY <2>5 DEF ReadyOK, Born
<1> QED
  BY <1>2, <1>3, <1>4
     DEF LNext, lvars, Select, FetchServed, CallFails, FetchEnds, Serve,
         AnswerLost, Acted, Done, Undone, Open, Submit, Other, Refresh, Close,
         Hear, Disconnect, Register, Ready

LEMMA CallKept == ASSUME Later, NEW c, CallOK(c) PROVE CallOK(c)'
<1>1. \A s : \A r \in Row : Born(s, r) => Born(s, r)'
  BY DEF Later, Born
<1>2. Of(c.key) \subseteq Row /\ (c.op \in Ops => c.r \in Row)
  BY DEF Of, CallOK
<1>3. c.op \in Ops => \A r \in DOMAIN c.got : r \in Row /\ Born(c.got[r], r)'
  BY <1>1 DEF CallOK
<1> QED
  BY <1>1, <1>2, <1>3 DEF Later, CallOK

LEMMA FetchOK == ASSUME NEW k PROVE CallOK(Fetch(k))' /\ \A r : ~Created(Fetch(k), r)
BY FetchFields DEF CallOK, Created, Ops

(* Calls end, and fetches begin. *)
LEMMA CallsOver ==
    ASSUME Ground, Later, \A d \in call' : d \in call \/ \E k : d = Fetch(k)
    PROVE  CallsOK'
<1>1. \A d \in call' : CallOK(d)'
  BY CallKept, FetchOK DEF Ground, CallsOK
<1>2. \A r \in Row : \A c, d \in call' : Created(c, r) /\ Created(d, r) => c = d
  BY FetchOK DEF Ground, CallsOK
<1> QED
  BY <1>1, <1>2 DEF CallsOK, Created

(* Calls lose their form or their list. *)
LEMMA CallsMarked ==
    ASSUME Ground, Later,
           \/ \E k \in Key : Select(k)
           \/ Close
    PROVE  CallsOK'
<1>1. ASSUME NEW c \in call, NEW d, Same(d, c), d.dead \in BOOLEAN, d.at = c.at,
             d.got = c.got, d.was = c.was
      PROVE  CallOK(d)' /\ \A r : Created(d, r) => Created(c, r)
  <2>1. CallOK(c)'
    BY CallKept DEF Ground, CallsOK
  <2> QED
    BY <1>1, <2>1 DEF CallOK, Same, Created, Born
<1>2. CASE \E k \in Key : Select(k)
  <2>1. PICK k \in Key : Select(k)
    BY <1>2
  <2>2. ASSUME NEW c \in call, NEW d, d = Abandoned(c)
        PROVE  CallOK(d)' /\ \A r : Created(d, r) => Created(c, r)
    <3>1. DOMAIN c = Fields /\ c.dead \in BOOLEAN
      BY DEF Ground, CallsOK, CallOK
    <3>2. /\ Same(d, c) /\ d.dead \in BOOLEAN /\ d.at = c.at
          /\ d.got = c.got /\ d.was = c.was
      BY <2>2, <3>1, AbandonedFields
    <3> QED
      BY <1>1, <3>2
  <2>3. \A d \in call' : (\E c \in call : d = Abandoned(c)) \/ d = Fetch(k)
    BY <2>1 DEF Select, Fetches
  <2>4. \A d \in call' : CallOK(d)'
    BY <2>2, <2>3, FetchOK
  <2>5. ASSUME NEW r \in Row, NEW d \in call', NEW e \in call',
               Created(d, r), Created(e, r)
        PROVE  d = e
    <3>1. PICK a \in call, b \in call : d = Abandoned(a) /\ e = Abandoned(b)
      BY <2>3, <2>5, FetchOK
    <3>2. Created(a, r) /\ Created(b, r)
      BY <2>2, <2>5, <3>1
    <3>3. a = b
      BY <3>2 DEF Ground, CallsOK
    <3> QED
      BY <3>1, <3>3
  <2> QED
    BY <2>4, <2>5 DEF CallsOK, Created
<1>3. CASE Close
  <2> DEFINE Closed(c) == [c EXCEPT !.own = FALSE]
  <2>1. \A c \in call : /\ CallOK(Closed(c))'
                        /\ \A r : Created(Closed(c), r) => Created(c, r)
    <3> TAKE c \in call
    <3>1. PICK d : d = Closed(c)
      OBVIOUS
    <3>2. DOMAIN c = Fields /\ c.dead \in BOOLEAN
      BY DEF Ground, CallsOK, CallOK
    <3>3. /\ Same(d, c) /\ d.dead = c.dead /\ d.at = c.at
          /\ d.got = c.got /\ d.was = c.was
      BY <3>1, <3>2, ClosedFields
    <3> HIDE DEF Closed
    <3> QED
      BY <1>1, <3>1, <3>2, <3>3
  <2>2. \A d \in call' : \E c \in call : d = Closed(c)
    BY <1>3 DEF Close
  <2> HIDE DEF Closed
  <2>3. \A d \in call' : CallOK(d)'
    BY <2>1, <2>2
  <2>4. ASSUME NEW r \in Row, NEW d \in call', NEW e \in call',
               Created(d, r), Created(e, r)
        PROVE  d = e
    <3>1. PICK a \in call, b \in call : d = Closed(a) /\ e = Closed(b)
      BY <2>2
    <3>2. Created(a, r) /\ Created(b, r)
      BY <2>1, <2>4, <3>1
    <3>3. a = b
      BY <3>2 DEF Ground, CallsOK
    <3> QED
      BY <3>1, <3>3
  <2> QED
    BY <2>3, <2>4 DEF CallsOK, Created
<1> QED
  BY <1>2, <1>3

(* A call is answered, or fails. *)
LEMMA CallsAnswered ==
    ASSUME Ground, Later, NEW c \in call,
           FetchServed(c) \/ CallFails(c) \/ Serve(c) \/ AnswerLost(c)
    PROVE  CallsOK'
<1>1. CallOK(c) /\ CallOK(c)' /\ DOMAIN c = Fields
  BY CallKept DEF Ground, CallsOK, CallOK
<1>2. ASSUME NEW d, call' = (call \ {c}) \cup {d}, CallOK(d)',
             \A r \in Row : Created(d, r) => \A e \in call : ~Created(e, r)
      PROVE  CallsOK'
  <2>1. \A e \in call' : CallOK(e)'
    BY <1>2, CallKept DEF Ground, CallsOK
  <2>2. \A r \in Row : \A a, b \in call' : Created(a, r) /\ Created(b, r) => a = b
    BY <1>2 DEF Ground, CallsOK
  <2> QED
    BY <2>1, <2>2 DEF CallsOK, Created
<1>3. CASE FetchServed(c)
  <2> DEFINE g == [r \in Of(c.key) |-> truth[r]]
  <2>1. PICK d : d = [c EXCEPT !.at = "ok", !.got = g]
    OBVIOUS
  <2>2. call' = (call \ {c}) \cup {d} /\ c.op = "fetch" /\ UNCHANGED truth
    BY <1>3, <2>1 DEF FetchServed
  <2>3. Same(d, c) /\ d.dead = c.dead /\ d.got = g /\ d.at = "ok"
    BY <1>1, <2>1 DEF Same, Fields
  <2>4. \A r \in Of(c.key) : Seen(d.got[r]).n > 0 => truth'[r] # "unborn"
    <3> TAKE r \in Of(c.key)
    <3>1. d.got[r] = truth'[r]
      BY <2>2, <2>3
    <3>2. Seen(truth'[r]).n > 0 => truth'[r] # "unborn"
      BY VersionsDiffer
    <3> QED
      BY <3>1, <3>2
  <2>5. CallOK(d)' /\ \A r : ~Created(d, r)
    <3>1. DOMAIN d.got = Of(d.key) /\ d.key = c.key /\ d.op = "fetch"
      BY <2>2, <2>3 DEF Same
    <3>2. \A r \in Of(d.key) : Born(Seen(d.got[r]), r)'
      BY <2>4, <3>1 DEF Born
    <3>3. DOMAIN d = Fields /\ d.dead \in BOOLEAN /\ d.at = "ok"
      BY <1>1, <2>3 DEF CallOK, Same
    <3> HIDE DEF g
    <3> QED
      BY <3>1, <3>2, <3>3 DEF CallOK, Created, Ops
  <2> QED
    BY <1>2, <2>2, <2>5
<1>4. CASE CallFails(c)
  <2>1. PICK d : d = [c EXCEPT !.at = "failed"]
    OBVIOUS
  <2>2. call' = (call \ {c}) \cup {d}
    BY <1>4, <2>1 DEF CallFails
  <2>3. Same(d, c) /\ d.dead = c.dead /\ d.was = c.was
        /\ d.at = "failed" /\ d.got = c.got
    BY <1>1, <2>1 DEF Same, Fields
  <2>4. CallOK(d)' /\ \A r : ~Created(d, r)
    BY <1>1, <2>3 DEF CallOK, Same, Created, Born
  <2> QED
    BY <1>2, <2>2, <2>4
<1>5. CASE Serve(c) \/ AnswerLost(c)
  <2>0. PICK at \in {"ok", "failed"} : Acted(c, at)
    BY <1>5 DEF Serve, AnswerLost
  <2>1. PICK d : d = [c EXCEPT !.at = at]
    OBVIOUS
  <2>2. call' = (call \ {c}) \cup {d} /\ c.op \in Ops /\ c.r \in Row
    BY <1>1, <2>0, <2>1 DEF Acted, CallOK
  <2>3. /\ Same(d, c) /\ d.dead = c.dead /\ d.was = c.was
        /\ d.at = at /\ d.got = c.got
    BY <1>1, <2>1 DEF Same, Fields
  <2>4. /\ Reached(c.op, truth'[c.r])
        /\ c.op = "create" => ~Reached("create", truth[c.r])
    BY <2>0, <2>2, MovesOn DEF Acted, Ground, Later
  <2>5. CallOK(d)'
    BY <1>1, <2>2, <2>3, <2>4 DEF CallOK, Same, Born, Ops
  <2>6. ASSUME NEW r \in Row, Created(d, r), NEW e \in call PROVE ~Created(e, r)
    <3>1. c.op = "create" /\ c.r = r
      BY <2>3, <2>6 DEF Created, Same
    <3>2. CallOK(e)
      BY DEF Ground, CallsOK
    <3> QED
      BY <2>4, <3>1, <3>2 DEF CallOK, Created, Ops
  <2> QED
    BY <1>2, <2>2, <2>5, <2>6
<1> QED
  BY <1>3, <1>4, <1>5

LEMMA CallsSubmitted ==
    ASSUME Ground, LTypes, Later, NEW op \in Ops, NEW r \in Row, Submit(op, r)
    PROVE  CallsOK'
<1>1. PICK d : call' = call \cup {d} /\ Sent(op, r, d)
  BY SubmittedCall
<1>2. /\ DOMAIN d = Fields /\ d.op = op /\ d.r = r /\ d.key = sel
      /\ d.dead = FALSE /\ d.at = "sent" /\ d.was \in {rows[r], Nothing}
      /\ d.got \in {<<>>, [x \in Of(sel) |-> rows[x]]}
  BY <1>1 DEF Sent
<1>3. op \in DOMAIN list.acts
  BY DEF Submit
<1>4. KeyOf[r] = sel /\ (op = "update" => truth[r] # "unborn")
  BY DEF Submit, Offered, Ground, FormOK, RowsOK, Born
<1>5. Born(d.was, r) /\ \A x \in DOMAIN d.got : x \in Row /\ Born(d.got[x], x)
  <2>1. \A x \in Row : Born(rows[x], x) /\ Born(Nothing, x)
    BY VersionsDiffer DEF Ground, RowsOK, Born
  <2>2. Of(sel) \subseteq Row /\ DOMAIN <<>> = {}
    BY DEF Of
  <2> QED
    BY <1>2, <2>1, <2>2
<1>6. CallOK(d) /\ \A x : ~Created(d, x)
  BY <1>2, <1>3, <1>4, <1>5 DEF CallOK, Ops, Created
<1>7. \A e \in call' : CallOK(e)'
  BY <1>1, <1>6, CallKept DEF Ground, CallsOK
<1>8. \A x \in Row : \A a, b \in call' : Created(a, x) /\ Created(b, x) => a = b
  BY <1>1, <1>6 DEF Ground, CallsOK
<1> QED
  BY <1>7, <1>8 DEF CallsOK, Created

LEMMA GroundStep == ASSUME Ground, LTypes, [LNext]_lvars PROVE Ground'
<1>1. Later
  BY LaterStep
<1>2. CallsOK'
  <2>1. ASSUME \/ \E c \in call : FetchEnds(c) \/ Done(c) \/ Undone(c)
               \/ \E op \in Ops, r \in Row : Open(op, r) \/ Other(op, r)
               \/ Refresh \/ Hear \/ Disconnect \/ Reconnect \/ Register
               \/ Ready \/ UNCHANGED lvars
        PROVE  CallsOK'
    <3>1. \A d \in call' : d \in call \/ \E k : d = Fetch(k)
      BY <2>1 DEF FetchEnds, Done, Undone, Open, Other, Refresh, Hear, Disconnect,
                  Reconnect, Register, Ready, lvars, AsksAfter, Asks
    <3> QED
      BY <1>1, <3>1, CallsOver
  <2> QED
    BY <1>1, <2>1, CallsMarked, CallsAnswered, CallsSubmitted DEF LNext
<1> QED
  BY <1>1, <1>2, ConsistentStays, RowsStep, InboxStep, FormStep, ReadyStep
     DEF Ground

(* A list is Consistent with or without the names of its calls. *)
LEMMA ShapeKeeps ==
    ASSUME NEW s \in Studied, NEW l, l = Shape(s)
    PROVE  /\ l.twice = s.twice /\ ~(l.guard /\ l.map)
           /\ Consistent(s) => Consistent(l)
<1>1. /\ DOMAIN s = DOMAIN List("")
      /\ \A op \in DOMAIN s.acts : DOMAIN s.acts[op] = DOMAIN Act("", "")
      /\ ~(s.guard /\ s.map)
  BY ViewsAssumption
<1>2. {"list", "acts", "twice", "hears", "cached", "map", "fresh", "guard"}
        \subseteq DOMAIN s
  BY <1>1 DEF List
<1>3. /\ l.twice = s.twice /\ l.hears = s.hears /\ l.cached = s.cached
      /\ l.map = s.map /\ l.fresh = s.fresh /\ l.guard = s.guard
      /\ l.acts = [op \in DOMAIN s.acts |-> [s.acts[op] EXCEPT !.call = None]]
  BY <1>2 DEF Shape
<1>4. ASSUME NEW op \in DOMAIN s.acts
      PROVE  l.acts[op].then = s.acts[op].then /\ l.acts[op].early = s.acts[op].early
  <2>1. {"then", "early"} \subseteq DOMAIN s.acts[op]
    BY <1>1 DEF Act
  <2> QED
    BY <1>3, <2>1
<1>5. DOMAIN l.acts = DOMAIN s.acts
  BY <1>3
<1> QED
  BY <1>1, <1>3, <1>4, <1>5 DEF Consistent

LEMMA ShowInit == LInit => ShowInv
<1> SUFFICES ASSUME LInit, ~list.twice PROVE Ground /\ AllGood
  BY DEF ShowInv
<1>1. Consistent(list) /\ ~(list.guard /\ list.map)
  <2>1. PICK s \in Studied : list = Shape(s)
    BY DEF LInit
  <2>2. PICK l : l = Shape(s)
    OBVIOUS
  <2> QED
    BY <2>1, <2>2, ShapeKeeps, ListsAssumption
<1>2. RowsOK
  <2>1. \A r \in Row : Born(rows[r], r)
    BY VersionsDiffer DEF LInit, Born
  <2> QED
    BY <2>1 DEF LInit, RowsOK, Versions
<1>3. CallsOK /\ InboxOK /\ FormOK /\ ReadyOK
  BY DEF LInit, CallsOK, InboxOK, FormOK, ReadyOK
<1>4. AllGood
  BY DEF LInit, AllGood, Claimed, Concerned
<1> QED
  BY <1>1, <1>2, <1>3, <1>4 DEF Ground
-----------------------------------------------------------------------------
(* A row that is claimed to come right after a step was so before, or the  *)
(* step was the end of its fetch.                                          *)
LEMMA ClaimedBefore ==
    ASSUME NEW r \in Row, Claimed(r)', UNCHANGED <<list, sel, loaded>>,
           r \in stale => r \in stale',
           Awaited(r) => Awaited(r)', Doomed(r) => Doomed(r)'
    PROVE  Claimed(r)
BY DEF Claimed, Concerned

LEMMA AwaitedStays ==
    ASSUME NEW r \in Row,
           \A c \in call : c.op = "fetch" /\ ~c.dead =>
               \E d \in call' : d.op = "fetch" /\ ~d.dead /\ d.key = c.key
    PROVE  Awaited(r) => Awaited(r)'
BY DEF Awaited

LEMMA DoomedStays ==
    ASSUME NEW r \in Row, list' = list, truth'[r] = truth[r],
           \A op \in Ops : Has(call, op, r, "ok") => Has(call', op, r, "ok")
    PROVE  Doomed(r) => Doomed(r)'
BY DEF Doomed

LEMMA DoomedTurned ==
    ASSUME Ground, NEW r \in Row, NEW op \in Ops, list' = list,
           Fits(op, truth[r]), truth'[r] = Result(op),
           \A o \in Ops : Has(call, o, r, "ok") => Has(call', o, r, "ok")
    PROVE  Doomed(r) => Doomed(r)'
<1> SUFFICES ASSUME NEW o \in Ops, Has(call, o, r, "ok"), Result(o) # truth[r]
             PROVE  Result(o) # truth'[r]
  BY DEF Doomed
<1>1. Reached(o, truth[r])
  BY DEF Has, Ground, CallsOK, CallOK
<1> QED
  BY <1>1, VersionsDiffer DEF Reached, Fits, Ops

(* What an event about another row leaves. *)
LEMMA AnnouncedElsewhere ==
    ASSUME Ground, NEW r \in Row, NEW op \in Ops, NEW x \in Row, x # r,
           inbox' = inbox \/ inbox' = Append(inbox, [op |-> op, r |-> x])
    PROVE  /\ \A o : Says(inbox, o, r) => Says(inbox', o, r)
           /\ \A a, b : SaysThen(inbox, a, b, r) => SaysThen(inbox', a, b, r)
           /\ Ends(inbox, r) => Ends(inbox', r)
<1>1. PICK s \in Seq(Events) : s = inbox
  BY DEF Ground, InboxOK
<1>2. PICK e \in Events : e = [op |-> op, r |-> x]
  BY DEF Events
<1>3. e.r # r
  BY <1>2
<1>4. PICK t : t = Append(s, e)
  OBVIOUS
<1>5. /\ \A o : Says(s, o, r) => Says(t, o, r)
      /\ \A a, b : SaysThen(s, a, b, r) => SaysThen(t, a, b, r)
      /\ Ends(s, r) => Ends(t, r)
  BY <1>3, <1>4, SaysMore
<1>6. inbox' = inbox \/ inbox' = t
  BY <1>1, <1>2, <1>4
<1> QED
  BY <1>1, <1>5, <1>6

(* A call is answered or fails; the row is not the one that is changed.    *)
LEMMA GoodAnswered ==
    ASSUME Ground, AllGood, NEW r \in Row, Claimed(r)', NEW c \in call,
           \/ FetchServed(c) \/ CallFails(c)
           \/ (Serve(c) \/ AnswerLost(c)) /\ c.r # r
    PROVE  Good(r)'
<1>0. DOMAIN c = Fields /\ CallOK(c)
  BY DEF Ground, CallsOK, CallOK
<1>1. PICK d : /\ call' = (call \ {c}) \cup {d} /\ Same(d, c) /\ d.dead = c.dead
               /\ c.at = "sent" /\ d.at \in {"ok", "failed"}
               /\ c.op \in Ops /\ c.r = r => d.at = "failed"
  <2>1. CASE CallFails(c)
    <3>1. PICK d : d = [c EXCEPT !.at = "failed"]
      OBVIOUS
    <3>2. Same(d, c) /\ d.dead = c.dead /\ d.at = "failed"
      BY <1>0, <3>1 DEF Same, Fields
    <3> QED
      BY <2>1, <3>1, <3>2 DEF CallFails
  <2>2. CASE FetchServed(c)
    <3>1. PICK g : g = [x \in Of(c.key) |-> truth[x]]
      OBVIOUS
    <3>2. PICK d : d = [c EXCEPT !.at = "ok", !.got = g]
      OBVIOUS
    <3>3. Same(d, c) /\ d.dead = c.dead /\ d.at = "ok"
      BY <1>0, <3>2 DEF Same, Fields
    <3> QED
      BY <2>2, <3>1, <3>2, <3>3 DEF FetchServed, Ops
  <2>3. CASE (Serve(c) \/ AnswerLost(c)) /\ c.r # r
    <3>0. PICK at \in {"ok", "failed"} : Acted(c, at)
      BY <2>3 DEF Serve, AnswerLost
    <3>1. PICK d : d = [c EXCEPT !.at = at]
      OBVIOUS
    <3>2. Same(d, c) /\ d.dead = c.dead /\ d.at = at
      BY <1>0, <3>1 DEF Same, Fields
    <3> QED
      BY <2>3, <3>0, <3>1, <3>2 DEF Acted
  <2> QED
    BY <2>1, <2>2, <2>3
<1>2. /\ \A op \in Ops : Has(call, op, r, "ok") <=> Has(call', op, r, "ok")
      /\ Has(call, "update", r, "sent") \/ Has(call, "update", r, "failed") =>
           Has(call', "update", r, "sent") \/ Has(call', "update", r, "failed")
      /\ \A e \in call' : \E f \in call : /\ e.op = f.op /\ e.r = f.r
                                          /\ e.dead = f.dead
      /\ \A f \in call : \E e \in call' : /\ e.op = f.op /\ e.r = f.r
                                          /\ e.key = f.key /\ e.dead = f.dead
  <2>1. \A op \in Ops : Has(call, op, r, "ok") <=> Has(call', op, r, "ok")
    BY <1>1 DEF Has, Same
  <2>2. Has(call, "update", r, "sent") \/ Has(call, "update", r, "failed") =>
           Has(call', "update", r, "sent") \/ Has(call', "update", r, "failed")
    BY <1>1 DEF Has, Same, Ops
  <2> QED
    BY <1>1, <2>1, <2>2 DEF Same
<1>3. /\ UNCHANGED <<list, sel, rows, loaded, form>> /\ stale \subseteq stale'
      /\ truth'[r] = truth[r]
  BY <1>0 DEF FetchServed, CallFails, Serve, AnswerLost, Acted, Ground, RowsOK, CallOK
<1>4. /\ Changing(r)' => Changing(r)
      /\ Awaited(r) => Awaited(r)'
      /\ Tried(r) => Tried(r)'
      /\ Doomed(r) => Doomed(r)'
  BY <1>2, <1>3, AwaitedStays, DoomedStays DEF Changing, Tried
<1>5. Claimed(r) /\ Good(r)
  BY <1>3, <1>4, ClaimedBefore DEF AllGood
<1>6. /\ \A o : Says(inbox, o, r) => Says(inbox', o, r)
      /\ \A a, b : SaysThen(inbox, a, b, r) => SaysThen(inbox', a, b, r)
      /\ Ends(inbox, r) => Ends(inbox', r)
  <2>1. CASE UNCHANGED inbox
    BY <2>1
  <2>2. CASE (Serve(c) \/ AnswerLost(c)) /\ c.r # r
    BY <1>0, <2>2, AnnouncedElsewhere
       DEF Serve, AnswerLost, Acted, Announce, CallOK
  <2> QED
    BY <2>1, <2>2 DEF FetchServed, CallFails
<1>7. \A e \in call' : e.op \in Ops /\ e.r = r => ~e.dead
  BY <1>2, <1>5 DEF Good
<1> QED
  BY <1>2, <1>3, <1>4, <1>5, <1>6, <1>7, Unmoved

(* The user's own operation is done to the row. *)
LEMMA GoodServed ==
    ASSUME Ground, AllGood, NEW r \in Row, Claimed(r)', NEW c \in call,
           Serve(c) \/ AnswerLost(c), c.r = r
    PROVE  Good(r)'
<1>0. DOMAIN c = Fields /\ CallOK(c)
  BY DEF Ground, CallsOK, CallOK
<1>1. PICK d : /\ call' = (call \ {c}) \cup {d} /\ Same(d, c) /\ d.dead = c.dead
               /\ c.at = "sent" /\ (d.at = "ok" \/ AnswerLost(c))
  <2>0. PICK at : Acted(c, at) /\ (at = "ok" \/ AnswerLost(c))
    BY DEF Serve, AnswerLost
  <2>1. PICK d : d = [c EXCEPT !.at = at]
    OBVIOUS
  <2>2. Same(d, c) /\ d.dead = c.dead /\ d.at = at
    BY <1>0, <2>1 DEF Same, Fields
  <2> QED
    BY <2>0, <2>1, <2>2 DEF Acted
<1>2. /\ \A op \in Ops : Has(call, op, r, "ok") => Has(call', op, r, "ok")
      /\ Has(call', c.op, r, "ok") \/ AnswerLost(c)
      /\ \A e \in call' : \E f \in call : /\ e.op = f.op /\ e.r = f.r
                                          /\ e.dead = f.dead
      /\ \A f \in call : \E e \in call' : /\ e.op = f.op /\ e.r = f.r
                                          /\ e.key = f.key /\ e.dead = f.dead
  <2>1. \A op \in Ops : Has(call, op, r, "ok") => Has(call', op, r, "ok")
    BY <1>1 DEF Has, Same
  <2>2. Has(call', c.op, r, "ok") \/ AnswerLost(c)
    BY <1>1 DEF Has, Same
  <2> QED
    BY <1>1, <2>1, <2>2 DEF Same
<1>3. /\ UNCHANGED <<list, sel, rows, loaded, form>> /\ stale \subseteq stale'
      /\ c.op \in Ops /\ c.op \in DOMAIN list.acts /\ Fits(c.op, truth[r])
      /\ Announce(c.op, r) /\ truth'[r] = Result(c.op)
  BY <1>0 DEF Serve, AnswerLost, Acted, Ground, RowsOK, CallOK
<1>4. /\ Changing(r)' => Changing(r)
      /\ Awaited(r) => Awaited(r)'
      /\ Doomed(r) => Doomed(r)'
  BY <1>2, <1>3, AwaitedStays, DoomedTurned DEF Changing
<1>5. Claimed(r) /\ Good(r)
  BY <1>3, <1>4, ClaimedBefore DEF AllGood
<1>6. ~Doomed(r)' /\ r \notin stale'
  BY DEF Claimed
<1>7. inbox' = inbox \/ inbox' = Append(inbox, [op |-> c.op, r |-> r])
  BY <1>3 DEF Announce
<1>8. ASSUME ~(c.op \in list.hears /\ online = "on")
      PROVE  /\ Has(call', c.op, r, "ok")
             /\ list.acts[c.op].then # "wait"
             /\ c.op = "update" => Changing(r)
             /\ c.op = "delete" => Ends(inbox, r)
  <2>1. list.acts[c.op].then # "wait" /\ Has(call', c.op, r, "ok")
    BY <1>2, <1>6, <1>8 DEF Serve, AnswerLost, Unheard
  <2>2. c.op = "delete" => Ends(inbox, r)
    BY <1>3, <1>8 DEF Ends, Ground, InboxOK, Consistent
  <2> QED
    BY <2>1, <2>2 DEF Changing
<1>9. c.op \in list.hears /\ online = "on" =>
        inbox' = Append(inbox, [op |-> c.op, r |-> r])
  BY <1>3 DEF Announce
<1>10. \A e \in call' : e.op \in Ops /\ e.r = r => ~e.dead
  BY <1>2, <1>5 DEF Good
<1> QED
  BY <1>2, <1>3, <1>4, <1>5, <1>6, <1>7, <1>8, <1>9, <1>10, Turned

(* Another user does something to a row. *)
LEMMA GoodOther ==
    ASSUME Ground, AllGood, NEW r \in Row, Claimed(r)',
           NEW op \in Ops, NEW x \in Row, Other(op, x)
    PROVE  Good(r)'
<1>1. /\ UNCHANGED <<list, sel, rows, loaded, form, call>> /\ stale \subseteq stale'
      /\ Announce(op, x) /\ Fits(op, truth[x])
      /\ truth' = [truth EXCEPT ![x] = Result(op)]
  BY DEF Other
<1>2. /\ Changing(r)' => Changing(r)
      /\ Awaited(r) => Awaited(r)'
      /\ Tried(r) => Tried(r)'
  BY <1>1 DEF Changing, Awaited, Tried
<1>3. CASE x # r
  <2>1. truth'[r] = truth[r]
    BY <1>1, <1>3 DEF Ground, RowsOK
  <2>2. Claimed(r) /\ Good(r)
    BY <1>1, <1>2, <2>1, DoomedStays, ClaimedBefore DEF AllGood
  <2>3. /\ \A o : Says(inbox, o, r) => Says(inbox', o, r)
        /\ \A a, b : SaysThen(inbox, a, b, r) => SaysThen(inbox', a, b, r)
        /\ Ends(inbox, r) => Ends(inbox', r)
    BY <1>1, <1>3, AnnouncedElsewhere DEF Announce
  <2>4. \A c \in call' : c.op \in Ops /\ c.r = r => ~c.dead
    BY <1>1, <2>2 DEF Good
  <2> QED
    BY <1>1, <1>2, <2>1, <2>2, <2>3, <2>4, Unmoved
<1>4. CASE x = r
  <2>1. truth'[r] = Result(op) /\ Fits(op, truth[r])
    BY <1>1, <1>4 DEF Ground, RowsOK
  <2>2. Claimed(r) /\ Good(r)
    BY <1>1, <1>2, <2>1, DoomedTurned, ClaimedBefore DEF AllGood
  <2>3. ~Doomed(r)' /\ r \notin stale'
    BY DEF Claimed
  <2>4. op \in list.hears /\ online = "on"
    BY <1>4, <2>3 DEF Other, Unheard
  <2>5. inbox' = Append(inbox, [op |-> op, r |-> r])
    BY <1>1, <1>4, <2>4 DEF Announce
  <2>6. op \in DOMAIN list.acts \/ ~Has(call', op, r, "ok")
    BY <1>1 DEF Has, Ground, CallsOK, CallOK
  <2>7. \A c \in call' : c.op \in Ops /\ c.r = r => ~c.dead
    BY <1>1, <2>2 DEF Good
  <2> QED
    BY <1>1, <1>2, <2>1, <2>2, <2>3, <2>5, <2>6, <2>7, Turned
<1> QED
  BY <1>3, <1>4

(* The list is there, or was not to be had. *)
LEMMA GoodFetched ==
    ASSUME Ground, AllGood, NEW r \in Row, Claimed(r)', NEW c \in call, FetchEnds(c)
    PROVE  Good(r)'
<1>0. /\ c.op = "fetch" /\ c.at \in {"ok", "failed"} /\ call' = call \ {c}
      /\ UNCHANGED <<list, sel, truth, form, inbox>>
      /\ r \notin stale' /\ CallOK(c)
  BY DEF FetchEnds, Claimed, Ground, CallsOK, CallOK
<1>1. CASE c.at = "ok" /\ ~c.dead /\ c.key = KeyOf[r]
  BY <1>0, <1>1, FetchShows
<1>2. CASE ~(c.at = "ok" /\ ~c.dead /\ c.key = KeyOf[r])
  <2>1. c.dead \/ c.key # KeyOf[r]
    BY <1>0, <1>2 DEF FetchEnds, Of
  <2>2. rows'[r] = rows[r] /\ (Concerned(r)' => Concerned(r)) /\ (r \in stale => r \in stale')
    <3>1. CASE UNCHANGED <<rows, loaded>> /\ stale \subseteq stale'
      BY <1>0, <3>1 DEF Concerned
    <3>2. CASE ~c.dead /\ c.at = "ok"
      <4>1. /\ rows' = Filled(c) /\ DOMAIN c.got = Of(c.key) /\ c.key # KeyOf[r]
            /\ stale' = (stale \ DOMAIN c.got) \cup Overtaken(c)
            /\ loaded' = IF list.cached THEN loaded \cup {c.key} ELSE loaded
        BY <1>0, <2>1, <3>2 DEF FetchEnds, CallOK
      <4>2. r \notin DOMAIN c.got
        BY <4>1 DEF Of
      <4>3. Concerned(r)' => Concerned(r)
        BY <1>0, <4>1 DEF Concerned
      <4>4. Concerned(r)
        BY <4>3 DEF Claimed
      <4>5. list.map
        <5>1. ASSUME ~list.map PROVE FALSE
          <6>1. KeyOf[r] = sel
            BY <4>4, <5>1 DEF Concerned, Ground, Consistent
          <6>2. r \in Of(sel) /\ c.key # sel
            BY <4>1, <6>1 DEF Of
          <6> QED
            BY <1>0, <4>1, <5>1, <6>2 DEF Overtaken
        <5> QED
          BY <5>1
      <4>6. rows'[r] = rows[r]
        BY <4>1, <4>2, <4>5 DEF Filled
      <4> QED
        BY <4>1, <4>2, <4>3, <4>6
    <3> QED
      BY <1>0, <3>1, <3>2 DEF FetchEnds
  <2>3. /\ Awaited(r) => Awaited(r)'
        /\ \A op \in Ops : \A at : Has(call, op, r, at) <=> Has(call', op, r, at)
        /\ \A d : d.op # "fetch" => (d \in call <=> d \in call')
    BY <1>0, <2>1 DEF Awaited, Has, Ops
  <2>4. /\ Changing(r)' => Changing(r)
        /\ Tried(r) => Tried(r)'
        /\ Doomed(r) => Doomed(r)'
    BY <1>0, <2>3, DoomedStays DEF Changing, Tried, Ops
  <2>5. Claimed(r) /\ Good(r)
    BY <2>2, <2>3, <2>4 DEF Claimed, AllGood
  <2>6. \A d \in call' : d.op \in Ops /\ d.r = r => ~d.dead
    BY <1>0, <2>5 DEF Good
  <2> QED
    BY <1>0, <2>2, <2>3, <2>4, <2>5, <2>6, Unmoved
<1> QED
  BY <1>1, <1>2

(* Calls that an operation leaves behind: all but it, and a fetch.         *)
LEMMA AfterCalls ==
    ASSUME Ground, NEW r \in Row, NEW c \in call, c.op \in Ops,
           call' = call \ {c} \/ call' = AsksAfter(c)
    PROVE  /\ Awaited(r) => Awaited(r)'
           /\ \A d : d.op \in Ops => (d \in call' <=> d \in call /\ d # c)
           /\ \A op \in Ops : \A at : Has(call', op, r, at) => Has(call, op, r, at)
           /\ \A op \in Ops : \A at : Has(call, op, r, at) =>
                Has(call', op, r, at) \/ (c.op = op /\ c.r = r /\ c.at = at)
           /\ (call' = AsksAfter(c) /\ c.r = r /\ Concerned(r) => Awaited(r)')
<1>1. \/ call' = call \ {c}
      \/ \E k : call' = (call \ {c}) \cup {Fetch(k)}
  BY DEF AsksAfter, Asks
<1>2. \A k : /\ Fetch(k).op = "fetch" /\ Fetch(k).key = k /\ ~Fetch(k).dead
             /\ Fetch(k).op \notin Ops
  BY FetchFields DEF Ops
<1>3. Awaited(r) => Awaited(r)'
  BY <1>1 DEF Awaited, Ops
<1>4. \A d : d.op \in Ops => (d \in call' <=> d \in call /\ d # c)
  BY <1>1, <1>2
<1>5. /\ \A op \in Ops : \A at : Has(call', op, r, at) => Has(call, op, r, at)
      /\ \A op \in Ops : \A at : Has(call, op, r, at) =>
           Has(call', op, r, at) \/ (c.op = op /\ c.r = r /\ c.at = at)
  BY <1>4 DEF Has
<1>6. ASSUME call' = AsksAfter(c), c.r = r, Concerned(r) PROVE Awaited(r)'
  <2>1. Fetch(KeyOf[r]) \in call'
    <3>1. CASE list.map
      BY <1>6, <3>1 DEF AsksAfter, Ground, CallsOK, CallOK
    <3>2. CASE ~list.map
      <4>1. KeyOf[r] = sel /\ sel # None
        BY <1>6, <3>2 DEF Concerned, Ground, Consistent
      <4> QED
        BY <1>6, <3>2, <4>1 DEF AsksAfter, Asks
    <3> QED
      BY <3>1, <3>2
  <2> QED
    BY <1>2, <2>1 DEF Awaited
<1> QED
  BY <1>3, <1>4, <1>5, <1>6

LEMMA GoodDone ==
    ASSUME Ground, AllGood, NEW r \in Row, Claimed(r)', NEW c \in call, Done(c)
    PROVE  Good(r)'
<1>0. /\ c.op \in Ops /\ c.at = "ok" /\ c.r \in Row
      /\ UNCHANGED <<list, sel, loaded, truth, inbox>> /\ stale \subseteq stale'
      /\ r \notin stale' /\ ~Awaited(r)' /\ ~Doomed(r)'
      /\ call' = call \ {c} \/ call' = AsksAfter(c)
  BY DEF Done, Claimed, Ground, CallsOK, CallOK
<1>1. Concerned(r)
  BY <1>0 DEF Claimed, Concerned
<1>2. /\ Awaited(r) => Awaited(r)'
      /\ \A d : d.op \in Ops => (d \in call' <=> d \in call /\ d # c)
      /\ \A op \in Ops : \A at : Has(call', op, r, at) => Has(call, op, r, at)
      /\ \A op \in Ops : \A at : Has(call, op, r, at) =>
           Has(call', op, r, at) \/ (c.op = op /\ c.r = r /\ c.at = at)
      /\ (call' = AsksAfter(c) /\ c.r = r /\ Concerned(r) => Awaited(r)')
  BY <1>0, AfterCalls
<1>3. Doomed(r) => Doomed(r)'
  <2> SUFFICES ASSUME NEW op \in Ops, Has(call, op, r, "ok"),
                      Result(op) # truth[r] \/ list.acts[op].then = "refetch",
                      ~Has(call', op, r, "ok")
               PROVE  FALSE
    BY <1>0 DEF Doomed
  <2>1. c.op = op /\ c.r = r
    BY <1>2
  <2>2. Result(op) = truth[r] /\ ~c.dead
    BY <1>0, <2>1 DEF Done
  <2>3. call' = AsksAfter(c)
    BY <2>1, <2>2 DEF Done
  <2> QED
    BY <1>0, <1>1, <1>2, <2>1, <2>3
<1>4. Claimed(r) /\ Good(r)
  BY <1>0, <1>2, <1>3, ClaimedBefore DEF AllGood
<1>5. CASE c.r = r
  BY <1>0, <1>4, <1>5, AnswerShows DEF Claimed
<1>6. CASE c.r # r
  <2>1. rows'[r] = rows[r]
    <3>1. r \in DOMAIN c.got /\ ~c.dead => c.got[r] = rows[r]
      BY <1>0 DEF Done
    <3>2. ~c.dead => AtClick(c)[r] = rows[r] /\ DOMAIN AtClick(c) = Row
      BY <3>1 DEF AtClick
    <3>3. \/ rows' = rows
          \/ ~c.dead /\ rows' = [AtClick(c) EXCEPT ![c.r] = Settled(c)]
      BY DEF Done
    <3> QED
      BY <1>6, <3>2, <3>3
  <2>2. \A op \in Ops : \A at : Has(call', op, r, at) <=> Has(call, op, r, at)
    BY <1>2, <1>6
  <2>3. /\ Tried(r) => Tried(r)'
        /\ Changing(r)' => Changing(r)
    <3>1. form' \in {NoForm, form}
      BY DEF Done
    <3> QED
      BY <1>0, <1>2, <2>2, <3>1 DEF Tried, Changing, Ops
  <2>4. \A d \in call' : d.op \in Ops /\ d.r = r => ~d.dead
    BY <1>2, <1>4 DEF Good
  <2> QED
    BY <1>0, <1>4, <2>1, <2>2, <2>3, <2>4, Unmoved
<1> QED
  BY <1>5, <1>6
(* A failure of an operation. *)
LEMMA GoodUndone ==
    ASSUME Ground, AllGood, NEW r \in Row, Claimed(r)', NEW c \in call, Undone(c)
    PROVE  Good(r)'
<1>0. /\ c.op \in Ops /\ c.at = "failed" /\ c.r \in Row
      /\ c.op \in DOMAIN list.acts
      /\ UNCHANGED <<list, sel, loaded, truth, inbox>> /\ stale \subseteq stale'
      /\ r \notin stale'
      /\ call' = call \ {c} \/ call' = AsksAfter(c)
  BY DEF Undone, Claimed, Ground, CallsOK, CallOK
<1>1. /\ Awaited(r) => Awaited(r)'
      /\ \A d : d.op \in Ops => (d \in call' <=> d \in call /\ d # c)
      /\ \A op \in Ops : \A at : Has(call', op, r, at) => Has(call, op, r, at)
      /\ \A op \in Ops : \A at : Has(call, op, r, at) =>
           Has(call', op, r, at) \/ (c.op = op /\ c.r = r /\ c.at = at)
  BY <1>0, AfterCalls
<1>2. \A op \in Ops : Has(call', op, r, "ok") <=> Has(call, op, r, "ok")
  BY <1>0, <1>1
<1>3. Claimed(r) /\ Good(r)
  BY <1>0, <1>1, <1>2, DoomedStays, ClaimedBefore DEF AllGood
<1>4. Changing(r)' => Changing(r)
  <2>1. ASSUME form' # NoForm PROVE form # NoForm /\ form'.op = form.op /\ form'.r = form.r
    BY <2>1, FreedNoForm DEF Undone, Freed
  <2> QED
    BY <1>1, <2>1 DEF Changing, Ops
<1>5. \A d \in call' : d.op \in Ops /\ d.r = r => ~d.dead
  BY <1>1, <1>3 DEF Good
<1>6. CASE c.r = r /\ list.acts[c.op].early
  BY <1>1, <1>3, <1>4, <1>5, <1>6, FailureUndoes DEF Claimed
<1>7. CASE ~(c.r = r /\ list.acts[c.op].early)
  <2>1. rows'[r] = rows[r]
    BY <1>0, <1>7 DEF Undone, Ground, RowsOK
  <2>2. Tried(r) => Tried(r)'
    BY <1>0, <1>1, <1>7 DEF Tried, Ops
  <2> QED
    BY <1>0, <1>2, <1>3, <1>4, <1>5, <2>1, <2>2, Unmoved
<1> QED
  BY <1>6, <1>7
(* An operation is sent. *)
LEMMA GoodSubmit ==
    ASSUME Ground, AllGood, LTypes, NEW r \in Row, Claimed(r)',
           NEW op \in Ops, NEW x \in Row, Submit(op, x)
    PROVE  Good(r)'
<1>0. /\ op \in DOMAIN list.acts
      /\ UNCHANGED <<list, sel, loaded, truth, inbox, online, stale>>
  BY DEF Submit
<1>1. PICK d : /\ call' = call \cup {d} /\ d.op = op /\ d.r = x
               /\ d.dead = FALSE /\ d.at = "sent"
  <2>1. PICK d : call' = call \cup {d} /\ Sent(op, x, d)
    BY SubmittedCall
  <2> QED
    BY <2>1 DEF Sent
<1>2. /\ \A o \in Ops : Has(call', o, r, "ok") <=> Has(call, o, r, "ok")
      /\ Awaited(r) => Awaited(r)'
      /\ Tried(r) => Tried(r)'
  BY <1>0, <1>1 DEF Has, Awaited, Tried
<1>3. Claimed(r) /\ Good(r)
  BY <1>0, <1>2, DoomedStays, ClaimedBefore DEF AllGood
<1>4. \A e \in call' : e.op \in Ops /\ e.r = r => ~e.dead
  BY <1>1, <1>3 DEF Good
<1>5. Changing(r)' => Changing(r) \/ rows[r] # Nothing
  <2>0. /\ form = NoForm => form' = NoForm
        /\ form # NoForm => form' = [form EXCEPT !.sent = TRUE]
        /\ IF list.acts[op].form
           THEN form # NoForm /\ form.op = op /\ form.r = x
           ELSE Offered(op, x)
    BY DEF Submit
  <2>1. form' # NoForm => form # NoForm /\ form'.op = form.op /\ form'.r = form.r
    BY <2>0 DEF LTypes
  <2>2. ASSUME op = "update", x = r PROVE Changing(r) \/ rows[r] # Nothing
    <3>1. CASE list.acts[op].form
      BY <2>0, <2>2, <3>1 DEF Changing
    <3>2. CASE ~list.acts[op].form
      BY <2>0, <2>2, <3>2, VersionsDiffer DEF Offered
    <3> QED
      BY <3>1, <3>2
  <2> QED
    BY <1>1, <2>1, <2>2 DEF Changing
<1>6. CASE x = r /\ list.acts[op].early /\ rows[r] # Nothing
  <2>1. op = "update" /\ rows'[r] = Applied("update", rows[r])
    BY <1>0, <1>6 DEF Submit, Ground, RowsOK, Consistent
  <2>2. Tried(r)'
    BY <1>0, <1>1, <1>6, <2>1 DEF Tried, Has
  <2>3. ~Doomed(r)
    BY <1>3 DEF Claimed
  <2> QED
    BY <1>0, <1>2, <1>3, <1>4, <1>6, <2>1, <2>2, <2>3, EarlyShows
<1>7. CASE ~(x = r /\ list.acts[op].early /\ rows[r] # Nothing)
  <2>1. rows'[r] = rows[r]
    <3>1. CASE ~list.acts[op].early
      BY <3>1 DEF Submit
    <3>2. CASE list.acts[op].early /\ x # r
      BY <3>2 DEF Submit, Ground, RowsOK
    <3>3. CASE list.acts[op].early /\ x = r /\ rows[r] = Nothing
      <4>1. op = "update" /\ rows'[r] = Applied("update", rows[r])
        BY <1>0, <3>3 DEF Submit, Ground, RowsOK, Consistent
      <4> QED
        BY <3>3, <4>1, VersionsDiffer DEF Applied, Replaced
    <3> QED
      BY <1>7, <3>1, <3>2, <3>3
  <2> QED
    BY <1>0, <1>2, <1>3, <1>4, <1>5, <2>1, Unmoved
<1> QED
  BY <1>6, <1>7
(* Another key is selected: the rows kept for it, if it is not fetched     *)
(* again, are those of a list that keeps the rows of every key.            *)
LEMMA GoodSelect ==
    ASSUME Ground, AllGood, NEW r \in Row, Claimed(r)', NEW k \in Key, Select(k)
    PROVE  Good(r)'
<1>0. /\ form = NoForm /\ sel' = k
      /\ call' = {Abandoned(c) : c \in call} \cup Fetches(k)
      /\ rows' = IF list.fresh THEN [x \in Row |-> Nothing] ELSE rows
      /\ UNCHANGED <<list, loaded, truth, form, inbox, online, stale>>
  BY DEF Select
<1>1. list.cached /\ KeyOf[r] \in loaded
  <2>1. CASE KeyOf[r] = k
    <3>1. ASSUME ~(list.cached /\ k \in loaded) PROVE FALSE
      <4>1. Fetch(KeyOf[r]) \in call'
        BY <1>0, <2>1, <3>1 DEF Fetches
      <4>2. Awaited(r)'
        BY <4>1, FetchFields DEF Awaited
      <4> QED
        BY <4>2 DEF Claimed
    <3> QED
      BY <2>1, <3>1
  <2>2. CASE KeyOf[r] # k
    BY <1>0, <2>2 DEF Claimed, Concerned
  <2> QED
    BY <2>1, <2>2
<1>2. list.map /\ ~list.fresh /\ ~list.guard
  BY <1>1 DEF Ground, Consistent
<1>3. \A c : Abandoned(c) = c
  BY <1>2 DEF Abandoned
<1>4. /\ rows' = rows
      /\ \A d : d \in call => d \in call'
      /\ \A d \in call' : d \in call \/ d.op = "fetch"
  <2>1. rows' = rows
    BY <1>0, <1>2
  <2>2. call' = call \cup Fetches(k)
    <3>1. {Abandoned(c) : c \in call} = call
      BY <1>3
    <3> QED
      BY <1>0, <3>1
  <2>3. \A d \in Fetches(k) : d.op = "fetch"
    <3>1. Fetch(k).op = "fetch"
      BY FetchFields
    <3> QED
      BY <3>1, ZenonT(30) DEF Fetches
  <2> QED
    BY <2>1, <2>2, <2>3
<1>5. /\ \A op \in Ops : Has(call', op, r, "ok") <=> Has(call, op, r, "ok")
      /\ Awaited(r) => Awaited(r)'
      /\ Tried(r) => Tried(r)'
      /\ Changing(r)' => Changing(r)
  BY <1>0, <1>4 DEF Has, Awaited, Tried, Changing, Ops
<1>6. Claimed(r) /\ Good(r)
  <2>1. Doomed(r) => Doomed(r)'
    BY <1>0, <1>5, DoomedStays
  <2> QED
    BY <1>0, <1>1, <1>5, <2>1 DEF Claimed, Concerned, AllGood
<1>7. \A d \in call' : d.op \in Ops /\ d.r = r => ~d.dead
  BY <1>4, <1>6 DEF Good, Ops
<1> QED
  BY <1>0, <1>4, <1>5, <1>6, <1>7, Unmoved

(* A form is opened, or closed. *)
LEMMA GoodForm ==
    ASSUME Ground, AllGood, NEW r \in Row, Claimed(r)',
           \/ \E op \in Ops, x \in Row : Open(op, x)
           \/ Close
    PROVE  Good(r)'
<1>1. CASE \E op \in Ops, x \in Row : Open(op, x)
  <2>1. PICK op \in Ops, x \in Row : Open(op, x)
    BY <1>1
  <2>2. /\ UNCHANGED <<list, sel, rows, loaded, truth, call, inbox, online, stale>>
        /\ form' = [op |-> op, r |-> x, sent |-> FALSE] /\ Offered(op, x)
    BY <2>1 DEF Open
  <2>3. Claimed(r) /\ Good(r)
    BY <2>2 DEF Claimed, Concerned, Awaited, Doomed, AllGood
  <2>4. Changing(r)' => Changing(r) \/ rows[r] # Nothing
    BY <2>2, VersionsDiffer DEF Changing, Offered
  <2>5. Tried(r) => Tried(r)'
    BY <2>2 DEF Tried
  <2>6. \A d \in call' : d.op \in Ops /\ d.r = r => ~d.dead
    BY <2>2, <2>3 DEF Good
  <2> QED
    BY <2>2, <2>3, <2>4, <2>5, <2>6, Unmoved
<1>2. CASE Close
  <2>1. /\ UNCHANGED <<list, sel, rows, loaded, truth, inbox, online, stale>>
        /\ form' = NoForm /\ call' = {[c EXCEPT !.own = FALSE] : c \in call}
    BY <1>2 DEF Close
  <2>2. ASSUME NEW c \in call, NEW d, d = [c EXCEPT !.own = FALSE]
        PROVE  d.op = c.op /\ d.r = c.r /\ d.key = c.key /\ d.at = c.at /\ d.dead = c.dead
    <3>1. DOMAIN c = Fields
      BY DEF Ground, CallsOK, CallOK
    <3> QED
      BY <2>2, <3>1, ClosedFields DEF Same
  <2>3. /\ \A d \in call' : \E c \in call :
             d.op = c.op /\ d.r = c.r /\ d.key = c.key /\ d.at = c.at /\ d.dead = c.dead
        /\ \A c \in call : \E d \in call' :
             d.op = c.op /\ d.r = c.r /\ d.key = c.key /\ d.at = c.at /\ d.dead = c.dead
    <3>1. ASSUME NEW d \in call'
          PROVE  \E c \in call : /\ d.op = c.op /\ d.r = c.r /\ d.key = c.key
                                 /\ d.at = c.at /\ d.dead = c.dead
      <4>1. PICK c \in call : d = [c EXCEPT !.own = FALSE]
        BY <2>1
      <4> QED
        BY <2>2, <4>1
    <3>2. ASSUME NEW c \in call
          PROVE  \E d \in call' : /\ d.op = c.op /\ d.r = c.r /\ d.key = c.key
                                  /\ d.at = c.at /\ d.dead = c.dead
      <4>1. PICK d : d = [c EXCEPT !.own = FALSE]
        OBVIOUS
      <4>2. d \in call'
        BY <2>1, <4>1
      <4> QED
        BY <2>2, <4>1, <4>2
    <3> QED
      BY <3>1, <3>2
  <2>4. /\ \A op, at : Has(call', op, r, at) <=> Has(call, op, r, at)
        /\ Awaited(r) => Awaited(r)'
        /\ Changing(r)' => Changing(r)
    <3>1. \A op, at : Has(call', op, r, at) => Has(call, op, r, at)
      BY <2>3 DEF Has
    <3>2. \A op, at : Has(call, op, r, at) => Has(call', op, r, at)
      BY <2>3 DEF Has
    <3>3. Awaited(r) => Awaited(r)'
      BY <2>3 DEF Awaited
    <3>4. Changing(r)' => Changing(r)
      BY <2>1, <2>3, SMTT(30) DEF Changing
    <3> QED
      BY <3>1, <3>2, <3>3, <3>4
  <2>5. Tried(r) => Tried(r)'
    BY <2>1, <2>4 DEF Tried
  <2>6. Claimed(r) /\ Good(r)
    BY <2>1, <2>4, DoomedStays, ClaimedBefore DEF AllGood
  <2>7. \A d \in call' : d.op \in Ops /\ d.r = r => ~d.dead
    BY <2>3, <2>6 DEF Good
  <2> QED
    BY <2>1, <2>4, <2>5, <2>6, <2>7, Unmoved
<1> QED
  BY <1>1, <1>2

(* An event is heard of. *)
LEMMA GoodHear ==
    ASSUME Ground, AllGood, NEW r \in Row, Claimed(r)', Hear
    PROVE  Good(r)'
<1>0. /\ UNCHANGED <<list, sel, loaded, truth, form, call, online, stale>>
      /\ inbox # <<>> /\ inbox' = Tail(inbox)
  BY DEF Hear
<1>1. Claimed(r) /\ Good(r)
  BY <1>0 DEF Claimed, Concerned, Awaited, Doomed, AllGood
<1>2. CASE Head(inbox).r = r
  BY <1>1, <1>2, EventShows DEF Claimed
<1>3. CASE Head(inbox).r # r
  <2>1. rows'[r] = rows[r]
    BY <1>3 DEF Hear, Ground, RowsOK
  <2>2. PICK s \in Seq(Events) : s = inbox
    BY DEF Ground, InboxOK
  <2>3. /\ \A o : Says(inbox, o, r) => Says(inbox', o, r)
        /\ \A a, b : SaysThen(inbox, a, b, r) => SaysThen(inbox', a, b, r)
        /\ Ends(inbox, r) => Ends(inbox', r)
    <3>1. s # <<>> /\ Head(s).r # r
      BY <1>0, <1>3, <2>2
    <3>2. PICK t : t = Tail(s)
      OBVIOUS
    <3> QED
      BY <1>0, <2>2, <3>1, <3>2, SaysLess
  <2>4. /\ Tried(r) => Tried(r)'
        /\ Changing(r)' => Changing(r)
        /\ \A d \in call' : d.op \in Ops /\ d.r = r => ~d.dead
    BY <1>0, <1>1 DEF Tried, Changing, Good
  <2> QED
    BY <1>0, <1>1, <2>1, <2>3, <2>4, Unmoved
<1> QED
  BY <1>2, <1>3

(* The list is asked for again; the socket goes and comes back. *)
LEMMA GoodQuiet ==
    ASSUME Ground, AllGood, NEW r \in Row, Claimed(r)',
           Refresh \/ Disconnect \/ Reconnect \/ Register \/ UNCHANGED lvars
    PROVE  Good(r)'
<1>0. /\ UNCHANGED <<list, sel, rows, loaded, truth, form>> /\ stale \subseteq stale'
      /\ call' = call \/ call' = Asks(call)
      /\ inbox' = inbox \/ (inbox' = <<>> /\ Disconnect)
  BY DEF Refresh, Disconnect, Reconnect, Register, lvars
<1>1. /\ \A d \in call : d \in call'
      /\ \A d \in call' : d \in call \/ d.op = "fetch"
  BY <1>0, FetchFields DEF Asks
<1>2. /\ \A op \in Ops : Has(call', op, r, "ok") <=> Has(call, op, r, "ok")
      /\ Awaited(r) => Awaited(r)'
      /\ Tried(r) => Tried(r)'
      /\ Changing(r)' => Changing(r)
  BY <1>0, <1>1 DEF Has, Awaited, Tried, Changing, Ops
<1>3. Claimed(r) /\ Good(r)
  BY <1>0, <1>2, DoomedStays, ClaimedBefore DEF AllGood
<1>4. \A d \in call' : d.op \in Ops /\ d.r = r => ~d.dead
  BY <1>1, <1>3 DEF Good, Ops
<1>5. /\ \A o : Says(inbox, o, r) => Says(inbox', o, r)
      /\ \A a, b : SaysThen(inbox, a, b, r) => SaysThen(inbox', a, b, r)
      /\ Ends(inbox, r) => Ends(inbox', r)
  <2>1. CASE inbox' = inbox
    BY <2>1
  <2>2. CASE inbox' = <<>> /\ Disconnect
    <3>1. \A i \in DOMAIN inbox : inbox[i].r # r
      <4>1. r \notin {e.r : e \in Range(inbox)}
        BY <2>2 DEF Disconnect, Claimed
      <4> QED
        BY <4>1 DEF Range
    <3>2. DOMAIN inbox' = {}
      BY <2>2
    <3> QED
      BY <3>1, <3>2 DEF Says, SaysThen, Ends
  <2> QED
    BY <1>0, <2>1, <2>2
<1> QED
  BY <1>0, <1>2, <1>3, <1>4, <1>5, Unmoved

(* READY is there: its rows are as it says, all others as they were. *)
LEMMA GoodReady ==
    ASSUME Ground, AllGood, NEW r \in Row, Claimed(r)', Ready
    PROVE  Good(r)'
<1>0. /\ UNCHANGED <<list, sel, loaded, truth, form, call, inbox>>
      /\ stale' = (stale \ DOMAIN ready) \cup Crossed(ready)
      /\ r \notin stale'
  BY DEF Ready, Claimed
<1>1. CASE r \in DOMAIN ready
  <2>1. /\ Seen(ready[r]) = Seen(truth[r]) /\ \A d \in call : d.r # r
        /\ \A e \in Range(inbox) : e.r # r
    BY <1>0, <1>1 DEF Crossed
  <2>2. rows'[r] = Seen(truth[r])
    BY <1>1, <2>1 DEF Ready
  <2> QED
    BY <1>0, <2>1, <2>2, AsItIs
<1>2. CASE r \notin DOMAIN ready
  <2>1. rows'[r] = rows[r]
    BY <1>2 DEF Ready
  <2>2. Claimed(r) /\ Good(r)
    BY <1>0, <1>2 DEF Claimed, Concerned, Awaited, Doomed, AllGood
  <2>3. /\ Tried(r) => Tried(r)'
        /\ Changing(r)' => Changing(r)
        /\ \A d \in call' : d.op \in Ops /\ d.r = r => ~d.dead
    BY <1>0, <2>2 DEF Tried, Changing, Good
  <2> QED
    BY <1>0, <2>1, <2>2, <2>3, Unmoved
<1> QED
  BY <1>1, <1>2
-----------------------------------------------------------------------------
LEMMA ShowStep ==
    ASSUME LTypes, ShowInv, [LNext]_lvars
    PROVE  ShowInv'
<1> SUFFICES ASSUME ~list'.twice PROVE Ground' /\ AllGood'
  BY DEF ShowInv
<1>1. list' = list
  BY DEF LNext, lvars, Select, FetchServed, CallFails, FetchEnds, Serve,
         AnswerLost, Acted, Done, Undone, Open, Submit, Other, Refresh, Close,
         Hear, Disconnect, Reconnect, Register, Ready
<1>2. Ground /\ AllGood
  BY <1>1 DEF ShowInv
<1>3. ASSUME NEW r \in Row, Claimed(r)' PROVE Good(r)'
  <2>1. CASE \E k \in Key : Select(k)
    BY <1>2, <1>3, <2>1, GoodSelect
  <2>2. CASE \E c \in call : \/ FetchServed(c) \/ CallFails(c)
                            \/ Serve(c) \/ AnswerLost(c)
    BY <1>2, <1>3, <2>2, GoodAnswered, GoodServed
  <2>3. CASE \E c \in call : FetchEnds(c) \/ Done(c) \/ Undone(c)
    BY <1>2, <1>3, <2>3, GoodFetched, GoodDone, GoodUndone
  <2>4. CASE \E op \in Ops, x \in Row : Submit(op, x) \/ Other(op, x)
    BY <1>2, <1>3, <2>4, GoodSubmit, GoodOther
  <2>5. CASE (\E op \in Ops, x \in Row : Open(op, x)) \/ Close
    BY <1>2, <1>3, <2>5, GoodForm
  <2>6. CASE Hear
    BY <1>2, <1>3, <2>6, GoodHear
  <2>7. CASE Refresh \/ Disconnect \/ Reconnect \/ Register \/ UNCHANGED lvars
    BY <1>2, <1>3, <2>7, GoodQuiet
  <2>8. CASE Ready
    BY <1>2, <1>3, <2>8, GoodReady
  <2> QED
    BY <2>1, <2>2, <2>3, <2>4, <2>5, <2>6, <2>7, <2>8 DEF LNext
<1> QED
  BY <1>2, <1>3, GroundStep DEF AllGood

(* At rest nothing is under way that a row could be waiting for. *)
LEMMA ShowRests == ShowInv => ShowsWhatIs
<1> SUFFICES ASSUME ShowInv, AtRest, ~list.twice, NEW r \in Of(sel) \ stale
             PROVE  rows[r] = Seen(truth[r])
  BY DEF ShowsWhatIs
<1>1. /\ call = {} /\ inbox = <<>> /\ sel # None
      /\ r \in Row /\ KeyOf[r] = sel /\ r \notin stale
      /\ Ground /\ AllGood
  BY DEF AtRest, Of, ShowInv
<1>2. /\ \A C, op, at : C = {} => ~Has(C, op, r, at)
      /\ ~Awaited(r)
  BY <1>1 DEF Has, Awaited
<1>3. Good(r)
  BY <1>1, <1>2 DEF AllGood, Claimed, Concerned, Doomed
<1>4. /\ \A op, then : ~Due(op, r, then)
      /\ ~Tried(r)
      /\ \A op : ~Says(inbox, op, r)
      /\ \A a, b : ~SaysThen(inbox, a, b, r)
  BY <1>1, <1>2 DEF Due, Tried, Says, SaysThen
<1>5. truth[r] \in Versions
  BY <1>1 DEF Ground, RowsOK
<1> QED
  BY <1>3, <1>4, <1>5, VersionsDiffer
     DEF Good, OldComes, NewComes, Goes, Versions

(* A list at rest shows what the server has, but for the rows whose        *)
(* changes the client was not told of: answers, events and fetches in any  *)
(* order leave it right.  The lists that show a row twice are left out, as *)
(* in ShowsWhatIs; all others have to be Consistent (ListsAssumption).     *)
THEOREM RowsComeRight == LSpec => []ShowsWhatIs
<1>1. LInit => StuckInv /\ ShowInv
  BY StuckInit, ShowInit
<1>2. StuckInv /\ ShowInv /\ [LNext]_lvars => StuckInv' /\ ShowInv'
  BY StuckStep, ShowStep DEF StuckInv
<1> QED
  BY <1>1, <1>2, ShowRests, PTL DEF LSpec
=============================================================================
