------------------------------ MODULE Webhooks ------------------------------
(***************************************************************************)
(* The webhooks table of one server and the REST handlers that change it   *)
(* (src/server/src/handlers/webhooks.rs).  Creating checks a limit and     *)
(* then inserts; a PATCH reads the row and then writes every column back.  *)
(* The two statements of a handler are separate steps.                     *)
(*                                                                         *)
(* A row keeps what delivery depends on.  "enabled" stands for enabled and *)
(* event_types together: does the webhook get the event or not?            *)
(***************************************************************************)
EXTENDS Naturals, FiniteSets

CONSTANTS
    Webhook,   \* webhook ids
    Url,       \* receivers
    Editor,    \* REST requests that may be in flight
    Limit,     \* webhooks per server (10 in the code)
    NotYet,    \* an id that has not been inserted
    Deleted,   \* an id whose row was deleted
    Keep       \* a field a PATCH does not provide

ASSUME WebhooksAssumption ==
    /\ Limit \in Nat \ {0} /\ IsFiniteSet(Editor)
    /\ Keep \notin Url /\ Keep \notin BOOLEAN

VARIABLES hooks,  \* the table: id -> row, NotYet or Deleted
          edit    \* request -> what it is about to write, or Idle

hvars == <<hooks, edit>>

-----------------------------------------------------------------------------
Row == [url : Url, enabled : BOOLEAN, failures : Nat]

ASSUME RowAssumption == NotYet \notin Row /\ Deleted \notin Row \cup {NotYet}

Exists(h) == hooks[h] \in Row
Idle == [at |-> "idle"]
Insert == [at |-> "insert"]
(* "met": another PATCH has written the row since this one read it (for    *)
(* the properties only).                                                   *)
Write == [at : {"write"}, hook : Webhook, url : Url, enabled : BOOLEAN,
          given : SUBSET {"url", "enabled"}, met : BOOLEAN]

HInit == /\ hooks = [h \in Webhook |-> NotYet]
         /\ edit = [q \in Editor |-> Idle]

(* Mutant of CreateCount: one more than the limit.                         *)
CreateCountOff(q) == /\ edit[q] = Idle
                     /\ Cardinality({h \in Webhook : Exists(h)}) <= Limit
                     /\ edit' = [edit EXCEPT ![q] = Insert]
                     /\ UNCHANGED hooks

(* POST: SELECT COUNT, refused at the limit ...                            *)
CreateCount(q) == /\ edit[q] = Idle
                  /\ Cardinality({h \in Webhook : Exists(h)}) < Limit
                  /\ edit' = [edit EXCEPT ![q] = Insert]
                  /\ UNCHANGED hooks

(* ... then INSERT, enabled by default.                                    *)
CreateInsert(q, h, url) ==
    /\ edit[q] = Insert
    /\ hooks[h] = NotYet
    /\ hooks' = [hooks EXCEPT ![h] =
                    [url |-> url, enabled |-> TRUE, failures |-> 0]]
    /\ edit' = [edit EXCEPT ![q] = Idle]

(* Mutant of PatchRead: a missing "enabled" enables. *)
PatchEnables(q, h, url, enabled) ==
    /\ edit[q] = Idle /\ Exists(h)
    /\ edit' = [edit EXCEPT ![q] =
          [at |-> "write", hook |-> h,
           url |-> IF url = Keep THEN hooks[h].url ELSE url,
           enabled |-> enabled # FALSE,
           given |-> IF enabled = Keep THEN {} ELSE {"enabled"}, met |-> FALSE]]
    /\ UNCHANGED hooks

(* PATCH: SELECT the row; a field that is not provided is taken from it    *)
(* ...                                                                     *)
PatchRead(q, h, url, enabled) ==
    /\ edit[q] = Idle /\ Exists(h)
    /\ edit' = [edit EXCEPT ![q] =
          [at |-> "write", hook |-> h,
           url |-> IF url = Keep THEN hooks[h].url ELSE url,
           enabled |-> IF enabled = Keep THEN hooks[h].enabled ELSE enabled,
           given |-> {x \in {"url", "enabled"} :
                         \/ x = "url" /\ url # Keep
                         \/ x = "enabled" /\ enabled # Keep},
           met |-> FALSE]]
    /\ UNCHANGED hooks

(* ... then UPDATE all of them (nothing to do if the row is gone).         *)
PatchWrite(q) ==
    LET w == edit[q]
    IN /\ w.at = "write"
       /\ hooks' = IF Exists(w.hook)
                   THEN [hooks EXCEPT ![w.hook].url = w.url,
                                      ![w.hook].enabled = w.enabled]
                   ELSE hooks
       /\ edit' = [p \in Editor |->
                     IF p = q THEN Idle
                     ELSE IF edit[p].at = "write" /\ edit[p].hook = w.hook
                          THEN [edit[p] EXCEPT !.met = TRUE] ELSE edit[p]]

(* DELETE is one statement. *)
Delete(h) == /\ Exists(h)
             /\ hooks' = [hooks EXCEPT ![h] = Deleted]
             /\ UNCHANGED edit

Edit == \/ \E q \in Editor :
             \/ CreateCount(q) \/ PatchWrite(q)
             \/ \E h \in Webhook :
                  \/ \E url \in Url : CreateInsert(q, h, url)
                  \/ \E url \in Url \cup {Keep}, on \in BOOLEAN \cup {Keep} :
                        PatchRead(q, h, url, on)
        \/ \E h \in Webhook : Delete(h)

HSpec == HInit /\ [][Edit]_hvars

-----------------------------------------------------------------------------
(* Type correctness. *)
HTypeOK == /\ hooks \in [Webhook -> Row \cup {NotYet, Deleted}]
           /\ edit \in [Editor -> Write \cup {Idle, Insert}]

(* A server has no more webhooks than the limit, but for creations that    *)
(* are under way at once: n of them exceed it by n - 1 at the most, and    *)
(* creations one after the other not at all.                               *)
WithinLimit == Cardinality({h \in Webhook : Exists(h)})
                  <= Limit + (Cardinality(Editor) - 1)

(* A PATCH, which writes every column back, undoes nothing that has        *)
(* happened since it read them, except what another PATCH wrote: no count  *)
(* of failures is lost, no deleted webhook comes back, and the fields that *)
(* it does not provide keep their values.                                  *)
UndoesOnlyPatches ==
    [][\A q \in Editor : edit[q].at = "write" /\ edit'[q] = Idle =>
          LET h == edit[q].hook
          IN hooks'[h] \in Row =>
               /\ Exists(h) /\ hooks'[h].failures = hooks[h].failures
               /\ ~edit[q].met =>
                     /\ "url" \notin edit[q].given => hooks'[h].url = hooks[h].url
                     /\ "enabled" \notin edit[q].given =>
                           hooks'[h].enabled = hooks[h].enabled]_hvars
=============================================================================
