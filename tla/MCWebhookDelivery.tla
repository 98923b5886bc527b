------------------------- MODULE MCWebhookDelivery -------------------------
(***************************************************************************)
(* WebhookDelivery as two instances in one run.  Before anything is fired: *)
(* two requests at a time, three webhook ids and two URLs, so that         *)
(* creations and PATCHes race and the limit is exceeded.  From then on:    *)
(* one request at a time, two ids and one URL, an event, a test ping and a *)
(* channel that holds one job, so that it does fill up.                    *)
(***************************************************************************)
EXTENDS WebhookDelivery

CONSTANTS h1, h2, h3, u1, u2, q1, q2, f1, p1

Rows == {h \in Webhook : Exists(h)}

(* Ids are used in this order. *)
MCOrder == /\ hooks[h2] # NotYet => hooks[h1] # NotYet
           /\ hooks[h3] # NotYet => hooks[h2] # NotYet

MCState == \/ \A f \in Firing : fired[f] = "idle"
           \/ /\ Cardinality(Rows) <= Limit /\ hooks[h3] = NotYet
              /\ \A h \in Rows : hooks[h].url = u1
              /\ edit[q2] = Idle
              /\ edit[q1] \notin {Idle, Insert} => edit[q1].url = u1

MCStep == MCOrder' /\ MCState'
=============================================================================
