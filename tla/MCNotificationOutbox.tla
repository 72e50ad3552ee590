------------------------ MODULE MCNotificationOutbox ------------------------
(***************************************************************************)
(* NotificationOutbox for TLC: one subscriber with a webhook, one without, *)
(* and two calls in flight.                                                *)
(***************************************************************************)
EXTENDS NotificationOutbox, TLC

CONSTANTS u1, u2, e1, s1, s2

MCUsers == {u1, u2}
MCHooks == (u1 :> {e1}) @@ (u2 :> {})
MCSlots == {s1, s2}
=============================================================================
