---------------------------- MODULE MCSlackInbox ----------------------------
(* SlackInbox for TLC: two deliveries, which are the two events of one     *)
(* mention, an event and a press, or a press and one of nobody's concern.  *)
EXTENDS SlackInbox, TLC

CONSTANTS d1, d2

MixedKinds == {d1 :> "event" @@ d2 :> "event", d1 :> "event" @@ d2 :> "press",
               d1 :> "press" @@ d2 :> "noise"}
=============================================================================
