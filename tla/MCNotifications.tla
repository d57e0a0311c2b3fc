-------------------------- MODULE MCNotifications --------------------------
(* Two workers: two messages that cost the one credit, with a worker that   *)
(* dies; one with a top-up, a sign-in link and an edit of the settings; or  *)
(* the other channels, and a person without a phone.                        *)
EXTENDS Notifications

MCOf == [m \in Messages |-> CASE m = "a sms" -> "a" [] m = "b sms" -> "b" [] OTHER -> "c"]
MCChannel == [m \in Messages |-> CASE m \in {"a sms", "b sms", "c sms"} -> "sms"
                [] m = "c mail" -> "email" [] m = "c app" -> "in_app" [] OTHER -> "whatsapp"]
MCBounds == {[events |-> {"a", "b"}, topups |-> 0, links |-> 0, edits |-> 0, deaths |-> 1],
             [events |-> {"a"}, topups |-> 1, links |-> 1, edits |-> 1, deaths |-> 0],
             [events |-> {"c"}, topups |-> 0, links |-> 0, edits |-> 0, deaths |-> 1]}
=============================================================================
