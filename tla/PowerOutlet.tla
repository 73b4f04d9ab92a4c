----------------------------- MODULE PowerOutlet -----------------------------
(***************************************************************************)
(* What a power controller promises its caller, whichever device is behind *)
(* it: the interface PowerControllerBase of                                *)
(* hardware_control/power_controller.py.  A call is answered once, a       *)
(* positive answer is true of the outlet, and a negative one promises      *)
(* nothing: the outlet may have moved, or may still be about to.           *)
(***************************************************************************)

VARIABLES
  outlet,  \* the switch the board hangs on
  target,  \* the state it was last told to take
  call,    \* the call in progress
  cut,     \* the board was without power at some time in the call
  answer   \* the last call that returned, and what it returned

outletVars == <<outlet, target, call, cut, answer>>

Positions == {"on", "off"}
Queries == {"state", "wait_on", "wait_off"}
Switching == Positions \cup {"cycle"}
Calls == Switching \cup Queries
Replies == {"true", "false", "raised", "unknown"} \cup Positions

(* What a call may tell the outlet, and the position it ends in.           *)
Commands(c) == {t \in Positions : c \in {t, "cycle"}}
Final(c) == IF c = "cycle" THEN "on" ELSE c
Awaited(c) == IF c = "wait_on" THEN "on" ELSE "off"

TypeOK ==
  /\ outlet \in Positions
  /\ target \in Positions
  /\ call \in Calls \cup {"none"}
  /\ cut \in BOOLEAN
  /\ answer \in [call : Calls \cup {"none"}, reply : Replies]

Init ==
  /\ outlet \in Positions
  /\ target = outlet
  /\ call = "none"
  /\ cut = FALSE
  /\ answer = [call |-> "none", reply |-> "unknown"]

Invoke(c) ==
  /\ call = "none"
  /\ call' = c
  /\ cut' = (outlet = "off")
  /\ UNCHANGED <<outlet, target, answer>>

(* The outlet is told to take a position, and may take it at once.         *)
Obey(t) ==
  /\ t \in Commands(call)
  /\ target' = t
  /\ outlet' \in {outlet, t}
  /\ cut' = (cut \/ outlet' = "off")
  /\ UNCHANGED <<call, answer>>

(* It takes the position later, possibly after the call has returned.      *)
Switch ==
  /\ outlet # target
  /\ outlet' = target
  /\ cut' = (cut \/ (call # "none" /\ target = "off"))
  /\ UNCHANGED <<target, call, answer>>

(* The contract of a reply, about the outlet as the call leaves it: what   *)
(* goes wrong inside a cycle is a False, elsewhere it may be an exception. *)
Truthful(r) ==
  /\ call = "state" => r \in {"unknown", "raised", outlet}
  /\ call # "state" =>
       r \in {"true", "false"} \/ (r = "raised" /\ call # "cycle")
  /\ call \in {"wait_on", "wait_off"} /\ r = "true" => outlet = Awaited(call)
  /\ call \in Switching /\ r = "true" =>
       /\ outlet' = Final(call) /\ target' = Final(call)
       /\ call = "cycle" => cut'

Respond(r) ==
  /\ call # "none"
  /\ \/ UNCHANGED <<outlet, target>>
     \/ \E t \in Commands(call) : target' = t /\ outlet' \in {outlet, t}
  /\ cut' = (cut \/ outlet' = "off")
  /\ Truthful(r)
  /\ answer' = [call |-> call, reply |-> r]
  /\ call' = "none"

Next ==
  \/ \E c \in Calls : Invoke(c)
  \/ \E t \in Positions : Obey(t)
  \/ Switch
  \/ \E r \in Replies : Respond(r)

Spec == Init /\ [][Next]_outletVars

-----------------------------------------------------------------------------
(* Once a switching call has answered True the outlet stays where it was   *)
(* put until a later call moves it: no command of an earlier, failed call  *)
(* takes effect afterwards.  (turn_on, turn_off, power_cycle)              *)
StaysPut ==
  call = "none" /\ answer.reply = "true" /\ answer.call \in Switching
    => outlet = Final(answer.call) /\ target = outlet
=============================================================================
