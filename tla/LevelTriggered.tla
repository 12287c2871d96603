--------------------------- MODULE LevelTriggered ---------------------------
(***************************************************************************)
(* What a level-triggered controller promises, whatever it controls.       *)
(*                                                                         *)
(* Users set the desired state; the controller sees it late (view), takes  *)
(* what it sees at the start of a pass (seen) and writes the parts of the  *)
(* actual state that follow from it, one at a time.  due says that a pass  *)
(* runs, is queued, or will be queued by an event on its way.  The promise *)
(* is about rest: the controller stops being due only when the actual      *)
(* state is what the desired one, not the one it has seen, asks for, and   *)
(* as long as it is at rest it writes nothing.  A part is written only     *)
(* with what a desired state, past or present, asks of it, by a controller *)
(* configured as this one is.                                              *)
(***************************************************************************)
CONSTANTS
  Parts,      \* the parts of the actual state
  Desires,    \* what users may ask for
  Configs,    \* how the controller may be configured
  Nothing,    \* no desired state; a part that does not exist
  Wanted(_, _)  \* Wanted(d, c)[p]: what a pass for d configured as c may make of p;
                \* the empty set where d says nothing about p

VARIABLES desired, view, seen, config, actual, due

vars == <<desired, view, seen, config, actual, due>>

Asked == Desires \cup {Nothing}

Init ==
  /\ desired = Nothing /\ view = Nothing /\ seen = Nothing
  /\ config \in Configs
  /\ actual = [p \in Parts |-> Nothing]
  /\ due = FALSE

(* The actual state is one the desired state asks for. *)
Met ==
  desired # Nothing =>
    \A p \in Parts : Wanted(desired, config)[p] # {} => actual[p] \in Wanted(desired, config)[p]

(* Users change the desired state, or withdraw it. *)
Ask ==
  /\ desired' \in Asked
  /\ due' = TRUE
  /\ UNCHANGED <<view, seen, config, actual>>

(* The controller's view catches up. *)
Observe ==
  /\ view' = desired /\ due' = TRUE
  /\ UNCHANGED <<desired, seen, config, actual>>

(* A pass begins with what is in view. *)
Begin ==
  /\ due /\ seen = Nothing /\ view # Nothing
  /\ seen' = view
  /\ UNCHANGED <<desired, view, config, actual, due>>

(* A pass writes one part. *)
Write ==
  /\ due /\ seen # Nothing
  /\ \E p \in Parts : \E v \in Wanted(seen, config)[p] : actual' = [actual EXCEPT ![p] = v]
  /\ UNCHANGED <<desired, view, seen, config, due>>

(* A pass ends, or there is nothing to do a pass for. *)
End ==
  /\ due
  /\ seen' = Nothing
  /\ due' \in BOOLEAN /\ (~due' => Met)
  /\ UNCHANGED <<desired, view, config, actual>>

(* Others take a part away: the controller is told. *)
Disturb ==
  /\ \E p \in Parts : actual' = [actual EXCEPT ![p] = Nothing]
  /\ due' = TRUE
  /\ UNCHANGED <<desired, view, seen, config>>

(* Something else the controller looks at changes. *)
Wake ==
  /\ due' = TRUE
  /\ UNCHANGED <<desired, view, seen, config, actual>>

(* The controller is replaced by one that is configured otherwise. *)
Restart ==
  /\ seen' = Nothing /\ view' = desired
  /\ config' \in Configs
  /\ due' = TRUE
  /\ UNCHANGED <<desired, actual>>

Next ==
  Ask \/ Observe \/ Begin \/ Write \/ End \/ Disturb \/ Wake \/ Restart

Spec == Init /\ [][Next]_vars
=============================================================================
