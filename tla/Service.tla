------------------------------ MODULE Service ------------------------------
(***************************************************************************)
(* What the broker promises the platform that calls it.  Calls overlap,    *)
(* yet each one takes effect in one step between its arrival and its       *)
(* answer.  Credentials are drawn for an instance once; every Bind answers *)
(* with those; and a Deprovision that succeeds ends the instance for good. *)
(***************************************************************************)
CONSTANTS
  Instances,
  Requests,
  Credentials,
  None

VARIABLES
  drawn,   \* the credentials drawn for each instance: none, or one
  gone,    \* the instances a Deprovision ended
  call     \* each call, with its answer and the credentials answered

vars == <<drawn, gone, call>>

Init == /\ drawn = [i \in Instances |-> {}]
        /\ gone = {}
        /\ call = [r \in Requests |->
                     [op |-> "none", id |-> None, reply |-> "none", given |-> {}]]

Held(i) == drawn[i] # {} /\ i \notin gone

Pending(r) == call[r].op # "none" /\ call[r].reply = "none"

\* A call arrives.  Unbind is answered at once, and so are calls refused.
\* A Provision is not refused as existing: its ID was never used before.
Call(r, o, i, answer) ==
  /\ call[r].op = "none" /\ o # "none"
  /\ \/ answer \in {"none", "error"}
     \/ answer = "missing" /\ o \in {"deprovision", "bind", "unbind"}
     \/ answer = "ok" /\ o = "unbind" /\ Held(i)
  /\ call' = [call EXCEPT ![r] = [op |-> o, id |-> i, reply |-> answer, given |-> {}]]
  /\ UNCHANGED <<drawn, gone>>

Draw(r, x) ==
  /\ Pending(r) /\ call[r].op = "provision" /\ drawn[call[r].id] = {}
  /\ drawn' = [drawn EXCEPT ![call[r].id] = {x}]
  /\ UNCHANGED <<gone, call>>

Succeed(r) ==
  /\ Pending(r) /\ drawn[call[r].id] # {}
  /\ \/ call[r].op \in {"provision", "bind"} /\ Held(call[r].id) /\ UNCHANGED gone
     \/ call[r].op = "deprovision" /\ gone' = gone \cup {call[r].id}
  /\ call' = [call EXCEPT ![r] = [op |-> @.op, id |-> @.id, reply |-> "ok",
                                  given |-> IF @.op = "bind" THEN drawn[@.id] ELSE {}]]
  /\ UNCHANGED drawn

\* One call fails, or several are cut off at once
Refuse(calls, answer) ==
  /\ calls # {} /\ \A r \in calls : Pending(r)
  /\ \/ answer \in {"error", "aborted"}
     \/ answer = "limit" /\ \A r \in calls : call[r].op = "provision"
  /\ call' = [r \in Requests |-> IF r \in calls THEN [call[r] EXCEPT !.reply = answer]
                                 ELSE call[r]]
  /\ UNCHANGED <<drawn, gone>>

Next ==
  \/ \E r \in Requests :
       \/ \E o \in {"provision", "deprovision", "bind", "unbind", "other"},
             i \in Instances, answer \in {"none", "ok", "missing", "error"} :
            Call(r, o, i, answer)
       \/ \E x \in Credentials : Draw(r, x)
       \/ Succeed(r)
  \/ \E calls \in SUBSET Requests, answer \in {"limit", "error", "aborted"} :
       Refuse(calls, answer)

Spec == Init /\ [][Next]_vars
=============================================================================
