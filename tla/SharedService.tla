--------------------------- MODULE SharedService ---------------------------
(***************************************************************************)
(* The shared VM as the platform sees it: an implementation of Service.    *)
(***************************************************************************)
EXTENDS SharedVM

\* The port and password that Provisions of instance i drew, in FindFreePort
Drawn(i) == {req[r].inst : r \in {q \in Requests : /\ req[q].op = "provision"
                                                   /\ req[q].id = i
                                                   /\ req[q].inst # None}}

\* What the platform knows of a call
Called(h) == [op |-> h.op, id |-> h.id, reply |-> h.reply,
              given |-> IF h.op = "bind" /\ h.reply = "ok" THEN {h.inst} ELSE {}]

drawn == [i \in Instances |-> Drawn(i)]
gone == {i \in Instances : Deprovisioned(i)}
calls == [r \in Requests |-> Called(req[r])]

Promise == INSTANCE Service WITH call <- calls, Credentials <- Instance

\* With an ID used for one Provision only, and no monitor that boots meanwhile,
\* the handlers keep the promise of Service although they lock nothing and
\* crash, fail and are cut off anywhere: a Bind answers what the Provision drew
\* and never after a Deprovision was answered with success; a Provision is
\* answered with success only while its instance is there, and is never told
\* that it exists; Deprovision and Unbind succeed only on what was provisioned.
ImplementsService == Promise!Spec
=============================================================================
