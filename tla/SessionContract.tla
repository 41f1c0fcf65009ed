--------------------------- MODULE SessionContract ---------------------------
(***************************************************************************)
(* The life of one resumable session, as binding.json promises it: started *)
(* once, sent one prompt at a time, continued only from a suspended        *)
(* boundary and under the same reference, and never continued again after  *)
(* an activation ended ambiguously or the run closed it.                   *)
(***************************************************************************)
EXTENDS Naturals

CONSTANTS Session,  \* the states that own a resumable session
          Ref,      \* exact references of executor sessions
          NoRef     \* a reference that is not known yet

VARIABLE session    \* Session -> [status, ref, sequence]

Init == session = [s \in Session |->
                      [status |-> "none", ref |-> NoRef, sequence |-> 0]]

Becomes(s, b) == session' = [session EXCEPT ![s] = b]

\* The first activation, with a reference of its own or none yet.
Start(s) ==
    /\ session[s].status = "none"
    /\ \E r \in Ref \cup {NoRef} :
        Becomes(s, [status |-> "allocated", ref |-> r, sequence |-> 1])

\* A later one, from a suspended boundary only.
Continue(s) ==
    /\ session[s].status = "suspended"
    /\ Becomes(s, [status |-> "allocated", ref |-> session[s].ref,
                   sequence |-> session[s].sequence + 1])

Activate(s) ==
    /\ session[s].status = "allocated"
    /\ Becomes(s, [session[s] EXCEPT !.status = "active"])

\* The executor names its session, once.
Bind(s) ==
    /\ session[s].status = "active" /\ session[s].ref = NoRef
    /\ \E r \in Ref : Becomes(s, [session[s] EXCEPT !.ref = r])

\* The activation is known to have completed, in a session that has a name.
Suspend(s) ==
    /\ session[s].status = "active" /\ session[s].ref # NoRef
    /\ Becomes(s, [session[s] EXCEPT !.status = "suspended"])

\* Nobody knows whether the prompt was taken.
Orphan(s) ==
    /\ session[s].status \in {"allocated", "active"}
    /\ Becomes(s, [session[s] EXCEPT !.status = "orphaned"])

Close(s) ==
    /\ session[s].status = "suspended"
    /\ Becomes(s, [session[s] EXCEPT !.status = "closed"])

Next == \E s \in Session : \/ Start(s) \/ Continue(s) \/ Activate(s) \/ Bind(s)
                           \/ Suspend(s) \/ Orphan(s) \/ Close(s)

Spec == Init /\ [][Next]_session

=============================================================================
