------------------------------ MODULE AuditLog ------------------------------
(***************************************************************************)
(* What the recomputation server promises its clients, without threads,    *)
(* transactions or crashes: sessions are opened one by one, each under a   *)
(* seed of its own; a claim is recomputed, judged by the threshold in      *)
(* force and logged in one step; and nobody is told of a verdict that is   *)
(* not in the log.  Rows are never changed.                                *)
(***************************************************************************)

CONSTANTS Requests,             \* [prompt, temperature] of a session
          Seeds,
          Claims,               \* texts a client may claim, besides what it was served
          Lengths,              \* lengths a client may ask for
          Taus,                 \* thresholds
          SessionIds, LogIds,
          Served(_, _),         \* of a session and a length: the output served
          Verdict(_, _, _, _)   \* of a session's id, the session, a claim and a threshold: the row

VARIABLES opened,  \* id -> session
          log,     \* id -> row
          tau,     \* the threshold in force
          told     \* what clients were told

auditVars == <<opened, log, tau, told>>

\* What was in a table stays; id is new.
Appended(table, grown, id) ==
  /\ id \notin DOMAIN table
  /\ DOMAIN grown = DOMAIN table \cup {id}
  /\ \A i \in DOMAIN table : grown[i] = table[i]

Claimed == Claims \cup {a.output : a \in {b \in told : b.kind = "output"}}

Init == opened = <<>> /\ log = <<>> /\ tau \in Taus /\ told = {}

Open(id) ==
  /\ Appended(opened, opened', id)
  /\ \E req \in Requests, seed \in Seeds :
       /\ \A i \in DOMAIN opened : opened[i].issued_seed # seed
       /\ opened'[id] = [prompt |-> req.prompt, issued_seed |-> seed, temperature |-> req.temperature]
  /\ UNCHANGED <<log, tau, told>>

Judge(id) ==
  /\ Appended(log, log', id)
  /\ \E session_id \in DOMAIN opened, claimed \in Claimed :
       log'[id] = Verdict(session_id, opened[session_id], claimed, tau)
  /\ UNCHANGED <<opened, tau, told>>

\* A verdict told is that of a row in the log, an output that of a session opened.
Answer(a) ==
  /\ \/ \E id \in DOMAIN log :
          a = [kind |-> "verdict", id |-> id, passed |-> log[id].passed,
               low_confidence |-> log[id].low_confidence, tau_used |-> tau]
     \/ \E id \in DOMAIN opened, max_tokens \in Lengths :
          a = [kind |-> "output", id |-> id, output |-> Served(opened[id], max_tokens)]
  /\ told' = told \cup {a}
  /\ UNCHANGED <<opened, log, tau>>

Restart(t) == tau' = t /\ UNCHANGED <<opened, log, told>>

Next ==
  \/ \E id \in SessionIds : Open(id)
  \/ \E id \in LogIds : Judge(id)
  \/ \E a \in told' \ told : Answer(a)
  \/ \E t \in Taus : Restart(t)

Spec == Init /\ [][Next]_auditVars
=============================================================================
