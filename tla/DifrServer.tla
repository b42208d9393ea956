----------------------------- MODULE DifrServer -----------------------------
(***************************************************************************)
(* server.py over db.py: the recomputation server.  Handlers run in a pool *)
(* of threads, each with connections of its own; a handler reads a         *)
(* session, computes, inserts, commits and answers, and others run in      *)
(* between.  The server may be killed and started again, with another      *)
(* tau.txt; tables and their SERIAL counters survive.                      *)
(*                                                                         *)
(* A request that names no session, or whose text holds a character that   *)
(* is not in the vocabulary, ends in an exception before anything is       *)
(* written: it changes nothing and is not an action.                       *)
(***************************************************************************)
EXTENDS Difr

CONSTANTS Workers,     \* threads that serve requests
          Chars,       \* characters a request may hold
          STOI, ITOS,  \* vocab.pkl
          Requests,    \* [prompt, temperature] of session/start
          Claims,      \* what is sent to verify, besides what the prover answered
          Lengths,     \* max_tokens of prover/generate
          Taus,        \* what tau.txt may hold, and the placeholder without it
          Digits,      \* REAL keeps this many parts of the unit
          MaxSessions, MaxVerifications, MaxRestarts   \* bounds on the SERIALs and on crashes

Texts == {s \in Seq(Chars) : Len(s) <= MaxText}

ASSUME ServerAssumption ==
  /\ STOI \in [DOMAIN STOI -> Vocab] /\ DOMAIN STOI \subseteq Chars
  /\ ITOS \in [Vocab -> DOMAIN STOI]
  /\ \A c \in DOMAIN STOI : ITOS[STOI[c]] = c
  /\ \A t \in Vocab : STOI[ITOS[t]] = t
  /\ Requests \subseteq [prompt : Texts, temperature : Temperatures]
  /\ Claims \subseteq Texts /\ Lengths \subseteq 0..MaxText /\ Taus \subseteq Nat
  /\ Digits \in Nat \ {0}
  /\ MaxSessions \in Nat /\ MaxVerifications \in Nat /\ MaxRestarts \in Nat

VARIABLES sessions,            \* id -> row
          verifications,       \* id -> row
          session_serial, verification_serial,
          TAU,                 \* the server's global
          worker,              \* what each thread holds between two steps
          answers,             \* history: what clients were told
          restarts

tables == <<sessions, verifications, session_serial, verification_serial>>
vars == <<tables, TAU, worker, answers, restarts>>

-----------------------------------------------------------------------------

Known(text) == \A i \in 1..Len(text) : text[i] \in DOMAIN STOI
encode(text) == [i \in 1..Len(text) |-> STOI[text[i]]]
decode(tokens) == [i \in 1..Len(tokens) |-> ITOS[tokens[i]]]

\* A REAL column keeps fewer digits than the double that is stored into it.
REAL(a, b) == IF b = 0 THEN 0 ELSE (a * Digits) \div b

\* INSERT, visible from its commit on.
Put(table, id, row) == [i \in DOMAIN table \cup {id} |-> IF i = id THEN row ELSE table[i]]

Idle == [at |-> "idle"]

Init ==
  /\ sessions = <<>> /\ verifications = <<>>
  /\ session_serial = 0 /\ verification_serial = 0
  /\ TAU \in Taus
  /\ worker = [w \in Workers |-> Idle]
  /\ answers = {}
  /\ restarts = 0

-----------------------------------------------------------------------------
(* /session/start *)

Drawn == {sessions[id].issued_seed : id \in DOMAIN sessions}
         \cup {worker[v].row.issued_seed : v \in {u \in Workers : worker[u].at = "commit session"}}

\* The seed is drawn here (randbits(63) draws none twice); INSERT ... RETURNING id
\* takes the next id.
start_session(w, req, seed) ==
  /\ worker[w] = Idle
  /\ seed \notin Drawn
  /\ session_serial < MaxSessions
  /\ session_serial' = session_serial + 1
  /\ worker' = [worker EXCEPT ![w] =
       [at |-> "commit session", id |-> session_serial + 1,
        row |-> [prompt |-> req.prompt, issued_seed |-> seed, temperature |-> req.temperature]]]
  /\ UNCHANGED <<sessions, verifications, verification_serial, TAU, answers, restarts>>

CommitSession(w) ==
  /\ worker[w].at = "commit session"
  /\ sessions' = Put(sessions, worker[w].id, worker[w].row)
  /\ worker' = [worker EXCEPT ![w] = Idle]
  /\ UNCHANGED <<verifications, session_serial, verification_serial, TAU, answers, restarts>>

-----------------------------------------------------------------------------
(* /prover/generate *)

\* What the loop yields for a session.
Served(s, max_tokens) ==
  decode(generate(encode(s.prompt), s.issued_seed, s.temperature, max_tokens))

\* One read of one row and no write: atomic.
prover_generate(w, id, max_tokens) ==
  /\ worker[w] = Idle
  /\ id \in DOMAIN sessions /\ Known(sessions[id].prompt)
  /\ answers' = answers \cup
       {[kind |-> "output", id |-> id, output |-> Served(sessions[id], max_tokens)]}
  /\ UNCHANGED <<tables, TAU, worker, restarts>>

-----------------------------------------------------------------------------
(* /verify *)

Recomputed(s, claimed) ==
  Recompute(encode(s.prompt), encode(claimed), s.issued_seed, s.temperature)

\* get_session and the recomputation.
verify(w, id, claimed) ==
  /\ worker[w] = Idle
  /\ id \in DOMAIN sessions /\ Known(sessions[id].prompt) /\ Known(claimed)
  /\ worker' = [worker EXCEPT ![w] =
       [at |-> "log", session_id |-> id, claimed_output |-> claimed,
        result |-> Recomputed(sessions[id], claimed)]]
  /\ UNCHANGED <<tables, TAU, answers, restarts>>

\* The verdict under a threshold, and the row it goes into.
VerdictRow(r, tau) ==
  [session_id        |-> r.session_id,
   claimed_output    |-> r.claimed_output,
   avg_deviation     |-> REAL(r.result.total, r.result.n_tokens),
   tau_used          |-> REAL(tau, 1),
   passed            |-> avg_at_most(r.result, tau),
   low_confidence    |-> r.result.low_confidence,
   any_token_clipped |-> r.result.any_clipped]

log_verification(w) ==
  /\ worker[w].at = "log"
  /\ verification_serial < MaxVerifications
  /\ verification_serial' = verification_serial + 1
  /\ worker' = [worker EXCEPT ![w] =
       [at |-> "commit verification", id |-> verification_serial + 1,
        row |-> VerdictRow(worker[w], TAU)]]
  /\ UNCHANGED <<sessions, verifications, session_serial, TAU, answers, restarts>>

\* The commit forgotten.
CommitForgotten(w) ==
  /\ worker[w].at = "commit verification"
  /\ worker' = [worker EXCEPT ![w] = [at |-> "answer", id |-> worker[w].id, row |-> worker[w].row]]
  /\ UNCHANGED <<tables, TAU, answers, restarts>>

CommitVerification(w) ==
  /\ worker[w].at = "commit verification"
  /\ verifications' = Put(verifications, worker[w].id, worker[w].row)
  /\ worker' = [worker EXCEPT ![w] =
       [at |-> "answer", id |-> worker[w].id, row |-> worker[w].row]]
  /\ UNCHANGED <<sessions, session_serial, verification_serial, TAU, answers, restarts>>

\* The response is put together after the commit and reads TAU once more.
AnswerVerdict(w) ==
  /\ worker[w].at = "answer"
  /\ answers' = answers \cup
       {[kind |-> "verdict", id |-> worker[w].id, passed |-> worker[w].row.passed,
         low_confidence |-> worker[w].row.low_confidence, tau_used |-> TAU]}
  /\ worker' = [worker EXCEPT ![w] = Idle]
  /\ UNCHANGED <<tables, TAU, restarts>>

-----------------------------------------------------------------------------

\* The database fails a commit: the transaction is rolled back, its id is gone.
Rollback(w) ==
  /\ worker[w].at \in {"commit session", "commit verification"}
  /\ worker' = [worker EXCEPT ![w] = Idle]
  /\ UNCHANGED <<tables, TAU, answers, restarts>>

\* The counters start over.
StartupResetsSerials(tau) ==
  /\ restarts < MaxRestarts
  /\ restarts' = restarts + 1
  /\ worker' = [w \in Workers |-> Idle]
  /\ TAU' = tau
  /\ session_serial' = 0 /\ verification_serial' = 0
  /\ UNCHANGED <<sessions, verifications, answers>>

\* The process dies at any point and starts again: requests in flight are gone,
\* init_schema finds its tables, TAU is read anew.
startup(tau) ==
  /\ restarts < MaxRestarts
  /\ restarts' = restarts + 1
  /\ worker' = [w \in Workers |-> Idle]
  /\ TAU' = tau
  /\ UNCHANGED <<tables, answers>>

\* What a client sends to verify: some text, or an output it was given.
Claimed == Claims \cup {a.output : a \in {b \in answers : b.kind = "output"}}

Handle(w) ==
  \/ \E req \in Requests, seed \in Seeds : start_session(w, req, seed)
  \/ CommitSession(w)
  \/ \E id \in DOMAIN sessions, n \in Lengths : prover_generate(w, id, n)
  \/ \E id \in DOMAIN sessions, claimed \in Claimed : verify(w, id, claimed)
  \/ log_verification(w)
  \/ CommitVerification(w)
  \/ AnswerVerdict(w)
  \/ Rollback(w)

Next == (\E w \in Workers : Handle(w)) \/ (\E tau \in Taus : startup(tau))

Spec == Init /\ [][Next]_vars

-----------------------------------------------------------------------------
(* conformity_schema.py: the category of a stored row *)

\* The score looked at before the length.
ClassifyScoreFirst(avg_deviation, tau, tamper_log_valid, low_confidence) ==
  CASE ~ tamper_log_valid -> "MATERIAL_BREACH"
    [] tamper_log_valid /\ avg_deviation <= tau -> "COMPLIANT"
    [] OTHER -> IF low_confidence THEN "INCONCLUSIVE" ELSE "MINOR_DEVIATION"

\* In the order of the code's returns; a score above a tau of zero has no ratio to it
\* and ends in an exception.
classify(avg_deviation, tau, tamper_log_valid, low_confidence) ==
  IF ~ tamper_log_valid THEN "MATERIAL_BREACH"
  ELSE IF low_confidence THEN "INCONCLUSIVE"
  ELSE CASE avg_deviation <= tau             -> "COMPLIANT"
         [] avg_deviation > tau /\ tau = 0   -> "ZeroDivisionError"
         [] tau > 0 /\ avg_deviation > tau /\ avg_deviation <= 3 * tau -> "MINOR_DEVIATION"
         [] tau > 0 /\ avg_deviation > 3 * tau -> "MATERIAL_BREACH"

-----------------------------------------------------------------------------
(* Properties *)

Rows == {verifications[id] : id \in DOMAIN verifications}

\* A claim scores zero exactly when it is what sampling under the seed of its own
\* session yields, whatever other sessions were opened meanwhile: the one batched
\* pass of the verifier sees the windows the prover's loop saw.
ZeroIsHonest ==
  \A w \in Workers : worker[w].at = "log" =>
    (worker[w].result.total = 0
       <=> worker[w].claimed_output =
             Served(sessions[worker[w].session_id], Len(worker[w].claimed_output)))

\* An output the prover served passes, unclipped, whenever it is verified against
\* its session: after restarts, under any tau, with others in flight.
HonestIsPassed ==
  \A a \in answers, row \in Rows :
    a.kind = "output" /\ row.session_id = a.id /\ row.claimed_output = a.output =>
      row.passed /\ ~ row.any_token_clipped /\ row.avg_deviation = 0

\* Whatever a client was told is in the log, and says the same, also when the
\* server has since been killed, commits failed or tau changed.
AnswersAreLogged ==
  \A a \in answers :
    /\ a.kind = "output" => a.id \in DOMAIN sessions
    /\ a.kind = "verdict" =>
         /\ a.id \in DOMAIN verifications
         /\ verifications[a.id].passed = a.passed
         /\ verifications[a.id].low_confidence = a.low_confidence
         /\ verifications[a.id].tau_used = REAL(a.tau_used, 1)

\* What is told of a stored row from its own columns: short outputs, and only they, are
\* neither cleared nor blamed; a row that passed is compliant; a row that failed is
\* found compliant only when its average and tau, told apart when the verdict was
\* given, are stored as the same REAL.
RowsSupportVerdicts ==
  \A row \in Rows :
    LET category == classify(row.avg_deviation, row.tau_used, TRUE, row.low_confidence) IN
      /\ row.low_confidence <=> category = "INCONCLUSIVE"
      /\ row.passed /\ ~ row.low_confidence => category = "COMPLIANT"
      /\ ~ row.passed /\ category = "COMPLIANT" => row.avg_deviation = row.tau_used

-----------------------------------------------------------------------------
(* The promise *)

\* The row that a verification taken in one step would log.
Verdict(id, s, claimed, tau) ==
  VerdictRow([session_id |-> id, claimed_output |-> claimed, result |-> Recomputed(s, claimed)], tau)

\* Whatever threads run in between, however many commits fail and whenever the server
\* is killed, its tables and answers are those of a server that does each thing at
\* once: a seed is that of one session, a verdict that of its session, its claim and
\* the tau in force, and it is told from the log.
Log == INSTANCE AuditLog
         WITH SessionIds <- 1..MaxSessions, LogIds <- 1..MaxVerifications,
              opened <- sessions, log <- verifications, tau <- TAU, told <- answers
ImplementsAuditLog == Log!Spec
=============================================================================
