--------------------------- MODULE WorkloadApproval ---------------------------
(***************************************************************************)
(* certificate_demo.py and workload_approval.py: what a certificate hash   *)
(* stands for.  A workload is declared in a text of "key: value" lines; an  *)
(* auditor checks its operations against the policy lists, compiles it and  *)
(* approves the hash of the binary; whoever holds a binary has its hash and *)
(* its seed checked by the registry.  ReleaseChain is what happens to the   *)
(* hashes from there.                                                      *)
(*                                                                         *)
(* A line is [key, value, plain]: plain is false for a line that has a      *)
(* brace or the word "workload" in it, which the parser skips.  A value is  *)
(* the sequence of its comma-separated items.                               *)
(*                                                                         *)
(* The generated C source is what its main reads, each field with the text  *)
(* that is pasted into it: names and identifiers between the quotes of a    *)
(* string literal, the bound as the initializer of an int.  What gcc makes  *)
(* of it is not the program's: an escape in a literal or a bound that no    *)
(* int holds lets different sources become one binary, and what is not C    *)
(* becomes none.                                                           *)
(***************************************************************************)
EXTENDS ReleaseChain

CONSTANTS Texts,      \* the declarations that may be submitted
          Blacklist,  \* POLICY_BLACKLIST
          Goldlist,   \* POLICY_GOLDLIST
          Binaries,   \* everything that may be run, compiled here or not
          sha256,     \* their hashes
          gcc(_),     \* the compiler, from a C source to a binary or CompileError
          AsWritten   \* the texts C reads as written: no quote, backslash or line break
                      \* in a value, the bound a decimal numeral, no zero before it, that an int holds

\* An item with nothing in it; what an absent line stands for.
Blank == ""

ASSUME HashAssumption ==
  \A a, b \in Binaries : sha256[a] = sha256[b] => a = b

ASSUME TextAssumption ==
  /\ Texts \subseteq Seq([key : STRING, value : Seq(STRING), plain : BOOLEAN])
  /\ Blank \notin Blacklist

VARIABLE accepted     \* history: the binaries the registry has accepted

certVars == <<vars, accepted>>

-----------------------------------------------------------------------------
(* The declaration and its compilers *)

\* A later line for the same key replaces an earlier one.
parse_dsl(source) ==
  LET kept == {i \in DOMAIN source : source[i].plain}
      last(k) == CHOOSE i \in kept : /\ source[i].key = k
                                     /\ \A j \in kept : source[j].key = k => j <= i
  IN  [k \in {source[i].key : i \in kept} |-> source[last(k)].value]

get(fields, k, default) == IF k \in DOMAIN fields THEN fields[k] ELSE default

\* Blank items are dropped, order and repetition are lost.
parse_op_list(fields, k) == ToSet(get(fields, k, <<Blank>>)) \ {Blank}

\* Only the blacklist.
BlacklistOnly(fields) == parse_op_list(fields, "allowed_ops") \cap Blacklist = {}

check_against_policy(fields) ==
  LET declared == parse_op_list(fields, "allowed_ops")
  IN  declared \cap Blacklist = {} /\ Goldlist \subseteq declared

\* The first generator pastes the operations as they were listed.
compile_to_c(fields) ==
  [checkpoint |-> get(fields, "checkpoint_hash", <<Blank>>),
   class |-> get(fields, "operation_class", <<Blank>>),
   max_batch |-> get(fields, "max_batch_size", <<"0">>),
   collectives |-> get(fields, "collective_ops", <<Blank>>),
   op_list |-> get(fields, "allowed_ops", <<Blank>>)]

\* The bounds are constants that main does not read.
DeadBounds(fields) == [allowed |-> parse_op_list(fields, "allowed_ops")]

\* The second sorts them: a set stands for its sorted list.
compile_to_c_v2(fields) ==
  [checkpoint |-> get(fields, "checkpoint_hash", <<Blank>>),
   class |-> get(fields, "operation_class", <<Blank>>),
   max_batch |-> get(fields, "max_batch_size", <<"0">>),
   collectives |-> get(fields, "collective_ops", <<Blank>>),
   allowed |-> parse_op_list(fields, "allowed_ops"),
   banned |-> parse_op_list(fields, "banned_ops"),
   required |-> parse_op_list(fields, "required_ops")]

compile_and_certify(source) == gcc(compile_to_c(parse_dsl(source)))

compile_and_certify_v2(source) == gcc(compile_to_c_v2(parse_dsl(source)))

\* check=True: an exception, and no certificate.
CompileError == [error |-> "CalledProcessError"]

\* What becomes of every text: evaluated once.
firstBinary == [source \in Texts |-> compile_and_certify(source)]
binaryOf == [source \in Texts |-> compile_and_certify_v2(source)]

\* Whatever is compiled may be run; and sources that C reads as written keep what
\* main prints of them apart.
ASSUME CompilerAssumption ==
  /\ \A source \in Texts : binaryOf[source] \in Binaries \cup {CompileError}
  /\ AsWritten \subseteq Texts
  /\ \A s, t \in AsWritten :
       /\ binaryOf[s] = binaryOf[t] => compile_to_c_v2(parse_dsl(s)) = compile_to_c_v2(parse_dsl(t))
       /\ firstBinary[s] = firstBinary[t] => compile_to_c(parse_dsl(s)) = compile_to_c(parse_dsl(t))

\* A bit of the binary flipped after it was certified; and one written by hand.
Tampered(binary) == [tampered |-> binary]
RawBypass == [raw |-> "printf"]

-----------------------------------------------------------------------------
(* The registry and those who use it *)

CertInit == Init /\ accepted = {}

\* The auditor's turn: policy, compilation, approval.
Submit(text) ==
  /\ check_against_policy(parse_dsl(text))
  /\ binaryOf[text] # CompileError
  /\ approve(sha256[binaryOf[text]])
  /\ UNCHANGED accepted

\* A holder of a binary has it checked, with the seed it was given or another.
Claim(binary, seed) ==
  /\ check(sha256[binary], seed)
  /\ accepted' = accepted \cup {binary}
  /\ UNCHANGED vars

CertNext ==
  \/ \E text \in Texts : Submit(text)
  \/ \E binary \in Binaries, seed \in Seeds : Claim(binary, seed)
  \/ \E c \in Certs :
       /\ \/ revoke(c)
          \/ \E seed \in Seeds, shards \in Manifests : release(c, seed, shards)
          \/ Fetch(c)
          \/ \E arrived \in Deliveries : receive_and_check(c, arrived)
       /\ UNCHANGED accepted

CertSpec == CertInit /\ [][CertNext]_certVars

-----------------------------------------------------------------------------
(* Properties *)

\* The operations a text allows: those of the last line that is read for them.
Allows(text, op) ==
  \E i \in DOMAIN text :
    /\ text[i].plain /\ text[i].key = "allowed_ops" /\ op \in ToSet(text[i].value)
    /\ \A j \in (i+1)..Len(text) : ~(text[j].plain /\ text[j].key = "allowed_ops")

\* The policy, said of the text.
SatisfiesPolicy(text) ==
  /\ \A op \in Blacklist : ~Allows(text, op)
  /\ \A op \in Goldlist : Allows(text, op)

\* Every accepted binary was compiled from a text that allows every operation of the
\* goldlist and none of the blacklist: one changed or written by hand is never
\* accepted.  If C reads that text as written, no text it reads as written that fails
\* the policy has the same certificate, however lines repeat, replace one another or
\* are skipped.
AcceptedWasDeclared ==
  \A binary \in accepted :
    \E t \in Texts :
      /\ binaryOf[t] = binary /\ SatisfiesPolicy(t)
      /\ t \in AsWritten =>
           \A s \in AsWritten : binaryOf[s] = binary => SatisfiesPolicy(s)

\* The value of the last line that is read for a key, a default if there is none.
ValueRead(text, k) ==
  LET read == {i \in DOMAIN text : text[i].plain /\ text[i].key = k}
  IN  IF read = {} THEN IF k = "max_batch_size" THEN <<"0">> ELSE <<Blank>>
      ELSE text[CHOOSE i \in read : \A j \in read : j <= i].value

\* What certifies s and t says the same of both: the binary that was accepted, or
\* what the first compiler makes of them.
SameCertificate(s, t, binary) ==
  binaryOf[s] = binary /\ (binaryOf[t] = binary \/ firstBinary[t] = firstBinary[s])

SameBounds(s, t) ==
  \A k \in {"checkpoint_hash", "operation_class", "max_batch_size", "collective_ops"} :
    ValueRead(s, k) = ValueRead(t, k)

\* Among the texts C reads as written, an accepted binary stands for one checkpoint,
\* one class, one batch bound and one use of collectives: texts that differ in one of
\* them have different certificates, from either compiler (an unread constant made
\* them equal once).
CertificatePinsBounds ==
  \A binary \in accepted : \A s, t \in AsWritten :
    SameCertificate(s, t, binary) => SameBounds(s, t)
=============================================================================
