---------------------------- MODULE TapRegistry ----------------------------
(***************************************************************************)
(* tap_registry_demo.py: taps are installed with a seal whose serial       *)
(* number goes into a tamper-evident log, and inspections log the serial   *)
(* they observe.  Whoever bypasses a tap and leaves another seal behind,   *)
(* and the inspector who compares the seal with the log, stand outside the *)
(* program.  The log may be edited, signed with other keys, forged or cut  *)
(* at any time.                                                            *)
(***************************************************************************)
EXTENDS TamperLog, FiniteSets

CONSTANTS Taps, Serials

VARIABLES on_tap,   \* the serial of the seal on each installed tap
          recorded, \* history: the serial each tap was installed with
          found     \* history: taps on which an inspector saw another serial

registryVars == <<vars, on_tap, recorded, found>>

install(tap, serial) == [event |-> "install", tap_id |-> tap, seal_serial |-> serial]

inspection(tap, serial, matches) ==
  [event |-> "inspection", tap_id |-> tap, seal_serial_observed |-> serial, matches_registry |-> matches]

RegistryPayloads ==
  {install(t, s) : t \in Taps, s \in Serials} \cup {inspection(t, s, m) : t \in Taps, s \in Serials, m \in BOOLEAN}

ASSUME RegistryAssumption == Payloads \subseteq RegistryPayloads

\* A log nothing was lost from: it starts at index 0 and holds as many entries
\* after that as were appended.
Whole == Len(entries) = Cardinality(appended) + 1 /\ entries[1].index = 0

-----------------------------------------------------------------------------

RegistryInit ==
  Init /\ on_tap = <<>> /\ recorded = <<>> /\ found = {}

Install(tap, serial) ==
  /\ tap \notin DOMAIN on_tap
  /\ append(install(tap, serial))
  /\ on_tap' = [t \in DOMAIN on_tap \cup {tap} |-> IF t = tap THEN serial ELSE on_tap[t]]
  /\ recorded' = [t \in DOMAIN recorded \cup {tap} |-> IF t = tap THEN serial ELSE recorded[t]]
  /\ UNCHANGED found

\* Not the program's: the tap is disturbed, and what is on it from then on is not
\* the seal it was installed with.
Bypass(tap) ==
  /\ tap \in DOMAIN on_tap
  /\ \E s \in Serials \ {recorded[tap]} : on_tap' = [on_tap EXCEPT ![tap] = s]
  /\ UNCHANGED <<vars, recorded, found>>

\* Not the program's either (the demo logs a literal False): the inspector looks for
\* the serial seen among the installations on file.
OnFile(tap) == \E i \in 2..Len(entries) : entries[i].payload = install(tap, on_tap[tap])

\* The inspector copies the serial from the file.
InspectReportsMatch(tap) ==
  /\ tap \in DOMAIN on_tap
  /\ append(inspection(tap, recorded[tap], TRUE))
  /\ found' = IF on_tap[tap] = recorded[tap] THEN found ELSE found \cup {tap}
  /\ UNCHANGED <<on_tap, recorded>>

Inspect(tap) ==
  /\ tap \in DOMAIN on_tap
  /\ append(inspection(tap, on_tap[tap], OnFile(tap)))
  /\ found' = IF on_tap[tap] = recorded[tap] THEN found ELSE found \cup {tap}
  /\ UNCHANGED <<on_tap, recorded>>

Tamper == Touch /\ UNCHANGED <<on_tap, recorded, found>>

RegistryNext ==
  \/ \E t \in Taps : Bypass(t) \/ Inspect(t) \/ \E s \in Serials : Install(t, s)
  \/ Tamper

RegistrySpec == RegistryInit /\ [][RegistryNext]_registryVars

-----------------------------------------------------------------------------
(* Property *)

\* What an inspector has seen cannot be talked away: a whole log that verifies
\* names, for every tap found with another seal, the serial it was installed with
\* and the one observed, whatever was edited ("covering physical tampering by also
\* tampering with the paper trail").
FindingsSurvive ==
  verify_integrity /\ Whole =>
    \A t \in found : \E i, j \in 2..Len(entries), s, o \in Serials :
      /\ s # o
      /\ entries[i].payload = install(t, s)
      /\ \E m \in BOOLEAN : entries[j].payload = inspection(t, o, m)
=============================================================================
