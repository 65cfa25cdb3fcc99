----------------------------- MODULE MCSettings -----------------------------
(***************************************************************************)
(* HeldCalls and ClientConfig for TLC, with 0.25 s as the unit of time.    *)
(* The two share no variable and no property relates them: a behaviour     *)
(* runs one of them, its subject, and leaves the other alone.              *)
(***************************************************************************)
EXTENDS HeldCalls, ClientConfig

VARIABLE subject

SettingsInit ==
  /\ Init /\ ConfigInit
  /\ subject \in {"calls", "configuration"}

CallsStep ==
  /\ subject = "calls" /\ Next
  /\ UNCHANGED <<configVars, subject>>

ConfigurationStep ==
  /\ subject = "configuration" /\ ConfigNext
  /\ UNCHANGED <<vars, subject>>

SettingsNext == CallsStep \/ ConfigurationStep

SettingsSpec == SettingsInit /\ [][SettingsNext]_<<vars, configVars, subject>>
=============================================================================
