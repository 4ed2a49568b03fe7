--------------------------- MODULE InstalledAgent ---------------------------
(***************************************************************************)
(* What updating an endpoint agent promises, whatever is interrupted: the  *)
(* installed program only ever changes to a newer released version, or     *)
(* back to the one it replaced.                                            *)
(***************************************************************************)
EXTENDS Integers

CONSTANTS Versions, Nothing

VARIABLES
  installed,   \* the version on the host
  fallback,    \* the version a rollback would restore, or Nothing
  released     \* the versions an administrator has approved

programVars == <<installed, fallback, released>>

ProgramInit == installed = 1 /\ fallback = Nothing /\ released = {}

Publish(v) == released' = released \cup {v} /\ UNCHANGED <<installed, fallback>>
Upgrade(v) ==
  /\ v \in released /\ v > installed
  /\ installed' = v /\ fallback' = installed /\ UNCHANGED released
Restore ==
  /\ fallback # Nothing
  /\ installed' = fallback /\ fallback' = Nothing /\ UNCHANGED released
Settle == fallback' = Nothing /\ UNCHANGED <<installed, released>>

ProgramNext == Restore \/ Settle \/ \E v \in Versions : Publish(v) \/ Upgrade(v)

ProgramSpec == ProgramInit /\ [][ProgramNext]_programVars
=============================================================================
