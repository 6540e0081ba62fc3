---------------------------- MODULE DurableStore ----------------------------
(***************************************************************************)
(* What the config promises its callers: a value in memory that changes,   *)
(* and a copy on disk that only ever moves forward to values the memory    *)
(* had, and that the next start comes back with.  Versions number the      *)
(* states of the config; 0 is the default config.                          *)
(***************************************************************************)
EXTENDS Naturals

VARIABLES mem, disk, up

dvars == <<mem, disk, up>>

DInit == mem = 0 /\ disk = 0 /\ up = FALSE

Change ==
  /\ up
  /\ mem' = mem + 1
  /\ UNCHANGED <<disk, up>>

Persist ==
  /\ up
  /\ disk' \in disk..mem
  /\ UNCHANGED <<mem, up>>

Stop ==
  /\ up
  /\ up' = FALSE
  /\ UNCHANGED <<mem, disk>>

Start ==
  /\ ~up
  /\ up' = TRUE
  /\ mem' = disk
  /\ UNCHANGED disk

(* While the program is down its file may be replaced from outside. *)
Replace ==
  /\ ~up
  /\ disk' \in Nat
  /\ UNCHANGED <<mem, up>>

DNext == Change \/ Persist \/ Stop \/ Start \/ Replace

DSpec == DInit /\ [][DNext]_dvars
=============================================================================
