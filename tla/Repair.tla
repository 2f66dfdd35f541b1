------------------------------- MODULE Repair -------------------------------
(***************************************************************************)
(* scripts/repair-totals.mjs beside the indexer (ChainIndexer.tla): an     *)
(* operator recomputes the totals of the positions from the events table,  *)
(* looks at the differences, and writes the totals that drifted.  Its      *)
(* three calls of D1 are processes of their own, and nothing stops the     *)
(* indexer meanwhile.                                                      *)
(***************************************************************************)
EXTENDS ChainIndexer

VARIABLES
  repair,    \* what the script has in memory, or None: the totals wanted, the
             \* rows that drifted, and whether D1 is still what it read
  repaired   \* history: the totals were repaired, and it has been calm since

repairVars == <<repair, repaired>>

RepairInit == Init /\ repair = None /\ repaired = FALSE

(* Faulty: on top of what the row says.                                    *)
WantOnTop(i) ==
  IF \A b \in DOMAIN events : events[b] = None \/ events[b].id # i THEN None
  ELSE (IF positions[i] = None THEN 0 ELSE positions[i].total)
         + Cardinality(Recorded("changed", i) \cup Recorded("closed", i))

(* What the events say of a position, if there are any.                    *)
Want(i) ==
  IF \A b \in DOMAIN events : events[b] = None \/ events[b].id # i THEN None
  ELSE Cardinality(Recorded("changed", i) \cup Recorded("closed", i))

ReadEvents ==
  /\ repair = None
  /\ Disturbed
  /\ repair' = [pc |-> "read", want |-> [i \in Ids |-> Want(i)], drift |-> {}, alone |-> TRUE]
  /\ UNCHANGED <<chain, final, storage, d1, page, repaired>>

(* The rows that differ, totals or bins.  Without one, or without --yes, that is all.      *)
Diff ==
  /\ repair # None
  /\ repair.pc = "read"
  /\ LET drift == {i \in Ids : positions[i] # None /\ repair.want[i] # None
                                 /\ positions[i].total # repair.want[i]}
     IN \/ repair' = [repair EXCEPT !.pc = "write", !.drift = drift] /\ drift # {}
        \/ repair' = None
  /\ UNCHANGED <<vars, repaired>>

AtWork == {w \in Workers : page[w].pc # "idle"}

(* No two pages at once, no event whose position D1 does not know by its   *)
(* open, and nothing recorded that was reorganised away.                   *)
Calm ==
  /\ \A v, w \in AtWork : v = w
  /\ \A w \in AtWork : page[w].pc = "load" => positions[page[w].log[page[w].at].id] # None
  /\ \A i \in Ids : positions[i] # None <=> Recorded("opened", i) # {}
  /\ \A b \in DOMAIN events : events[b] # None => positions[events[b].id] # None
  /\ EventsReal

(* The updates, one file.  A page under way has read what they replace.    *)
WriteTotals ==
  /\ repair # None
  /\ repair.pc = "write"
  /\ positions' = [i \in Ids |->
       IF i \in repair.drift /\ positions[i] # None
       THEN [positions[i] EXCEPT !.total = repair.want[i]] ELSE positions[i]]
  /\ repaired' = (repair.alone /\ AtWork = {} /\ Calm)
  /\ repair' = None
  /\ UNCHANGED <<chain, final, storage, events, page, disturbances>>

(* A batch of the indexer overtakes what a repair has read.                *)
Beside ==
  /\ Next
  /\ repair' = IF repair = None \/ d1' = d1 THEN repair ELSE [repair EXCEPT !.alone = FALSE]
  /\ repaired' = (repaired /\ Calm')

RepairNext ==
  \/ Beside
  \/ ReadEvents
  \/ Diff
  \/ WriteTotals

RepairSpec == RepairInit /\ [][RepairNext]_<<vars, repairVars>> /\ Fairness

-----------------------------------------------------------------------------
(* "The events table is the dedup'd source of truth": however the totals   *)
(* drifted - posts that overlapped a poll, or that came too early - a      *)
(* repair that no page of the indexer overlaps puts them right, and the    *)
(* pages after it keep them so for as long as they neither overlap, come   *)
(* early nor are reorganised away.                                         *)
RepairExact ==
  repaired =>
    \A i \in Ids :
      positions[i] # None =>
        positions[i].total = Cardinality(Recorded("changed", i) \cup Recorded("closed", i))
=============================================================================
