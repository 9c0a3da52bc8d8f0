------------------------------ MODULE SavedDisk ------------------------------
(***************************************************************************)
(* What an image kept in memory between opening and closing promises: the  *)
(* disk is what the file holds when it is opened, then what was written to *)
(* it, and a close that reports success leaves all of it in the file.  A   *)
(* sector the image records an error for is Bad: what is written to it is  *)
(* accepted and may be lost.                                               *)
(***************************************************************************)
CONSTANTS Contents, Absent, Bad, Nothing, InDoubt

VARIABLES
  disk,      \* sector -> what reading it gives, while the image is open
  saved,     \* what opening the file would give; InDoubt while it is written
  phase,     \* "closed", "open" or "saving"
  reply,     \* how the last call of open or close ended
  failed     \* writing the file failed at some point of this close

vars == <<phase, reply, failed, saved, disk>>

Closed == phase = "closed"

\* Everything that can be read of a disk is in the other one, and nothing else
\* has turned up there.
Kept(old, new) ==
  /\ new # Nothing
  /\ DOMAIN new = DOMAIN old
  /\ \A s \in DOMAIN old :
       /\ old[s] \in Contents => new[s] = old[s]
       /\ old[s] = Absent <=> new[s] = Absent

\* One sector that can be read has other contents.
Written(old, new) ==
  \E s \in DOMAIN old :
    old[s] \in Contents /\ new[s] \in Contents /\ new = [old EXCEPT ![s] = new[s]]

Init == Closed /\ disk = Nothing /\ saved # InDoubt

Open ==
  /\ Closed
  /\ phase' = "open" /\ reply' = "ok"
  /\ saved # Nothing /\ disk' = saved
  /\ UNCHANGED <<saved, failed>>

OpenFails == Closed /\ reply' = "error" /\ UNCHANGED <<phase, failed, saved, disk>>

Write ==
  /\ phase = "open"
  /\ UNCHANGED <<phase, reply, failed>>
  /\ Written(disk, disk')
  /\ UNCHANGED saved

Leave == phase' = "closed" /\ disk' = Nothing

\* Nothing was written, so nothing is saved; or the file cannot be opened, or
\* not begun.
CloseUnsaved ==
  /\ phase = "open"
  /\ Leave
  /\ failed' = failed
  /\ \/ reply' = "ok" /\ saved' = saved /\ Kept(disk, saved)
     \/ reply' = "error" /\ saved' \in {saved, Nothing}

\* The file is made anew.
BeginSave ==
  /\ phase = "open"
  /\ phase' = "saving" /\ saved' = InDoubt
  /\ UNCHANGED <<reply, failed, disk>>

SaveFails ==
  /\ phase = "saving"
  /\ phase' = "saving" /\ failed' = TRUE
  /\ UNCHANGED <<reply, saved, disk>>

EndSave ==
  /\ phase = "saving"
  /\ Leave
  /\ saved' # InDoubt /\ failed' = FALSE
  /\ ~ failed /\ reply' = "ok" => Kept(disk, saved')

\* The process dies: a file being written is lost, no other.
Crash ==
  /\ Leave
  /\ saved' # InDoubt
  /\ phase # "saving" => saved' = saved
  /\ failed' = FALSE /\ reply' = "crashed"

Replace ==
  /\ Closed
  /\ saved' # InDoubt
  /\ UNCHANGED <<phase, reply, failed, disk>>

Next ==
  \/ Open \/ OpenFails \/ Write \/ CloseUnsaved \/ BeginSave \/ SaveFails
  \/ EndSave \/ Crash \/ Replace

Spec == Init /\ [][Next]_vars
==============================================================================
