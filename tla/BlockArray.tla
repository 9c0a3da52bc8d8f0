----------------------------- MODULE BlockArray -----------------------------
(***************************************************************************)
(* What the sector layer promises to the CP/M file system: an array of     *)
(* blocks beside an untouched boot area.  A job reads or writes some       *)
(* sectors of one block in order and can fail before any of them; no other *)
(* block changes.  A sector the image is too short for is Absent and gets  *)
(* a Filler when something behind it is written.  CpmFs relies on this:    *)
(* its StoreBlock stores a block as a whole, or loses it, and nothing else *)
(* changes.                                                                *)
(***************************************************************************)
EXTENDS Integers

CONSTANTS Absent, Filler

VARIABLES
  blocks,     \* the sectors of every block
  boot,       \* the sectors in front of the first block
  job         \* the block being read or written, and how far

vars == <<blocks, boot, job>>

Idle == job.kind = "none"
Failed == job.kind = "failed"

Kept(old, new) == new = old \/ (old = Absent /\ new = Filler)

BootKept ==
  /\ DOMAIN boot' = DOMAIN boot
  /\ \A i \in DOMAIN boot : Kept(boot[i], boot'[i])

\* Nothing but sector i of block b changes.
OthersKept(b, i) ==
  /\ DOMAIN blocks' = DOMAIN blocks
  /\ \A c \in DOMAIN blocks :
       /\ DOMAIN blocks'[c] = DOMAIN blocks[c]
       /\ \A k \in DOMAIN blocks[c] :
            <<c, k>> # <<b, i>> => Kept(blocks[c][k], blocks'[c][k])
  /\ BootKept

Init == Idle

\* The definition is chosen and with it the blocks there are.
Mount == Idle /\ blocks = <<>> /\ job' = job

Begin ==
  /\ Idle
  /\ job'.kind \in {"read", "write"}
  /\ UNCHANGED <<blocks, boot>>

At(kind, at, buffer) ==
  [kind |-> kind, block |-> job.block, at |-> at, buffer |-> buffer]

Advanced(buffer) ==
  job' \in {At(job.kind, job.at + 1, buffer), At("done", job.at + 1, buffer)}

Skip ==
  /\ job.kind \in {"read", "write"}
  /\ Advanced(job.buffer)
  /\ UNCHANGED <<blocks, boot>>

Read ==
  /\ job.kind = "read"
  /\ blocks[job.block][job.at] # Absent
  /\ Advanced([job.buffer EXCEPT ![job.at] = blocks[job.block][job.at]])
  /\ UNCHANGED <<blocks, boot>>

Write ==
  /\ job.kind = "write"
  /\ OthersKept(job.block, job.at)
  /\ blocks'[job.block][job.at] = job.buffer[job.at]
  /\ Advanced(job.buffer)

\* Giving up loses nothing that was stored.
Fail ==
  /\ job.kind \in {"read", "write"}
  /\ job' = At("failed", job.at, job.buffer)
  /\ OthersKept(job.block, job.at)
  /\ Kept(blocks[job.block][job.at], blocks'[job.block][job.at])

Refuse == Idle /\ job'.kind = "failed" /\ UNCHANGED <<blocks, boot>>

Return ==
  /\ job.kind \in {"done", "failed"}
  /\ job'.kind = "none"
  /\ UNCHANGED <<blocks, boot>>

Next ==
  Mount \/ Begin \/ Skip \/ Read \/ Write \/ Fail \/ Refuse \/ Return

Spec == Init /\ [][Next]_vars

=============================================================================
