--------------------------- MODULE PackTransaction ---------------------------
(***************************************************************************)
(* PackFiles of cpmimg_wcx.cpp: the files to add are loaded, the image is  *)
(* copied (or a new one formatted) beside it, the copy is mounted, changed,*)
(* closed, verified by reading every file back, and only then put in the   *)
(* image's place.  Anything can fail, the process can die between any two  *)
(* steps, and another program may use the image's path at the same time.   *)
(*                                                                         *)
(* Total Commander runs one plugin call at a time (GetBackgroundFlags      *)
(* returns 0).  What the mounted file system does inside is CpmFs; here an *)
(* image is the format it really has and the data of each file in it.      *)
(***************************************************************************)
EXTENDS Integers, FiniteSets

CONSTANTS
  Names,        \* CP/M file names
  Values,       \* file contents
  Formats,      \* diskdefs entries
  Temps,        \* names make_transaction_candidate can come up with
  Missing,      \* no file at a path
  ConfigFormat, \* image_format of the configuration
  DevFails      \* the device may damage what it stores and not report it

VARIABLES
  target,    \* the image at the path PackedFile
  temps,     \* the transaction images beside it
  formats,   \* session_image_formats_by_archive
  default,   \* session_default_image_format
  pc,        \* where PackFiles is
  call,      \* its parameters and local variables
  orphans,   \* transaction images left behind, by a crash for example
  preserved, \* transaction images kept because the commit failed
  others     \* history: another program changed the image "now" (in this call or
             \* since the last one), in the "past", or not since the last commit

vars == <<target, temps, formats, default, pc, call, orphans, preserved, others>>

Absent   == "absent"
Damaged  == "damaged"
NoFormat == "none"

Contents == Values \cup {Absent, Damaged}

\* A file that was created but not formatted yet has no format.
Image == [fmt: Formats \cup {NoFormat}, files: [Names -> Contents]]

ASSUME PackAssumption ==
  /\ ConfigFormat \in Formats
  /\ {Absent, Damaged} \cap Values = {}
  /\ NoFormat \notin Formats
  /\ DevFails \in BOOLEAN
  /\ Missing \notin Temps /\ Missing \notin Image

Pending == [Names -> Values \cup {Absent}]

\* The archive keys of the session cache: the image and the transaction images.
Keys == Temps \cup {Missing}
TargetKey == Missing

Steps == {"idle", "prepare", "create", "mount", "write", "verify", "commit"}

\* pend: pending_files; existed: packed_file_exists; fmt: image_format;
\* temp: transaction_path; todo: what is still to be written.
NoCall == [pend |-> [n \in Names |-> Absent]]
Call == [pend: Pending, existed: BOOLEAN, fmt: Formats, temp: Temps \cup {Missing},
         todo: SUBSET Names]

TypeOK ==
  /\ target \in Image \cup {Missing}
  /\ temps \in [Temps -> Image \cup {Missing}]
  /\ formats \in [Keys -> Formats \cup {NoFormat}]
  /\ default \in Formats \cup {NoFormat}
  /\ pc \in Steps
  /\ call \in Call \cup {NoCall}
  /\ orphans \subseteq Temps
  /\ preserved \subseteq Temps
  /\ others \in {"none", "past", "now"}

Listed(p) == {n \in Names : p[n] # Absent}

EmptyImage(f) == [fmt |-> f, files |-> [n \in Names |-> Absent]]

\* Images found at the path when the session starts or put there by others.
Found == {m \in Image : /\ m.fmt \in Formats
                        /\ \A n \in Names : m.files[n] # Damaged}

NoFormats == [k \in Keys |-> NoFormat]

Init ==
  /\ target \in Found \cup {Missing}
  /\ temps = [t \in Temps |-> Missing]
  /\ formats = NoFormats
  /\ default = NoFormat
  /\ pc = "idle"
  /\ call = NoCall
  /\ orphans = {}
  /\ preserved = {}
  /\ others = "none"

------------------------------------------------------------------------------
\* effective_image_format_for_archive.
Effective(k) ==
  IF formats[k] # NoFormat THEN formats[k]
  ELSE IF default # NoFormat THEN default ELSE ConfigFormat

Forget(k) == [formats EXCEPT ![k] = NoFormat]

Return_MUT_KeepTemp ==
  /\ formats' = IF call.temp = Missing THEN formats ELSE Forget(call.temp)
  /\ pc' = "idle"
  /\ call' = NoCall
  /\ UNCHANGED <<target, temps, default, orphans, preserved, others>>

Return_MUT_KeepFormat ==
  /\ temps' = [t \in Temps |-> IF t = call.temp THEN Missing ELSE temps[t]]
  /\ pc' = "idle"
  /\ call' = NoCall
  /\ UNCHANGED <<target, formats, default, orphans, preserved, others>>

\* An early return: the guard forgets the transaction image's format and
\* deletes the image (the mounted copy was unmounted before).  DeleteFile's
\* result is ignored: a program that holds the file open makes it stay.
Return ==
  /\ \E left \in SUBSET ({call.temp} \cap Temps) :
       /\ temps' = [t \in Temps |-> IF t = call.temp /\ t \notin left
                                   THEN Missing ELSE temps[t]]
       /\ orphans' = orphans \cup left
  /\ formats' = IF call.temp = Missing THEN formats ELSE Forget(call.temp)
  /\ pc' = "idle"
  /\ call' = NoCall
  /\ UNCHANGED <<target, default, preserved, others>>

\* The archive is opened or listed first: whole_disk_t mounts it, after a
\* dialog or a probe when the effective format does not fit, and then keeps
\* the format found for this image, optionally for the session too.
OpenArchive ==
  /\ pc = "idle" /\ target # Missing
  /\ Effective(TargetKey) # target.fmt
  /\ formats' = [formats EXCEPT ![TargetKey] = target.fmt]
  /\ default' \in {default, target.fmt}
  /\ UNCHANGED <<target, temps, pc, call, orphans, preserved, others>>

\* The format is read before anything else; then the files are loaded and the
\* image is looked for.  With nothing to add to an image the call is over.
PackFiles(p) ==
  /\ pc = "idle"
  /\ Listed(p) # {} \/ target = Missing
  /\ pc' = "prepare"
  /\ call' = [pend |-> p, existed |-> target # Missing,
              fmt |-> Effective(TargetKey), temp |-> Missing, todo |-> Listed(p)]
  /\ others' = IF others = "now" THEN "past" ELSE others
  /\ UNCHANGED <<target, temps, formats, default, orphans, preserved>>

\* prepare_transaction_image with a name that is free, and its format noted.
Prepare(t) ==
  /\ pc = "prepare"
  /\ temps[t] = Missing
  /\ call.existed => target # Missing
  /\ temps' = [temps EXCEPT ![t] =
                 IF call.existed THEN target ELSE EmptyImage(NoFormat)]
  /\ formats' = [formats EXCEPT ![t] = call.fmt]
  /\ call' = [call EXCEPT !.temp = t]
  /\ pc' = IF call.existed THEN "mount" ELSE "create"
  /\ UNCHANGED <<target, default, orphans, preserved, others>>

\* The copy fails, or no candidate name is free.
PrepareFails == pc = "prepare" /\ Return

\* create_empty_transaction_image.
CreateEmpty ==
  /\ pc = "create"
  /\ \/ /\ temps' = [temps EXCEPT ![call.temp] = EmptyImage(call.fmt)]
        /\ pc' = "mount"
        /\ UNCHANGED <<target, formats, default, call, orphans, preserved, others>>
     \/ Return

------------------------------------------------------------------------------
\* whole_disk_t on the transaction image: its noted format if that mounts, else
\* the one a probe or the user finds, remembered for this path and optionally
\* for the session; or the user cancels.
Mount ==
  /\ pc = "mount"
  /\ \/ /\ Effective(call.temp) = temps[call.temp].fmt
        /\ UNCHANGED <<formats, default>>
        /\ pc' = "write"
        /\ UNCHANGED <<target, temps, call, orphans, preserved, others>>
     \/ /\ Effective(call.temp) # temps[call.temp].fmt
        /\ formats' = [formats EXCEPT ![call.temp] = temps[call.temp].fmt]
        /\ default' \in {default, temps[call.temp].fmt}
        /\ pc' = "write"
        /\ UNCHANGED <<target, temps, call, orphans, preserved, others>>
     \/ Return

\* One file: unlink, creat, write, attributes.  A full disk or directory ends
\* the call; a device error in the data goes unnoticed.
Write(n) ==
  /\ pc = "write"
  /\ n \in call.todo
  /\ \E v \in {call.pend[n], Damaged} :
       /\ v = Damaged => DevFails
       /\ temps' = [temps EXCEPT ![call.temp].files[n] = v]
  /\ call' = [call EXCEPT !.todo = @ \ {n}]
  /\ UNCHANGED <<target, formats, default, pc, orphans, preserved, others>>

WriteFails == pc = "write" /\ call.todo # {} /\ Return

\* close_image: cpmUmount reports a directory it could not write.
Close ==
  \/ /\ pc = "write" /\ call.todo = {}
     /\ pc' = "verify"
     /\ UNCHANGED <<target, temps, formats, default, call, orphans, preserved, others>>
  \/ /\ pc = "write" /\ call.todo = {}
     /\ Return

Verified_MUT_AnyFormat ==
  \A n \in Listed(call.pend) : temps[call.temp].files[n] = call.pend[n]
Verified_MUT_SizeOnly ==
  /\ temps[call.temp].fmt = call.fmt
  /\ \A n \in Listed(call.pend) : temps[call.temp].files[n] # Absent
\* verify_transaction_image mounts with the format PackFiles read at its start.
Verified ==
  /\ temps[call.temp].fmt = call.fmt
  /\ \A n \in Listed(call.pend) : temps[call.temp].files[n] = call.pend[n]

\* The image is read back; it may also fail to open, to mount or to be read.
Verify ==
  \/ /\ pc = "verify" /\ Verified
     /\ pc' = "commit"
     /\ UNCHANGED <<target, temps, formats, default, call, orphans, preserved, others>>
  \/ /\ pc = "verify"
     /\ Return

------------------------------------------------------------------------------
CanReplace_MUT_Always == TRUE
\* ReplaceFile needs the replaced file, MoveFileEx (no MOVEFILE_REPLACE_EXISTING)
\* its absence.
CanReplace == (target # Missing) = call.existed

\* commit_transaction_image, release of the guard, and the format remembered.
Commit ==
  /\ pc = "commit"
  /\ CanReplace
  /\ target' = temps[call.temp]
  /\ temps' = [temps EXCEPT ![call.temp] = Missing]
  /\ formats' = [Forget(call.temp) EXCEPT ![TargetKey] = call.fmt]
  /\ pc' = "idle"
  /\ call' = NoCall
  /\ others' = "none"
  /\ UNCHANGED <<default, orphans, preserved>>

\* It fails: the transaction image is kept for the user.  ReplaceFile, called
\* without a name for a backup, may have given up the old image before it failed
\* (ERROR_UNABLE_TO_MOVE_REPLACEMENT); the transaction image keeps its name.
CommitFails ==
  /\ pc = "commit"
  /\ target' \in IF call.existed THEN {target, Missing} ELSE {target}
  /\ formats' = Forget(call.temp)
  /\ preserved' = preserved \cup {call.temp}
  /\ pc' = "idle"
  /\ call' = NoCall
  /\ UNCHANGED <<temps, default, orphans, others>>

\* The process dies: memory is lost, files stay.
Crash ==
  /\ pc # "idle"
  /\ orphans' = orphans \cup ({call.temp} \cap Temps)
  /\ formats' = NoFormats
  /\ default' = NoFormat
  /\ pc' = "idle"
  /\ call' = NoCall
  /\ UNCHANGED <<target, temps, preserved, others>>

\* Somebody else replaces, creates or deletes the image.
Intrude ==
  /\ target' \in Found \cup {Missing}
  /\ others' = "now"
  /\ UNCHANGED <<temps, formats, default, pc, call, orphans, preserved>>

\* The user removes an abandoned transaction image.
CleanUp(t) ==
  /\ t \in orphans \cup preserved
  /\ temps' = [temps EXCEPT ![t] = Missing]
  /\ orphans' = orphans \ {t}
  /\ preserved' = preserved \ {t}
  /\ UNCHANGED <<target, formats, default, pc, call, others>>

Work ==
  \/ \E t \in Temps : Prepare(t)
  \/ PrepareFails
  \/ CreateEmpty
  \/ Mount
  \/ \E n \in Names : Write(n)
  \/ WriteFails
  \/ Close
  \/ Verify
  \/ Commit
  \/ CommitFails

Next ==
  \/ OpenArchive
  \/ \E p \in Pending : PackFiles(p)
  \/ Work
  \/ Crash
  \/ Intrude
  \/ \E t \in Temps : CleanUp(t)

Spec == Init /\ [][Next]_vars

------------------------------------------------------------------------------
\* SAFETY

\* The images preserved for the user.
Rescued == {temps[t] : t \in preserved}

\* PackFiles implements the atomic update: the image at the target path changes
\* only when a complete, verified result takes its place, through every failed
\* step and crash, and whatever other programs did to the image before the call;
\* if a failing replacement loses the old image, that result is preserved beside
\* it.  When another program changes the image during the call, its change may be
\* lost, but the result is still a good image that holds every packed file.
Promise == INSTANCE AtomicPack WITH
             image   <- target,
             foreign <- others = "now",
             rescued <- Rescued
Atomic  == Promise!Spec

\* However the device fails and whoever else changes the path, the image at
\* the target path never holds a file that was stored damaged.
TargetNeverDamaged ==
  target # Missing => \A n \in Names : target.files[n] # Damaged

\* Outside a call the only transaction images on disk are those a crash left (or
\* that could not be deleted) and those a failed commit preserved: no other way
\* out of PackFiles forgets one.
NothingLeftBehind ==
  pc = "idle" =>
    {t \in Temps : temps[t] # Missing} = orphans \cup preserved

\* An image somebody else put at the path while PackFiles was making a new one
\* there is not overwritten.
NoForeignOverwrite ==
  [][pc = "commit" /\ target # Missing /\ ~call.existed /\ pc' = "idle"
       => target' = target]_vars

\* "Transaction image was valid, but replacing failed": what is preserved for
\* the user is an image with a format and no damaged file.
PreservedUsable ==
  \A t \in preserved : /\ temps[t].fmt \in Formats
                       /\ \A n \in Names : temps[t].files[n] # Damaged

\* No format stays cached for a transaction image, whose name a later call in
\* the session may use again.
NoStaleTempFormat ==
  pc = "idle" => \A t \in Temps : formats[t] = NoFormat

\* The format cached for the image is the one it has, also after PackFiles
\* created or replaced it, unless another program has changed the image since.
\* (It outlives an image that a failed replacement lost.)
CachedFormatFits ==
  others = "none" /\ formats[TargetKey] # NoFormat /\ target # Missing =>
    formats[TargetKey] = target.fmt

\* The format the user selects when the image does not mount "is used to retry
\* the current image" (ReadMe.md): with it, an undamaged transaction image
\* passes verification.
SelectedFormatUsed ==
  pc = "verify" /\ (\A n \in Names : temps[call.temp].files[n] # Damaged)
    => Verified

==============================================================================
