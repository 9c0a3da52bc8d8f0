----------------------------- MODULE ArchiveView -----------------------------
(***************************************************************************)
(* What Total Commander sees of an image (cpmimg_wcx.cpp): OpenArchive     *)
(* lists the directory with cpmglob and cpmReaddir, ReadHeader announces   *)
(* one entry of that list after the other, ProcessFile extracts or tests   *)
(* the one announced last, and DeleteFiles turns names it announced        *)
(* earlier back into CP/M names.                                           *)
(*                                                                         *)
(* An archive stays open while its entries are processed; deleting opens   *)
(* the image anew.  Mounting is the subject of FormatSession; validated    *)
(* names are found again by cpmNamei.  Names do not contain a backslash.   *)
(***************************************************************************)
EXTENDS CpmDirectory, Sequences

CONSTANTS
  Users, Root,  \* user areas as the two digits before a name, and "00"
  Shorts,       \* 8.3 names
  User, Short,  \* the user area and the 8.3 name of each of Files
  ReadOnly,     \* the files with the R/O attribute
  Images,       \* opened images: directory, label, and whether it can be written
  Dests,        \* where files are extracted to
  MaxSuffix,    \* bound: the largest number after .partial, 999 in the code
  Temps,        \* names GetTempFileName may return
  ListLengths,  \* bound: how many names one DeleteFiles call is given
  MaxOutputs,   \* bound: files extracted or left over at a time
  Failures      \* whether reading, creating, writing and renaming may fail

\* What is listed besides the files: the passwords and the label of a CP/M 3
\* disk and the plugin's own report on the image.
Passwd == "passwd"
Label  == "label"
Info   == "info"
Items  == Files \cup {Passwd, Label, Info}

NoDir == "no directory"
All   == "*.*"

\* A file with all or a part of an item; no file; a temporary one nobody wrote to.
Output(x, w) == [of |-> x, whole |-> w]
Nothing == Output("nothing", TRUE)
Empty == Output("empty", TRUE)

\* The names of preserved files.
Partials == Dests \X (0..MaxSuffix)

ASSUME ViewAssumption ==
  /\ Root \in Users
  /\ User \in [Files -> Users] /\ Short \in [Files -> Shorts]
  /\ \A f, g \in Files : User[f] = User[g] /\ Short[f] = Short[g] => f = g
  /\ ReadOnly \subseteq Files
  /\ Images \subseteq [dir: [Entries -> Entry], label: BOOLEAN, writable: BOOLEAN]
  /\ \A i \in Images : Valid(i.dir)
  /\ MaxSuffix \in Nat /\ MaxOutputs \in Nat
  /\ ListLengths \subseteq Nat \ {0}
  /\ Failures \in BOOLEAN

\* A user area is two digits, no 8.3 name has a bracket, an asterisk or more than
\* eight characters before the dot, and nobody extracts to a name that
\* GetTempFileName makes up.
ASSUME NamesAssumption ==
  /\ {Passwd, Label, Info, Nothing.of, Empty.of} \cap Files = {}
  /\ {NoDir, Passwd, Label} \cap Users = {}
  /\ {Info, All} \cap Shorts = {}
  /\ Temps \cap (Dests \cup Partials) = {}

VARIABLES
  image,    \* the image file
  showInfo, \* show_disk_info_file
  arch,     \* the open archive: gargv, counter and what belongs to them
  told,     \* the headers of this pass over the archive, with what they announce
  ended,    \* ReadHeader has returned E_END_ARCHIVE and nothing since
  panel,    \* the names Total Commander shows after a complete listing
  out,      \* the files in the file system
  status    \* what the last call returned, if it was ProcessFile or DeleteFiles

vars == <<image, showInfo, arch, told, ended, panel, out, status>>

Closed == [gargv |-> << >>, open |-> FALSE]

\* The files under their final names, the preserved ones, the temporary ones.
Paths == Dests \cup Partials \cup Temps

Stored == [of: Items, whole: BOOLEAN]

Shown == [in: Users \cup {NoDir, Passwd, Label}, name: Shorts \cup {Passwd, Label, Info, All}]

TypeOK ==
  /\ image \in [dir: [Entries -> Entry], label: BOOLEAN, writable: BOOLEAN]
  /\ showInfo \in BOOLEAN
  /\ arch.open =>
       /\ arch.gargv \in Seq(Items \ {Info})
       /\ arch.users \in BOOLEAN /\ arch.info \in BOOLEAN /\ arch.lastInfo \in BOOLEAN
       /\ arch.counter \in 0..(Len(arch.gargv) + 1)
  /\ told \in Seq([item: Items, shown: Shown])
  /\ ended \in BOOLEAN
  /\ panel \subseteq Shown
  /\ out \in [Paths -> Stored \cup {Nothing, Empty}]
  /\ status \in {"none", "ok", "error"}

Init ==
  /\ image \in Images
  /\ showInfo = FALSE
  /\ arch = Closed
  /\ told = << >> /\ ended = FALSE /\ panel = {}
  /\ out = [p \in Paths |-> Nothing]
  /\ status = "none"

------------------------------------------------------------------------------
\* LISTING

FirstEntries_MUT_AllEntries(d) == Live(d)
\* cpmReaddir: an entry stands for its file if no other has a lower extent number.
FirstEntries(d) ==
  {e \in Live(d) : \A x \in AllEntriesOf(d, d[e].owner) : d[e].extno <= d[x].extno}

HasPasswords(d) == \E f \in Passwords : AllEntriesOf(d, f) # {}

\* The numbers of S in ascending order, as a loop over the directory meets them.
Ascending(S) ==
  [k \in 1..Cardinality(S) |->
     CHOOSE e \in S : Cardinality({x \in S : x < e}) = k - 1]

\* cpmglob with "*": everything but ".", and "..", which ReadHeader skips.
Glob(i) ==
  LET s == Ascending(FirstEntries(i.dir))
  IN  (IF HasPasswords(i.dir) THEN <<Passwd>> ELSE << >>)
        \o (IF i.label THEN <<Label>> ELSE << >>)
        \o [k \in 1..Len(s) |-> i.dir[s[k]].owner]

InRoot(x) == x \in Files /\ User[x] = Root

\* users_counter is not 0: something is listed that is not in user area 0.
HasUsers(s) == \E k \in 1..Len(s) : ~InRoot(s[k])

\* OpenArchive.  The settings are read anew, so what they were is of no account.
OpenArchive ==
  /\ ~arch.open
  /\ \E show \in BOOLEAN :
       /\ showInfo' = show
       /\ arch' = [open |-> TRUE, gargv |-> Glob(image), users |-> HasUsers(Glob(image)),
                   info |-> show, counter |-> 0, lastInfo |-> FALSE]
  /\ panel' = {}
  /\ status' = "none"
  /\ UNCHANGED <<image, told, ended, out>>

\* Another archive is opened, which rereads the settings.
Reconfigure ==
  /\ arch.open
  /\ showInfo' \in BOOLEAN
  /\ UNCHANGED <<image, arch, told, ended, panel, out, status>>

NameOf(x) == IF x \in Files THEN Short[x] ELSE x
DirOf(x)  == IF x \in Files THEN User[x] ELSE x

\* FileName of the header: with a directory for the user area, taken from the
\* first two characters, if anything needs one.
HeaderName(x) ==
  [in |-> IF arch.users /\ x # Info THEN DirOf(x) ELSE NoDir, name |-> NameOf(x)]

Announce(x) ==
  /\ told' = Append(IF ended THEN << >> ELSE told, [item |-> x, shown |-> HeaderName(x)])
  /\ ended' = FALSE
  /\ status' = "none"
  /\ UNCHANGED <<image, showInfo, panel, out>>

\* ReadHeader: the next entry of the list.
NextHeader ==
  /\ arch.open
  /\ arch.counter < Len(arch.gargv)
  /\ arch' = [arch EXCEPT !.counter = @ + 1, !.lastInfo = FALSE]
  /\ Announce(arch.gargv[arch.counter + 1])

InfoIsNext_MUT_NotBefore == showInfo /\ arch.info /\ arch.counter >= Len(arch.gargv)
\* disk_info_available, and its turn.
InfoIsNext == showInfo /\ arch.info /\ arch.counter = Len(arch.gargv)

InfoHeader ==
  /\ arch.open
  /\ InfoIsNext
  /\ arch' = [arch EXCEPT !.counter = @ + 1, !.lastInfo = TRUE]
  /\ Announce(Info)

\* E_END_ARCHIVE; the next call starts over.
EndOfHeaders ==
  /\ arch.open
  /\ arch.counter >= Len(arch.gargv) /\ ~InfoIsNext
  /\ arch' = [arch EXCEPT !.counter = 0, !.lastInfo = FALSE]
  /\ told' = IF ended THEN << >> ELSE told
  /\ ended' = TRUE
  /\ status' = "none"
  /\ UNCHANGED <<image, showInfo, panel, out>>

CloseArchive ==
  /\ arch.open
  /\ arch' = Closed
  /\ told' = << >> /\ ended' = FALSE
  /\ panel' = IF ended THEN {told[k].shown : k \in 1..Len(told)} ELSE {}
  /\ showInfo' = FALSE
  /\ status' = "none"
  /\ UNCHANGED <<image, out>>

------------------------------------------------------------------------------
\* EXTRACTING AND TESTING

Current_MUT_NextEntry ==
  IF arch.lastInfo THEN Info
  ELSE arch.gargv[IF arch.counter < Len(arch.gargv) THEN arch.counter + 1 ELSE arch.counter]
\* What ProcessFile works on.
Current == IF arch.lastInfo THEN Info ELSE arch.gargv[arch.counter]

\* cpmRead refuses a record of x, whatever the disk holds.
Unreadable(x) ==
  /\ x \in Files
  /\ LET blank == [b \in Blocks |-> [r \in 0..(RecsPerBlock - 1) |-> Zero]]
         c == Content(image.dir, blank, x)
     IN  \E r \in DOMAIN c : c[r] = Refused

\* Nothing is read or written for a file of no records.
NoData(x) == x \in Files /\ FileSize(image.dir, x) = 0

\* How writing x out can end.
Ends(x) == {w \in BOOLEAN : IF w THEN ~Unreadable(x)
                            ELSE Unreadable(x) \/ (Failures /\ ~NoData(x))}

Returns(s) == status' = s /\ UNCHANGED <<image, showInfo, arch, told, ended, panel>>

\* The numbers under which preserve_failed_output finds no file.
FreeSuffixes(d) == {k \in 0..MaxSuffix : out[<<d, k>>] = Nothing}

\* preserve_failed_output: under the first free .partial name, or where it is.
Preserve(d, x) ==
  \/ \E k \in FreeSuffixes(d) :
       /\ IsFirst(k, FreeSuffixes(d))
       /\ out' = [out EXCEPT ![<<d, k>>] = Output(x, FALSE)]
  \/ /\ FreeSuffixes(d) = {} \/ Failures
     /\ out' = [out EXCEPT ![d] = Output(x, FALSE)]

\* ProcessFile without a current entry, or a file that cannot be created.
CannotStart == arch.open /\ (arch.counter = 0 \/ Failures)

Occupied == {p \in Paths : out[p] # Nothing}
CanStart == arch.open /\ arch.counter > 0 /\ Cardinality(Occupied) < MaxOutputs

CanCreate_MUT_Overwrite(d) == TRUE
\* open_file_write is CREATE_NEW.
CanCreate(d) == out[d] = Nothing

\* ProcessFile with PK_EXTRACT.
Extract(d) ==
  \/ /\ CannotStart \/ ~CanCreate(d)
     /\ UNCHANGED out
     /\ Returns("error")
  \/ /\ CanStart /\ CanCreate(d) /\ TRUE \in Ends(Current)
     /\ out' = [out EXCEPT ![d] = Output(Current, TRUE)]
     /\ Returns("ok")
  \/ /\ CanStart /\ CanCreate(d) /\ FALSE \in Ends(Current)
     /\ Preserve(d, Current)
     /\ Returns("error")

\* DeleteFile after a complete test, whose attributes were set before: a file
\* that is read-only is not deleted.
KeptAfterTest(x) == x \in ReadOnly

TestedTo_MUT_KeepIncomplete(t, w) ==
  [out EXCEPT ![t] = IF w /\ ~KeptAfterTest(Current) THEN Nothing
                     ELSE Output(Current, w)]
\* The files after Current was written to the temporary file t, whole or not.
TestedTo(t, w) ==
  [out EXCEPT ![t] = IF w /\ KeptAfterTest(Current)
                     THEN Output(Current, TRUE) ELSE Nothing]

\* ProcessFile with PK_TEST: into a new temporary file, if there is one.
Test ==
  \/ /\ CannotStart
     /\ UNCHANGED out
     /\ Returns("error")
  \/ \E t \in Temps :
       /\ CanStart /\ out[t] = Nothing
       /\ \/ /\ Failures
             /\ out' = [out EXCEPT ![t] = Empty]
             /\ Returns("error")
          \/ \E w \in Ends(Current) :
               /\ out' = TestedTo(t, w)
               /\ Returns(IF w THEN "ok" ELSE "error")

\* The user clears a file away.
Clear(p) ==
  /\ out[p] # Nothing
  /\ out' = [out EXCEPT ![p] = Nothing]
  /\ status' = "none"
  /\ UNCHANGED <<image, showInfo, arch, told, ended, panel>>

------------------------------------------------------------------------------
\* DELETING

Named_MUT_AnyUser(s) == {f \in Files : Short[f] = s.name /\ s.in \in {NoDir, User[f]}}
\* The file a name given to DeleteFiles stands for, if any.
Named(s) ==
  {f \in Files : Short[f] = s.name /\ User[f] = (IF s.in = NoDir THEN Root ELSE s.in)}

\* cpmUnlink of the first n names of the list; Info is passed over.
NamedIn(list, n) == UNION {Named(list[k]) : k \in 1..n}

Unlinked(d, F) == [e \in Entries |-> IF d[e].owner \in F THEN FreeEntry ELSE d[e]]

Present(d) == {f \in Files : AllEntriesOf(d, f) # {}}

\* The list's k-th name can be deleted or ignored.
Deletable(list, k) ==
  \/ list[k].name = Info
  \/ (Named(list[k]) \ NamedIn(list, k - 1)) \cap Present(image.dir) # {}

\* DeleteFiles with names the panel shows, a user area's included: up to the
\* first that cannot be deleted.  Whether the directory could be written when
\* the image was unmounted, all of it or its first n blocks, is not reported.
DeleteFiles(list) ==
  /\ ~arch.open
  /\ \/ /\ ~image.writable
        /\ status' = "error"
        /\ UNCHANGED image
     \/ /\ image.writable
        /\ \E n \in 0..Len(list), b \in 0..StorageBlks :
             /\ \A k \in 1..n : Deletable(list, k)
             /\ n < Len(list) => ~Deletable(list, n + 1)
             /\ b < StorageBlks => Failures
             /\ image' = [image EXCEPT !.dir =
                  [e \in Entries |-> IF e \div EntriesPerBlock < b
                                     THEN Unlinked(image.dir, NamedIn(list, n))[e]
                                     ELSE image.dir[e]]]
             /\ status' = IF n = Len(list) THEN "ok" ELSE "error"
  /\ UNCHANGED <<showInfo, arch, told, ended, panel, out>>

\* The names a user may mark in the panel.
Marked ==
  panel \cup {[in |-> s.in, name |-> All] : s \in {x \in panel : x.in # NoDir}}

Lists == UNION {[1..n -> Marked] : n \in ListLengths}

\* The image is replaced by another one while the panel shows the old one.
Replace ==
  /\ ~arch.open /\ panel # {}
  /\ image' \in Images
  /\ status' = "none"
  /\ UNCHANGED <<showInfo, arch, told, ended, panel, out>>

Next ==
  \/ OpenArchive
  \/ Reconfigure
  \/ NextHeader
  \/ InfoHeader
  \/ EndOfHeaders
  \/ CloseArchive
  \/ \E d \in Dests : Extract(d)
  \/ Test
  \/ \E p \in Paths : Clear(p)
  \/ \E list \in Lists : DeleteFiles(list)
  \/ Replace

Spec == Init /\ [][Next]_vars

------------------------------------------------------------------------------
\* SAFETY

\* No two entries of a file have the same extent number; the validation does
\* not ask for it.
ExtentsDistinct(d) ==
  \A x, y \in Live(d) :
    x # y /\ d[x].owner = d[y].owner => d[x].extno # d[y].extno

\* Every complete pass over the archive, the first or a later one and whatever
\* was extracted meanwhile, announces every file of the image once, in whichever
\* order its entries are, and the report on the image at most once and last; and
\* no two entries of a listing, complete or not, have the same name.
ListedOnce ==
  ExtentsDistinct(image.dir) =>
    /\ ended =>
         /\ \A f \in Files : Cardinality({k \in 1..Len(told) : told[k].item = f})
                               = IF f \in Present(image.dir) THEN 1 ELSE 0
         /\ \A k \in 1..(Len(told) - 1) : told[k].item # Info
    /\ arch.open => \A j, k \in 1..Len(told) : told[j].shown = told[k].shown => j = k

\* What ProcessFile stores is of the entry announced last, the report included,
\* however often the listing started over.
ExtractsAnnounced ==
  [][\A p \in Paths : out'[p] # out[p] /\ out'[p] \in Stored =>
       out'[p].of = told[Len(told)].item]_vars

\* Extracting never changes a file that exists, not even one preserved from an
\* earlier failure.
ExistingKept ==
  [][\A p \in Paths : out[p] # Nothing => out'[p] \in {out[p], Nothing}]_vars

\* An incomplete file is never reported as a success, and testing leaves a file
\* behind only if its file is read-only or the temporary file cannot be opened.
NothingHalfDone ==
  [][\A p \in Paths : out'[p] # out[p] /\ out'[p] # Nothing =>
       /\ out'[p] \in Stored /\ ~out'[p].whole => status' = "error"
       /\ p \in Temps => \/ out'[p] = Empty
                         \/ out'[p].whole /\ out'[p].of \in ReadOnly]_vars

\* DeleteFiles deletes nothing but what the panel shows by exactly that name,
\* also if the image has been replaced since the panel was filled, and nothing
\* of other files.
DeletesOnlyShown ==
  [][status' # "none" =>
       \A f \in Present(image.dir) :
         \/ \A e \in AllEntriesOf(image.dir, f) : image'.dir[e] = image.dir[e]
         \/ \E s \in panel : s.name = Short[f] /\ s.in = User[f]
         \/ \E s \in panel : s.name = Short[f] /\ s.in = NoDir /\ User[f] = Root]_vars

==============================================================================
