# CPMimg: a TLA+ verification project

CPMimg is a Total Commander packer plugin (WCX) that reads and writes CP/M disk images.
It wraps an adapted copy of *cpmtools* (the CP/M file system) and the vendored *LibDsk*
(image containers). This directory holds TLA+ models of the parts of the plugin that
carry its own logic, the TLC configurations that check them, and TLAPS proofs of what
matters most.

## 1. Inventory

| Component | Source | State | Operations |
|---|---|---|---|
| CP/M file system | `cpmtools/cpmfs.c`, `cpmdir.h` | in-core directory, allocation vector, dirty flag, the image | mount, create, write, read, attributes, delete, sync, unmount, discard |
| PackFiles transaction | `cpmimg_wcx.cpp` 689-1175, 2102-2380 | the image, the transaction image beside it, the list of pending files | prepare, create empty, mount, write, close, verify, commit |
| Format selection and session cache | `cpmimg_wcx.cpp` 72-146, 296-668 | format per image path, session default, probing override, configuration | mount with the effective format, probe, dialog, retry, remember |
| Format probing | `cpmimg_probe_client.cpp`, `cpmimg_probe_main.cpp` | ranked candidates, running helper processes, budget, report | rank, launch a batch, wait, collect, stop, select |
| Listing and extraction | `cpmimg_wcx.cpp` 1400-1800 | glob result, counter, virtual disk-info file | open, read header, process file, close |
| DeleteFiles | `cpmimg_wcx.cpp` 1880-1936 | the mounted image itself | delete each name, unmount |
| Configuration | `plugin_config.cpp` | options, ini file | read, validate, write |
| Disk definitions | `diskdefs`, `cpmfs.c` 718-977 | - | parse one definition into the superblock |
| Sector mapping | `cpmfs.c` 1250-1272, 337-425; `cpmtools/device_libdsk.c`; `dsklphys.c`, `drvposix.c` of LibDsk | skew table, geometry, the image file | build the table, set the geometry, read and write a block |
| LibDsk: IMD images | `libdsk_cmake/lib/drvimd.c`, `drvldbs.c`, `ldbs.c` | block store in memory, its track directory, one track header, dirty flags | open, read and write a sector, close |
| LibDsk: other containers | `libdsk_cmake/lib/drv*.c` | about thirty drivers | open, geometry, read and write a sector |
| Disk information text | `cpmimg_disk_info.h` | - | format a report |
| Dialog | `cpmimg_plugin_gui.*` | - | user choice |
| Directory checker | `cpmtools/fsck.cpm.c` | - | complain about a directory, offer repairs |
| Other command line tools, release scripts | `cpmtools/*.c`, `tools/`, `packaging/` | - | not part of the plugin |

How they interact. Total Commander makes one call at a time (`GetBackgroundFlags`
returns 0), so the plugin itself is sequential. What makes it hard is elsewhere:

* *order of operations*: which sequences of creates, partial writes, deletes and
  remounts an image has been through; the directory reaches the image only in `cpmSync`,
  data at once;
* *geometry*: entries that hold several logical extents, one- and two-byte block
  pointers, disks on which an entry maps less than 16 KiB;
* *foreign images*: whatever passes `validateDirectory` is mounted, cross-linked files,
  entries in any order and CP/M 3 password entries included;
* *partial failure*: `cpmWrite` ignores the result of `writeBlock`; a full disk or
  directory stops a write half way; the directory may be stored in part;
* *crashes* between two steps of the transaction, and other programs that change the
  image meanwhile;
* *state kept between calls*: formats cached under file names that may be reused;
* *two copies of the truth*: a track header in memory that the store does not have yet,
  and a store in memory that the file does not have yet;
* *arithmetic*: skew, boot area, offset, sides and heads put a block somewhere, and it
  must be a place of its own;
* *external processes*: probe helpers that hang, crash or answer late.

What makes each component correct:

* file system: the allocation vector is exactly what the live entries name; no two files
  ever share a block they did not share before; file data never lands in the directory;
  a written file reads back; an image stays mountable and gives `fsck.cpm` nothing new
  to complain about;
* sectors: the image is an array of blocks beside a boot area, whatever the skew and the
  geometry; every block of the definition can be reached;
* IMD images: no block of the store is lost or held twice; what was written is read
  again, also after a close that reports success;
* transaction: the image changes in one step and only to verified contents; if
  replacing it fails, the new one is kept; no transaction image or cached format is
  forgotten;
* format selection: the remembered format is the image's own, a selected format is used
  for what it was selected for;
* probing: it ends; an automatic selection is backed by a mount; no temporary file or
  process outlives it.

## 2. Modules

| Module | Models |
|---|---|
| `CpmDirectory` | the directory as data: entries, allocation vector, lookups, validation, reading a file, what `fsck.cpm` complains about |
| `CpmFs` | the operations on one mounted image, as actions |
| `DiskGeometry` | LibDsk's arithmetic: geometry, logical and physical sectors, the place in a raw image |
| `BlockArray` | the abstract array of blocks the sector layer promises |
| `SectorIO` | skew table, `readBlock`, `writeBlock`, the device layer and the raw driver; implements `BlockArray` |
| `BlockStore` | LibDsk's block store as data: adding, deleting, rewriting blocks |
| `SavedDisk` | the abstract disk that is in its file again after a close |
| `ImdImage` | an IMD image from opening to closing; implements `SavedDisk` |
| `AtomicPack` | the abstract atomic update PackFiles promises |
| `PackTransaction` | PackFiles with failures, crashes, other programs, the format cache; implements `AtomicPack` |
| `PluginConfig` | `cpmdiskimg.ini` and the options in memory: reading, validating, writing |
| `FormatSession` | `whole_disk_t::process_image` and everything remembered about formats in a session; uses `PluginConfig` |
| `FormatProbe` | the probe client with its helper processes |
| `ArchiveView` | listing, extracting, testing and deleting as Total Commander drives them; uses `CpmDirectory` |
| `CpmFsProofs`, `PackTransactionProofs`, `FormatSessionProofs`, `SectorIOProofs`, `ImdImageProofs`, `SavedDiskProofs`, `FormatProbeProofs`, `ArchiveViewProofs` | TLAPS proofs |
| `MCCpmFs`, `MCPackTransaction`, `MCFormatSession`, `MCFormatProbe`, `MCArchiveView`, `MCSectorIO`, `MCImdImage` | the instances TLC checks |

The composition follows the code's layers. `CpmDirectory` is shared by the operations
(`CpmFs`) and the view (`ArchiveView`). `PackTransaction` sees a mounted image only as
the format it has and the data of its files, `FormatSession` only as the set of formats
with which it mounts; what happens inside is `CpmFs`. Below `CpmFs` the abstract
specifications are the contracts: `CpmFs` stores a block as a whole or loses it, and
changes no other; `SectorIO` is shown to do that (`BlockArray`), on a raw image, and
`ImdImage` shows what an image in memory keeps of the sectors (`SavedDisk`).

### How state and actions correspond to the code

*CpmDirectory / CpmFs.* `dir`, `alv` and `dirty` are the fields of `cpmSuperBlock`;
`ddir` and `disk` are the directory and the data blocks on the image; `file` is the open
`cpmFile` together with the loop variables of `cpmWrite`. Names are model values,
records are tagged with the file they were written for and their position, so that a
lost, repeated or foreign record is visible. The geometry (`Size`, `Ptrs`,
`RecsPerBlock`, `RecsPerExtent`, `EntriesPerBlock`, `DirBlks`) keeps the code's
derivations: logical extents as the definition gives them (`GivenExtents`, absent in
every shipped one) or rounded down but never 0, `extcap`, the reserved blocks.
`ReadSuper`/`RefuseSuper` are `cpmReadSuper` with the validation; `Umount` is `cpmSync`
and the release of the superblock, and a failing device stores only the first sectors of
the directory, `EntriesPerSector` entries each; `Discard` is `cpmDiscardSuper`. `Creat` leaves a file open. `cpmWrite` is
a loop with four inner phases and is the only operation taken apart: `FindExtent` (the
`findext` branch), `WriteBlock` (the `findblock` branch, the write and the update of the
entry), and `GiveUp` inside both for a full directory or disk. `Close` and `AttrSet` end
a complete write, `Unlink` deletes. `Chunk` is the number of records handed to one
`cpmWrite` call, after which the next call looks for the entry again: 4096 bytes in
cpmcp, the whole file in PackFiles.

The device may lose what it is given: `MaxLosses` bounds how many data blocks in one
mount, and `Umount` may store only the first sectors of the directory.

*DiskGeometry / SectorIO / BlockArray.* A sector is the unit. `geom` is `dev.geometry`,
first what LibDsk's boot-sector probe reports (`Probed`), then what `Device_setGeometry`
makes of it. `skewtab` and `next` are the table and `j` of the loop in `cpmReadSuper`:
`SkewBump` passes over a sector that is taken, `SkewTake` enters one. `call` is a
running `readBlock` or `writeBlock` with its loop variables; `StepOver`, `ReadSector`,
`WriteSector` and their failures are its iterations. `Place` goes through `dg_ls2ps`,
`dg_lt2pt` and `posix_offset`; `Filled` is the gap `seekto` fills. Under the refinement,
a block is the sequence of what the image holds at the places of its sectors.

*BlockStore / ImdImage / SavedDisk.* `store` is `ld_store` with its chains of used and
free blocks, `dir` its track directory, `cur` the header `drvldbs.c` keeps in memory
(`ld_cur_track`), or the one `imd_load_track` builds. `Open`, `BeginTrack`,
`LoadSector`, `EndTrack`, `Attach` are `imd_open`; `Read` is the selection of a track,
which is all a read changes; `Write` is `ldbsdisk_xwrite` under `dsk_pwrite`;
`CloseUnsaved`, `BeginSave`, `SaveTrack`, `EndSave` are `imd_close`, with
`ldbs_all_tracks` one track at a time (`pos`, `err`) and a failure at any write. `Cut`
is what is left of a file whose last bytes never reached the disk. Under the refinement
the disk is what reading each sector would return, and the saved disk what opening the
file would give.

*PackTransaction.* `pc` names the step of `PackFiles` that comes next, `call` its
parameters and locals, `temps` the transaction images beside the target, `formats` the
map `session_image_formats_by_archive` with the target and the temporary names as keys,
and `orphans`/`preserved` keep the reason why a transaction image is left. `Prepare` to
`Commit` are the stages of the function; every early return goes through `Return`, which
is the destructor `transaction_image_guard_t`. `Crash` may come between any two steps,
`Intrude` stands for other programs, which may change the image at any time; `others`
remembers whether one did in this call, so that `AtomicPack` can say what an update may
then overwrite. A `ReplaceFile` or `MoveFileEx` that succeeds does so at once, and the
process does not die inside one. `ReplaceFile` is called without a backup name
(`cpmimg_wcx.cpp:1162`), so one that fails may have removed the old image
(`CommitFails`); the transaction image is then preserved, and `AtomicPack` promises for
this case only that the new image was kept aside (`rescued`, in the refinement
`Rescued`).

*PluginConfig / FormatSession.* `ini` is the file as a sequence of lines, `conf` the
options, `omap` the map `options_map` that outlives a call. `call` is one run of
`process_image` with its phase: the first mount, a probe, the dialog. `cache`, `default`
and `override` are the three session variables, `mounts` the formats with which an image
mounts. `Select` is the dialog's OK button with its checkboxes, `ProbeNow` its other
button, `GiveUp` the cancel button or a device that does not open. `Load` and `Unload`
begin and end a session; `Edit` is anybody writing the settings file. `write_conf` may
fail to open it, which none of its callers notices.

*FormatProbe.* `image` holds what the IMD parser and LibDsk report and whether each
definition mounts; the scores, tiers and the ranking are computed from these facts as in
`make_candidate` and `rank_candidates`. A batch is launched one helper at a time, waited
for until all have ended or the deadline has passed, then collected one by one. A helper
mounts, writes its answer to its output file and exits, or fails at any of these points;
names of output files are reused as soon as they are free.

*ArchiveView.* `arch` is the `whole_disk_t` Total Commander holds between `OpenArchive`
and `CloseArchive`: the list `gargv`, the counter, whether there is a report on the
image and whether it was announced last. `showInfo` is global and any `OpenArchive`
rereads it. `told` and `ended` are history: the headers of the current pass. `panel` is
what the user sees afterwards and may mark for `DeleteFiles`. `out` are the files in the
file system under their final, preserved and temporary names.

## 3. Runs

| Run | Question |
|---|---|
| `FsOperations` | entries of two logical extents, on empty, cross-linked, labelled, out-of-order and refused directories and a device that may lose something: is the allocation vector exact, are files and the directory kept apart, do they read back, do attributes stay uniform, does the image mount again and satisfy `fsck.cpm`, does every write return |
| `FsWholeWrite` | a disk of the same kind, written as PackFiles does, a whole file to one `cpmWrite`: **violated**, finding 1 |
| `SectorIO` | is the skew a permutation and the image an array of blocks, for every probed geometry; do the loops end |
| `SectorTail` | can every block of a definition be used: **violated**, finding 5 |
| `ImdImages` | are blocks of the store neither lost nor shared, and is what was written there, before and after closing |
| `PackAtomic` | does PackFiles implement `AtomicPack` and clean up, through failures, crashes and other programs |
| `PackSelectedFormat` | is the selected format used for the whole call: **violated**, finding 2 |
| `SessionScopes` | what is remembered, for which image and for how long; do saved settings load again |
| `SessionReread` | does a good settings file take effect when reread: **violated**, finding 3 |
| `SessionNoFormat` | is there always a format to mount with: **violated**, finding 4 |
| `ProbeBatches` | is the selection right, the report true, and does probing end and clean up |
| `ArchiveViews` | is everything listed once, extraction true to the listing, deletion limited to what is shown |

**Bounds.** `CpmFs`: three directory entries in two directory blocks, two pointers and
two blocks' worth of records per entry, which make two logical extents, five blocks,
files of up to `MaxRecs` records, one loss. This is enough for a file of two entries, a
file that ends in the middle of a block, of an extent and of an entry, a full directory
and a full disk, each before and behind every step of another file. One file is written at a time, as in
the plugin. In `FsOperations` a sector is as large as a block, so that a failing
`cpmSync` stops between blocks; that the image mounts again when it stops after any
sector is proved (`ImagesStayMountable`). `PackTransaction`: two names, one content, two
formats, two transaction images, which suffice for a file added, replaced and kept, a
foreign image of the wrong format and a leftover image beside a new one.
`FormatSession`: two images, two formats, settings files that are absent, complete,
older, damaged on a line and out of range. `FormatProbe`: four definitions with or without a
size of their own, batches of two, a budget of three, so the budget can end inside a batch and a tier; the helpers
fail on eight of the images (`Troubled`) and answer on all. `ArchiveView`: three
directory entries, three user areas, one destination with two names to preserve a failed
file under (`MaxSuffix`), two output files at a time (`MaxOutputs`) and two names per
deletion (`ListLengths`). `SectorIO`: disks of six to eight sectors with a skew that
shares a divisor with the sectors per track, blocks across tracks with a directory that
begins inside one, an odd number of tracks above the limit of one side
(`SingleSidedTracks`, 43 in the code), an offset with an explicit table; five probed
geometries with all kinds of sides; image files complete and too short. `ImdImage`: two
images of two tracks with up to two sectors of two lengths, plain, mixed, packed and
with recorded errors, and three writes between opening and closing (`MaxWrites`), enough
to free a block, take it over and need it again; closing and reopening repeats without a
bound.

**Fairness.** `WriteReturns` assumes weak fairness of `FindExtent` and `WriteBlock`:
once called, `cpmWrite` is a loop that runs until it returns. `ProbingEnds` assumes it
of the client, which is a loop too, and of helpers that the model does not let fail;
nothing is assumed of a helper that may hang, which is why the deadline matters.
`LoopsEnd` assumes it of the skew loop and of a running block transfer, which are loops
inside one call. The other specifications have no fairness: each of their steps waits
for Total Commander or the user, who may never come back. `ProbeBatches` switches the
deadlock check off because a finished call has no next step.

## 4. Proofs

Everything is proved for all values of the constants that satisfy the named assumptions:
`ConstantsAssumption` and `GeometryAssumption` (the disk has room for its directory, and
pointers reach every block), `ClientAssumption` (no file needs more extent numbers than
there are), `PackAssumption`, `ConfigAssumption` and `SessionAssumption` (types and
distinctness), `DefinitionAssumption` and `TracksAssumption` (an explicit skew table
names every sector once), `ContentsAssumption`, `MarkersAssumption`, `ResultsAssumption`
and `ImagesAssumption` (an IMD file has a track at most once, and packs only sectors of
one byte), `ProbeAssumption` (finitely many definitions with names that differ; an exact
size needs a known one; "no output file" is none) and `NamesAssumption`. The last one
says that names are what they are for: user areas have two digits and are neither `[`
nor the root, `ISFILECHAR` (`cpmdir.h:16`) keeps `*`, `[` and `]` out of file names, the
name of the report (`cpmimg_disk_info.h:16`) is longer than 8.3, and a name made by
`GetTempFileName` is not one of those asked for or preserved. TLC evaluates each of them
in the runs.

*CpmFsProofs.* The inductive invariant adds to `TypeOK` that the vector is the one
`alvInit` would compute from the directory now (`AlvInv`), and that the open file owns
its current entry and has only blocks behind the reserved ones (`OwnInv`). Without the
first half of `OwnInv` a pointer could be stored into a free entry, and the vector would
count a block no live entry names; without the second, a foreign pointer into the
directory could become the target of a write. From it follow `AllocationIsExact`,
`NoSharingAdded` (a block from `allocBlock` is named by no slot),
`DirectoryNeverOverwritten` and `TypeCorrect`. `AttributesStayUniform` needs `InoFirst`
beside it: no entry of the open file, and no free one it may still take, stands before
the entry of its inode, so that `cpmAttrSet` reaches all of them. `OtherFilesUntouched`
needs `PrivateInv`: no entry of the file that is open shares a block, so no other file
sees what is written, whatever else is cross-linked. That other files have the same size
afterwards also needs that the highest entry of a file, which `cpmNamei` takes the size
from, exists (`HighestIsEntry`) and stays.

The last three theorems of the module, `WrittenFilesReadBack`, `NothingNewToRepair` and
`ImagesStayMountable`, are about every pass of `cpmWrite` through blocks, extents and
entries, and have two hypotheses besides the assumptions. `WholeExtents` says that the
pointers of an entry map a whole number of logical extents, each of whole blocks; of the
99 shipped definitions all but `td143ssdd8` do. `SmallCalls` says that a call of
`cpmWrite` that ends inside an entry ends inside a logical extent, or that an entry has
only one: true of cpmcp, which writes 4096 bytes at a time, on each of these disks, and
of PackFiles, which hands over the whole file, on the 38 that have one logical extent
per entry. Neither can be dropped: finding 1 is a disk without the second, `td143ssdd8` one without
the first, and TLC finds all three properties violated on small disks of both kinds. The
disk of `FsOperations` meets them. The inductive invariant says of the open
file at every pass that its entries are exactly those its first `pos` records need, that
each has the record count and the extent number of the last record in it and a pointer
for every block that has one, and that the current entry is the one of the next record
(`WrittenInv`); that, unless the device lost a block, the blocks behind these pointers
hold the records `0 .. pos - 1` (`DataInv`); and that nobody else names them
(`PrivateInv`). `PassEntries` and `PassData` are one pass seen from the directory and
from the blocks. With `Content` defined by file position, `DataInv` at the end is
`WrittenReadsBack`. For `NothingToRepair` it is enough that the entries that changed are
the open file's, whose counts are right and extents different by `WrittenInv`;
`StaysMountable` needs that the directory of a mounted image is always valid
(`ValidInv`) and that validity is a statement about each entry alone, so that a mixture
of two valid directories is valid.

*PackTransactionProofs.* The invariant says for each stage what the call knows: that its
transaction image exists and is its own, distinct from those left behind (`CallInv`,
`TempInv`), that only the files being packed can be damaged and none after verification
(`DamageInv`), that what is preserved was verified (`PreservedInv`), that no format is
cached for any transaction image but the running call's (`CacheInv`). `RInv` adds that
the copy agrees with the old image on every file that is not packed and has its format,
as long as no other program changed it in this call, which together with verification
makes `Commit` the update of `AtomicPack` (`CommitsAResult`), a failing commit a new
image kept aside, with the old one in place or gone (`RescuedKept`), and every other step
an outside change or a stutter. `ForeignImageKept` is the branch of `Commit` for a new image, which moves and
does not replace.

*FormatSessionProofs.* A remembered format is one the image mounts with (`CacheInv`) and
is the format of the first mount (`FirstInv`), so a call for an image with a remembered
format never gets past it; no call runs while the plugin is not loaded (`LoadedInv`).
`TypeOK` needs that any file, with any edit, read through the map left by any earlier
read, gives typed options (`FileTyped`, `MapTyped`). From these: `FoundOnce`,
`CancelLeavesNoTrace`, `SelectionIsLocal`, `TypeCorrect`. `SavedSettingsComeBack` is
`WrittenIsCollected` at every state: the lines `write_conf` writes are three, so the fold
over them can be unrolled.

*SectorIOProofs.* `PlacesApart` is arithmetic: for each kind of sides, different logical
sectors are different places. The invariant (`IInv`) says that the table made so far has
no sector twice and the length its phase allows, and that a running call's `sect` and
`track` are those of its position in its block. `SkewPermutes` then follows from
counting: an injective table as long as the track names every sector (there is no
induction over data in it). `SectorsAreBlocks` is the refinement: each iteration is the
step of `BlockArray` at the same position, because no other sector of any block and no
boot sector has the place that is written. `FittingBlocksWork` adds that the geometry
has the definition's sectors per track (`GeomOK`); then the last sector of the last
block is still inside it (`TargetFits`).

*ImdImageProofs.* `LeastExists` gives the least member of a set of numbers from
well-foundedness, which replaces an induction, and with it the first free block of a
length is well defined. `PutReplaces` says what `ldbs_putblock` does to everybody else:
the old block is gone, the new one is nobody's, all others are unchanged. The invariant
adds to `TypeOK` that every header and every sector that is not blank has a block of its
own and no block in use is without one (`OwnInv`, over the headers as the next access
sees them, the one in memory instead of its stored copy), and what each phase of a
session knows (`LoadingInv`, `OpenInv`, `SavingInv`, `FileInv`). Without `FileInv` (no
track twice in a file, also while it is written) loading could overwrite a track's
header and lose the blocks of its sectors. From it: `TypesCorrect`, `BlocksAreHeldOnce`,
`FileStaysProper`.

*SavedDiskProofs.* `ImageIsSavedDisk` is the refinement of `SavedDisk`. Its invariant
`DiskInv` says of every phase where the disk is. While the file is loaded, the headers
show, sector by sector, what the tracks read so far show (`LoadedInv`); while nothing
was written the file holds the disk (`CleanInv`); while it is saved and no write has
failed, the file has exactly the tracks before `pos`, each as `imd_save_track` writes it
(`SavedInv`). Two facts stand behind the last one: the loops over cylinders and heads
reach every track the directory has (`HeldIsReached`), and a sector keeps its length on
the way only if the block it has is as long as the sector says (`SizesInv`), which
`ldbsdisk_xwrite` does not check for a sector of another length. `HeadsStay` and
`HeadChanges` reduce a step to which headers and blocks it keeps; with them loading,
reading and storing a track are stutters (`LoadingIsUnseen`, `ReadIsUnseen`), `Attach`
opens or fails to, a write changes at most the one sector (`WriteShows`), and the end of
a save without a failure leaves all of the disk in the file (`SavedIsKept`).

*FormatProbeProofs.* `ranked` orders the definitions strictly: a rank is the number of
definitions before one, and different ones have different ranks, which is proved by
counting. The invariant relates the helpers to the batch: exactly the definitions from
`attempted` to `launched` that are not collected have an output file, no two the same,
and an output file holds nothing or a true answer of its owner (`HelperInv`); a result
is known exactly for those collected (`ResultInv`); no better tier than that of the next
definition has mounted (`TierInv`). `HelperInv` carries `ReportIsTruthful` although
names are reused, and `NothingIsLeft`; `TierInv` carries `BetterTiersFirst`; what the
end of a call selects (`DoneInv`) carries `SelectionNeedsEvidence` and
`SelectionIsExpected`.

*ArchiveViewProofs.* The list of an open archive is the one of its image, and the report
was announced last exactly if the counter is behind the list (`ArchInv`); the headers of
the current pass are the turns 1 to `counter`, or all of them once it has ended
(`ToldInv`). `EveryFileOnce` then needs only that the list has every first entry once,
in ascending order, and that names made of user areas differ; `ExtractedIsAnnounced`
that the entry at `counter` is the one announced last. The other three are about single
steps, with the type of what is in the file system.

Type correctness of these seven components is proved; the runs check it for `FormatProbe`
and `ArchiveView` as well.

*Only model-checked.* `WriteReturns`, `ProbingEnds` and `LoopsEnd`: liveness under
fairness, which is out of the prover's reach. So are induction over data (what a fold
over a sequence of any length computes) and `ENABLED`. Every safety property of a
passing run is proved.

## 5. Findings

1. *A write over several logical extents of one entry* (`FsWholeWrite`, `cpmfs.c:2143`).
   `cpmWrite` computes the extent number only when it looks for an entry. PackFiles
   hands a whole file to one call; in an entry of several logical extents the number
   stays behind while the record count wraps. The file has the wrong size and the
   verification refuses the image, so such a file cannot be packed.
2. *The selected format does not reach the verification* (`PackSelectedFormat`,
   `cpmimg_wcx.cpp:2349`).
3. *One failed reading of the settings fails all later ones* (`SessionReread`,
   `plugin_config.cpp:74`).
4. *Settings without `image_format`* (`SessionNoFormat`, `plugin_config.cpp:168`) leave
   no format in memory and the next mount compares with a null pointer.
5. *The end of some disks is out of reach* (`SectorTail`, `device_libdsk.c:112`). Above
   43 tracks the geometry has half of them on each of two sides; an odd number loses the
   last track (`lobo2`, `lobo3`, `zen9`, `zena`, `heassdd8`, `z80pack-hd` and others),
   and an offset the sectors behind it (`osb7`, `trsf`). Blocks there pass the check of
   `readBlock` and fail in LibDsk. On a definition the geometry fits, no block fails
   (`FittingNeverFails`).

Observed while modelling, without a run of their own: entries that map less than an
extent (`cpmfs.c:2042`, with 16-bit pointers to blocks of 1024 bytes, 8192 bytes), while
extents are numbered by 16384 and `extents` is at least 1, so that the second entry of a
file is taken for its first and the file written over its own beginning, on
`td143ssdd8`, of which `diskdefs:500` says `Test OK` (`FsWholeWrite.cfg` with `Ptrs = 2`,
`RecsPerExtent = 4`, `Chunk = 4` shows it; the verification of PackFiles refuses the
image); the loop of `ldbs_all_tracks`
(`ldbs.c:2525`) leaves only its inner loop when a track cannot be written, and the next
cylinder overwrites the error, although `ldbs.h:914` says that any other value than
`DSK_ERR_OK` stops iterating: `imd_close` can report success with tracks missing, which
is why `SavedDisk` promises nothing after a failed write; a sector with a recorded error
or another length accepts what is written to it (`drvldbs.c:873` leaves the status) and
reads as an error again, and what is written to a sector without data is lost at the
close; an IMD file cut between two tracks opens as a smaller disk; the second walk of
`ldbs_addblock` for a longer free block (`ldbs.c:1111`) has no effect; an explicit
`skewtab` is not checked (`cpmfs.c:781`); an equally good candidate whose helper timed
out does not prevent an automatic selection (`cpmimg_probe_client.cpp:1293`);
`write_conf` writes a `debug_level` back that `read_conf` refuses; an image that mounted
with the default format is not remembered, so a session default chosen later for another
image applies to it the next time it is opened (`cpmimg_wcx.cpp:485`); a format chosen
in the options dialog has no effect behind a session default (`cpmimg_wcx.cpp:108`); the
label of a CP/M 3 disk is listed as `[l\abel]`, since `users_counter` counts it and the
first two characters become a directory; testing a read-only file leaves its temporary
file; two entries of a file with the same extent number pass the validation and are
listed twice. `fsck.cpm` (not built here) changes the in-core directory without setting
`dirtyDirectory`, so that `cpmSync` writes none of its repairs although it reports `FILE
SYSTEM ON ... MODIFIED` (`fsck.cpm.c:617`, `cpmfs.c:1454`), and it refuses to mount what
its first phase would repair.

## 6. Not modelled, and limits

* Rename, `cpmUtime` and `cpmChmod`: the plugin does not call them. Time stamps,
  DateStamper, the Amstrad boot record: data that decides about nothing modelled here.
* LibDsk: of its drivers only IMD in memory and the raw one are modelled. The others
  (its library alone has about 38,000 lines) are vendored and reached only through
  `dsk_open`; modelling each container would say little about the plugin. This is why
  the map covers a small share of the repository's lines. Of IMD: the comment, recording
  modes, maps of cylinder and head numbers, deleted data, formatting, running out of
  memory.
* In `CpmFs` the read errors of a device are failures of the whole step: the branch of
  `cpmWrite` in which `readBlock` fails after a block was allocated (`cpmfs.c:2091`)
  multiplies the states beyond what can be checked. Behind the end of a file a block
  that is written in part keeps what it held; the code writes what its buffer holds. No
  property reads there.
* `Checked` is what `fsck.cpm` takes for files: user areas 0 to 15, or to 31 on a P2DOS
  disk (where `Passwords` is empty). What it asks of labels, time stamps and password
  entries (`fsck.cpm.c:304`-`468`) is left out.
* `SectorIO` writes a sector as a whole or not at all, while a full disk may cut one at
  any byte, and leaves out the flag for complemented data.
* `ImdImage` takes a sector's length as it is; for tracks with a map of lengths the code
  works it out of the size code (`drvimd.c:238`, `ldbs.c:2030`), which differs for
  lengths other than 128 times a power of two, which IMD does not have. A file whose
  writing fails is torn from there on; the code may append later tracks. `SavedDisk`
  promises nothing of such a file.
* `ArchiveView`: deleting the temporary file of a test fails only for a read-only file.
* In `PackTransaction` an image mounts with exactly one format; `FormatSession` has the
  ambiguous ones.
* A change another program makes to an image between copying and replacing is lost. The
  code does not exclude it; no property speaks of it.
* `get_temp_filename` and `GetTempFileName` return names that do not exist, and the
  latter none it has given to a helper that still runs: `make_temp_output_path` deletes
  the file at once (`cpmimg_probe_client.cpp:778`), and that the name is not given again
  within a batch rests on Windows counting its names up. A helper that could be given a
  name of another's would break `ReportTruthful`. A helper that is terminated is gone
  within the time the client waits for it.
* Names: a file name of a CP/M disk may contain a backslash, which `DeleteFiles` would
  take for the separator; the models have none. `splitFilename` cuts long names off
  silently, and two names to pack may then be the same; the verification catches it.
* Parsing of diskdefs and of the settings beyond line structure, logging, the path
  options, the windows, the text of the disk information, the order of candidates in the
  dialog; the command line tools.

## 7. Plan

Done: the file system, sectors and IMD images below it, the transaction, sessions and
settings, probing, listing and deletion; proofs of all safety properties the passing
runs check. To come, in this order:

1. An abstract directory (a map from names to contents) that `CpmFs`, under the
   hypotheses `WholeExtents` and `SmallCalls`, implements.
2. A second container in which sectors move when they are written (`drvcpcem.c`), as
   another implementation of `SavedDisk`.
