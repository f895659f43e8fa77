---------------------------- MODULE Descriptors ----------------------------
(***************************************************************************)
(* The POSIX input/output layer: the table of file descriptors             *)
(* (file-descriptors-manager.cpp), devices that are opened many times and  *)
(* partitions that open the device below them (device.cpp, io.cpp,         *)
(* block-device-partition.cpp), mounted file systems and their files and   *)
(* directories, whose objects are kept in a list after close() and used    *)
(* again by the next open() (file-system.cpp, file-system.h, file.cpp,     *)
(* directory.cpp).                                                         *)
(*                                                                         *)
(* None of this takes a lock of its own, and the templates that do take    *)
(* the user's leave out device::vopen: the calls are made one at a time.   *)
(***************************************************************************)
EXTENDS KernelLists, FiniteSets, FiniteSetsExt

CONSTANTS Devices,
          Parent,       \* of a partition; NoDevice for a device of its own
          FileSystems,
          BlockDevice,  \* the device a file system is on
          Files,        \* the file objects there is memory for,
          Directories,  \* and the directory objects
          MountPoints,  \* paths to mount on
          MountsOn,     \* the mount points the application uses for each
          Slots,        \* descriptors after the reserved ones
          MaxOpens,     \* bound: opens of one device by the application
          RootLast,     \* the application unmounts the root last
          NoDevice, NoSystem, NoPath, NoIo

ASSUME DeviceAssumption ==
  /\ IsFiniteSet(Devices) /\ NoDevice \notin Devices
  /\ Parent \in [Devices -> Devices \union {NoDevice}]
  /\ \A d \in Devices : Parent[d] # NoDevice => Parent[Parent[d]] = NoDevice
  /\ BlockDevice \in [FileSystems -> Devices]
ASSUME SystemAssumption ==
  /\ NoSystem \notin FileSystems /\ NoPath \notin MountPoints
  /\ MountsOn \in [FileSystems -> SUBSET MountPoints]
  /\ IsFiniteSet(FileSystems) /\ IsFiniteSet(Files \union Directories)
  /\ NoIo \notin Devices \union Files /\ Devices \intersect Files = {}
  /\ Directories \intersect (Devices \union Files) = {}
  /\ Slots \in Nat /\ MaxOpens \in Nat /\ RootLast \in BOOLEAN

VARIABLES io,        \* descriptors, counts and drivers, see IoType
          opened,    \* how often the application has each device open
          mountedPath,  \* mounted_path_ of each file system
          mountedRoot,  \* mounted_root__
          mountedList,  \* mounted_list__
          fileSystem,   \* the file system of each object, once made
          deferred,     \* deferred_files_list_, deferred_directories_list_
          handed        \* objects given to a caller without a descriptor

mounts == <<mountedPath, mountedRoot, mountedList>>
files == <<fileSystem, deferred, handed>>
vars == <<io, opened, mounts, files>>

Reserved == 3
Fds == Reserved..(Reserved + Slots - 1)
NoFd == -1
Ios == Devices \union Files
Objects == Files \union Directories
DeferredLists == FileSystems \X {"files", "directories"}
RootPath == "/"

IoType ==
  [table : [Fds -> Ios \union {NoIo}],   \* descriptors_array__
   fd : [Ios -> Fds \union {NoFd}],      \* file_descriptor_
   count : [Devices -> Nat],             \* open_count_
   driver : SUBSET Ios]                  \* what the drivers have open

Init ==
  /\ io = [table |-> [n \in Fds |-> NoIo], fd |-> [x \in Ios |-> NoFd],
           count |-> [d \in Devices |-> 0], driver |-> {}]
  /\ opened = [d \in Devices |-> 0]
  /\ mountedPath = [s \in FileSystems |-> NoPath]
  /\ mountedRoot = NoSystem
  /\ mountedList = <<>>
  /\ fileSystem = [f \in Objects |-> NoSystem]
  /\ deferred = [l \in DeferredLists |-> <<>>]
  /\ handed = {}
-----------------------------------------------------------------------------
(* The calls on `io', as functions of its value: a partition makes them on *)
(* the device below it in the middle of its own.                           *)

FreeFds(s) == {n \in Fds : s.table[n] = NoIo}

\* file_descriptors_manager::allocate.
CanAllocate(s, x) == s.fd[x] = NoFd /\ FreeFds(s) # {}

Allocate(s, x) ==
  LET n == Min(FreeFds(s))
  IN  [s EXCEPT !.table[n] = x, !.fd[x] = n]

\* Mutant of Deallocate: the table keeps its entry.
DeallocateKeepsEntry(s, x) == [s EXCEPT !.fd[x] = NoFd]

\* file_descriptors_manager::deallocate, clear_file_descriptor.
Deallocate(s, x) ==
  [s EXCEPT !.table = [n \in Fds |-> IF n = s.fd[x] THEN NoIo ELSE @[n]],
            !.fd[x] = NoFd]

\* device::close of a device that is not a partition: the last one calls
\* do_close and gives the descriptor back.
CloseWhole(s, d) ==
  LET last == [Deallocate(s, d) EXCEPT !.driver = @ \ {d}]
  IN  IF s.count[d] = 0 THEN s
      ELSE [(IF s.count[d] = 1 THEN last ELSE s) EXCEPT !.count[d] = @ - 1]

\* do_close: of the driver, or close() of the device below.
DoClose(s, d) ==
  IF Parent[d] = NoDevice THEN [s EXCEPT !.driver = @ \ {d}]
                          ELSE CloseWhole(s, Parent[d])

Close(s, d) ==
  IF s.count[d] = 0 THEN s
  ELSE [(IF s.count[d] = 1 THEN Deallocate(DoClose(s, d), d) ELSE s)
          EXCEPT !.count[d] = @ - 1]

\* Mutant of AllocOrClose: do_close is forgotten when the table is full.
AllocOrLeave(s, d) ==
  IF CanAllocate(s, d)
  THEN [ok |-> TRUE, io |-> [Allocate(s, d) EXCEPT !.count[d] = @ + 1]]
  ELSE [ok |-> FALSE, io |-> [s EXCEPT !.fd[d] = NoFd]]

\* The rest of device::vopen after do_vopen: io::alloc_file_descriptor, that
\* calls do_close when there is none, and the count.
AllocOrClose(s, d) ==
  IF CanAllocate(s, d)
  THEN [ok |-> TRUE, io |-> [Allocate(s, d) EXCEPT !.count[d] = @ + 1]]
  ELSE [ok |-> FALSE, io |-> [DoClose(s, d) EXCEPT !.fd[d] = NoFd]]

\* device::vopen of a device that is not a partition; its driver works, or
\* do_vopen returns an error.
OpenWhole(s, d, works) ==
  IF s.count[d] > 0 THEN [ok |-> TRUE, io |-> [s EXCEPT !.count[d] = @ + 1]]
  ELSE IF works THEN AllocOrClose([s EXCEPT !.driver = @ \union {d}], d)
  ELSE [ok |-> FALSE, io |-> s]

\* device::vopen of any device; a partition's do_vopen opens the one below.
Open(s, d, works) ==
  LET below == OpenWhole(s, Parent[d], works)
  IN  IF Parent[d] = NoDevice THEN OpenWhole(s, d, works)
      ELSE IF s.count[d] > 0
           THEN [ok |-> TRUE, io |-> [s EXCEPT !.count[d] = @ + 1]]
      ELSE IF below.ok THEN AllocOrClose(below.io, d)
      ELSE below
-----------------------------------------------------------------------------
\* open() and close() of a device by the application.
OpenDevice(d, works) ==
  LET result == Open(io, d, works)
  IN  /\ opened[d] < MaxOpens
      /\ io' = result.io
      /\ opened' = [opened EXCEPT ![d] = IF result.ok THEN @ + 1 ELSE @]
      /\ UNCHANGED <<mounts, files>>

CloseDevice(d) ==
  /\ opened[d] > 0
  /\ io' = Close(io, d)
  /\ opened' = [opened EXCEPT ![d] = @ - 1]
  /\ UNCHANGED <<mounts, files>>
-----------------------------------------------------------------------------
\* file_system::vmount; do_vmount of the file system opens the device.
Mount(s, path, works) ==
  LET device == Open(io, BlockDevice[s], works)
  IN  /\ path \in MountsOn[s]
      /\ mountedPath[s] = NoPath
      /\ \A i \in DOMAIN mountedList : mountedPath[mountedList[i]] # path
      /\ io' = device.io
      /\ IF ~ device.ok THEN UNCHANGED mounts
         ELSE /\ mountedPath' = [mountedPath EXCEPT ![s] = path]
              /\ IF path = RootPath
                 THEN mountedRoot' = s /\ UNCHANGED mountedList
                 ELSE /\ mountedList' = Append(mountedList, s)
                      /\ UNCHANGED mountedRoot
      /\ UNCHANGED <<opened, files>>

\* file_system::umount; do_umount of the file system closes the device.
Umount(s) ==
  LET busy == s = mountedRoot /\ Unlink(mountedList, s) # <<>>
  IN  /\ mountedPath[s] # NoPath
      /\ RootLast => ~ busy
      /\ mountedList' = Unlink(mountedList, s)
      /\ mountedPath' = [mountedPath EXCEPT ![s] = NoPath]
      /\ mountedRoot' =
           IF s = mountedRoot /\ ~ busy THEN NoSystem ELSE mountedRoot
      /\ io' = IF busy \/ io.count[BlockDevice[s]] = 0 THEN io
               ELSE Close(io, BlockDevice[s])
      /\ UNCHANGED <<opened, files>>

\* file_system::identify_mounted, of a path that starts with `point'.
Identify(point) ==
  LET here == {i \in DOMAIN mountedList : mountedPath[mountedList[i]] = point}
  IN  IF here # {} THEN mountedList[Min(here)] ELSE mountedRoot
-----------------------------------------------------------------------------
\* Mutant of AllocateObject: the list keeps the object that is used again.
AllocateObjectKeeps(l, f) ==
  IF deferred[l] = <<>>
  THEN /\ fileSystem[f] = NoSystem
       /\ fileSystem' = [fileSystem EXCEPT ![f] = l[1]]
       /\ UNCHANGED deferred
  ELSE /\ f = Head(deferred[l])
       /\ fileSystem' = [g \in Objects |->
                           IF g \in ToSet(Tail(deferred[l])) THEN NoSystem
                           ELSE fileSystem[g]]
       /\ deferred' = [deferred EXCEPT ![l] = <<f>>]

\* file_system::allocate_file, allocate_directory: a new object, or the first
\* one of the list, and the others of the list are deleted.
AllocateObject(l, f) ==
  IF deferred[l] = <<>>
  THEN /\ fileSystem[f] = NoSystem
       /\ fileSystem' = [fileSystem EXCEPT ![f] = l[1]]
       /\ UNCHANGED deferred
  ELSE /\ f = Head(deferred[l])
       /\ fileSystem' = [g \in Objects |->
                           IF g \in ToSet(Tail(deferred[l])) THEN NoSystem
                           ELSE fileSystem[g]]
       /\ deferred' = [deferred EXCEPT ![l] = <<>>]

\* A path below `point' leads to file system s, whose device is open.
Reaches(point, s) ==
  /\ s = Identify(point)
  /\ s # NoSystem
  /\ io.count[BlockDevice[s]] > 0

\* file_system::vopen of a file, do_vopen of the file system included.  The
\* result of alloc_file_descriptor is not looked at: without a descriptor
\* the file is closed, and returned all the same.
OpenFile(point, f) ==
  LET full == ~ CanAllocate(io, f)
      open == [io EXCEPT !.driver = @ \union {f}]
  IN  /\ \E s \in FileSystems :
           Reaches(point, s) /\ AllocateObject(<<s, "files">>, f)
      /\ io' = IF full THEN io ELSE Allocate(open, f)
      /\ handed' = IF full THEN handed \union {f} ELSE handed
      /\ UNCHANGED <<opened, mounts>>

\* file::close: io::close, which refuses a file that is not open, and in any
\* case the list of the file system.
CloseFile(f) ==
  /\ io.fd[f] # NoFd \/ f \in handed
  /\ io' = IF f \in io.driver
           THEN [Deallocate(io, f) EXCEPT !.driver = @ \ {f}] ELSE io
  /\ deferred' =
       [deferred EXCEPT ![<<fileSystem[f], "files">>] = Append(@, f)]
  /\ handed' = handed \ {f}
  /\ UNCHANGED <<opened, mounts, fileSystem>>

\* file_system::opendir, do_opendir of the file system included: a directory
\* has no descriptor.
OpenDirectory(point, d) ==
  /\ \E s \in FileSystems :
       Reaches(point, s) /\ AllocateObject(<<s, "directories">>, d)
  /\ handed' = handed \union {d}
  /\ UNCHANGED <<io, opened, mounts>>

\* directory::close.
CloseDirectory(d) ==
  /\ d \in handed
  /\ deferred' =
       [deferred EXCEPT ![<<fileSystem[d], "directories">>] = Append(@, d)]
  /\ handed' = handed \ {d}
  /\ UNCHANGED <<io, opened, mounts, fileSystem>>
-----------------------------------------------------------------------------
Next ==
  \/ \E d \in Devices, works \in BOOLEAN : OpenDevice(d, works)
  \/ \E d \in Devices : CloseDevice(d)
  \/ \E s \in FileSystems, path \in MountPoints, works \in BOOLEAN :
       Mount(s, path, works)
  \/ \E s \in FileSystems : Umount(s)
  \/ \E point \in MountPoints, f \in Files : OpenFile(point, f)
  \/ \E f \in Files : CloseFile(f)
  \/ \E point \in MountPoints, d \in Directories : OpenDirectory(point, d)
  \/ \E d \in Directories : CloseDirectory(d)

Spec == Init /\ [][Next]_vars
-----------------------------------------------------------------------------
Mounted == {s \in FileSystems : mountedPath[s] # NoPath}

\* Type invariant.
TypeOK ==
  /\ io \in IoType
  /\ opened \in [Devices -> 0..MaxOpens]
  /\ mountedPath \in [FileSystems -> MountPoints \union {NoPath}]
  /\ mountedRoot \in FileSystems \union {NoSystem}
  /\ mountedList \in Seq(FileSystems) /\ NoDuplicates(mountedList)
  /\ fileSystem \in [Objects -> FileSystems \union {NoSystem}]
  /\ deferred \in [DeferredLists -> Seq(Objects)]
  /\ handed \subseteq Objects

\* The table and the objects agree on who has which descriptor, an open
\* device or file has one, and nothing that is closed keeps one: also after
\* an open that failed half way, and with the table full.
DescriptorsAgree ==
  /\ \A n \in Fds, x \in Ios : io.table[n] = x <=> io.fd[x] = n
  /\ \A d \in Devices : io.count[d] > 0 <=> io.fd[d] # NoFd
  /\ \A f \in Files : f \in io.driver <=> io.fd[f] # NoFd

\* The count of a device is the number of its users: the application, the
\* partitions that are open on it, the file systems mounted on it.  Its
\* driver is open as long as there is one, and no longer.
UsersCounted ==
  \A d \in Devices :
    /\ io.count[d] =
         opened[d]
         + Cardinality({p \in Devices : Parent[p] = d /\ io.count[p] > 0})
         + Cardinality({s \in Mounted : BlockDevice[s] = d})
    /\ Parent[d] = NoDevice => (d \in io.driver <=> io.count[d] > 0)

\* After any sequence of calls, failed ones included, the descriptors agree
\* with the objects and the counts with the users (device::vopen and close,
\* io::alloc_file_descriptor, the partitions, vmount and umount).
OpensAgree == TypeOK /\ DescriptorsAgree /\ UsersCounted

\* A file or directory object is open, or waits in the list of its own file
\* system to be used again, once, or is in the hands of a caller without a
\* descriptor: no open file or directory is constructed again or deleted by
\* another open (allocate_file, allocate_directory), and none is lost.
FilesAccounted ==
  \A f \in Objects :
    LET kind == IF f \in Files THEN "files" ELSE "directories"
        waits == {w \in DeferredLists \X (1..Cardinality(Objects)) :
                    /\ w[2] \in DOMAIN deferred[w[1]]
                    /\ deferred[w[1]][w[2]] = f}
    IN  IF fileSystem[f] = NoSystem
        THEN waits = {} /\ f \notin io.driver \union handed
        ELSE /\ \A w \in waits : w[1] = <<fileSystem[f], kind>>
             /\ Cardinality(waits)
                  + Cardinality({x \in {"open"} : f \in io.driver})
                  + Cardinality({x \in {"handed"} : f \in handed}) = 1

\* "The root file system must be unmounted last, it cannot be unmounted if
\* other mount points exists" (file-system.cpp:585): as long as others are
\* mounted the root is, too.
RootUnmountedLast ==
  [][\A s \in FileSystems :
       (mountedRoot = s /\ mountedList # <<>> /\ mountedPath[s] # NoPath)
         => mountedPath'[s] # NoPath]_vars
=============================================================================
