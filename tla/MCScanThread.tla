---------------------------- MODULE MCScanThread ----------------------------
(***************************************************************************)
(* Values of the constants of ScanThread for TLC.  The library is the      *)
(* directory 1, with a directory 2 in it, a song 3 in directory 2, and a   *)
(* song 4 beside directory 2.                                              *)
(***************************************************************************)
EXTENDS ScanThreadProperties, TLC

Library == 1 .. 4
LibraryUp == (1 :> 0) @@ (2 :> 1) @@ (3 :> 2) @@ (4 :> 1)

Dir == [kind |-> "dir", mtime |-> 1]
File == [kind |-> "file", mtime |-> 1]
None == [kind |-> "none", mtime |-> 1]

FullDisk == (1 :> Dir) @@ (2 :> Dir) @@ (3 :> File) @@ (4 :> File)
OneSong == (1 :> Dir) @@ (2 :> Dir) @@ (3 :> File) @@ (4 :> None)

OnlyRoot == 1 :> TRUE
OnlySub == 2 :> TRUE

Row(parent, time, isDir, path) ==
    [parentID |-> parent, lastWriteTime |-> time, isDir |-> isDir, fileName |-> path]

\* What a complete scan of FullDisk leaves.
Indexed == (1 :> Row(0, 1, TRUE, 1)) @@ (2 :> Row(1, 1, TRUE, 2))
           @@ (3 :> Row(2, 1, FALSE, 3)) @@ (4 :> Row(1, 1, FALSE, 4))

\* What a complete scan of OneSong leaves.
OneSongIndexed == (1 :> Row(0, 1, TRUE, 1)) @@ (2 :> Row(1, 1, TRUE, 2))
                  @@ (3 :> Row(2, 1, FALSE, 3))

EmptyTable == <<>>

\* Two drives, of which the first is not always there, instead of the library.
Drives == 1 .. 2
DrivesUp == (1 :> 0) @@ (2 :> 0)
BothDrives == {(1 :> Dir) @@ (2 :> Dir)}
DriveSettings == {(1 :> TRUE) @@ (2 :> TRUE)}

Root == {OnlyRoot}
RootOrSub == {OnlyRoot, OnlySub}

Full == {FullDisk}
Single == {OneSong}

NothingIndexed == {EmptyTable}
AllIndexed == {Indexed}
SingleIndexed == {OneSongIndexed}
NothingOrAllIndexed == {EmptyTable, Indexed}
============================================================================
