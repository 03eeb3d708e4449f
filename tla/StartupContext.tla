--------------------------- MODULE StartupContext ---------------------------
(***************************************************************************)
(* The read of the startup files (startup.py), by the startup_context tool *)
(* or a readiness check, against an agent that edits them meanwhile.       *)
(*                                                                         *)
(* The content of a file is a version: every write gives the inode a new   *)
(* one, which is also its modification time (the clock of the file system  *)
(* is taken to tell two writes apart).  A file may be written in place or  *)
(* replaced by another inode; a path may be a link or gone.  An action of  *)
(* the reader is one system call.                                          *)
(***************************************************************************)
EXTENDS Naturals

CONSTANTS
    Files,          \* how many startup files there are
    Inode,          \* the inodes of the files and of their replacements
    FileSizes,      \* in bytes
    MaxBytes,       \* max_total_bytes
    MaxWrites       \* bound: edits of a behaviour

StartupAssumption ==
    /\ Files \in Nat \ {0} /\ MaxBytes \in Nat /\ MaxWrites \in Nat
    /\ FileSizes \subseteq Nat

ASSUME StartupAssumption

VARIABLES
    inode,      \* size and version of an inode
    names,      \* what a path is: an inode, a link, or gone
    writes,     \* the edits so far
    stats,      \* what the reader's stat calls returned
    total,      \* the sum of their sizes
    at,         \* the file the reader is at
    fd,         \* the inode it has open
    raw,        \* the versions of the two halves of what it read of each file
    length,     \* how much it read of the file it is at
    reader      \* idle, stat, open, before, first, second, after, done or failed

diskVars    == <<inode, names, writes>>
startupVars == <<inode, names, writes, stats, total, at, fd, raw, length, reader>>

Paths  == 1..Files
NotAFile == {"link", "gone"}
Stat(i) == [ino |-> names[i], size |-> inode[names[i]].size, version |-> inode[names[i]].version]
NoStat == [ino |-> "none", size |-> 0, version |-> 0]

StartupInit ==
    /\ inode = [n \in Inode |-> [size |-> 0, version |-> 0]]
    /\ names = [i \in Paths |-> "gone"]
    /\ writes = 0
    /\ stats = [i \in Paths |-> NoStat]
    /\ total = 0 /\ at = 1 /\ length = 0
    /\ fd = "none"
    /\ raw = [i \in Paths |-> [first |-> 0, second |-> 0]]
    /\ reader = "idle"

-----------------------------------------------------------------------------
(* The reader. *)

\* The files are there, of any size, and somebody asks for them.
StartupBegins ==
    /\ reader = "idle"
    /\ names' \in {f \in [Paths -> Inode] : \A i, j \in Paths : f[i] = f[j] => i = j}
    /\ inode' \in [Inode -> {[size |-> z, version |-> 0] : z \in FileSizes}]
    /\ reader' = "stat"
    /\ UNCHANGED <<writes, stats, total, at, fd, raw, length>>

\* The budget is reserved for all files before one of them is read.
StatFile ==
    /\ reader = "stat" /\ names[at] \notin NotAFile
    /\ total + Stat(at).size <= MaxBytes
    /\ stats' = [stats EXCEPT ![at] = Stat(at)]
    /\ total' = total + Stat(at).size
    /\ IF at = Files THEN at' = 1 /\ reader' = "open" ELSE at' = at + 1 /\ reader' = "stat"
    /\ UNCHANGED <<diskVars, fd, raw, length>>

\* The path is followed again, but never through a link.
OpenFile ==
    /\ reader = "open" /\ names[at] \notin NotAFile
    /\ fd' = names[at]
    /\ reader' = "before"
    /\ UNCHANGED <<diskVars, stats, total, at, raw, length>>

SameAsStat ==
    /\ fd = stats[at].ino
    /\ inode[fd].size = stats[at].size
    /\ inode[fd].version = stats[at].version

FstatBefore ==
    /\ reader = "before" /\ SameAsStat
    /\ reader' = "first"
    /\ UNCHANGED <<diskVars, stats, total, at, fd, raw, length>>

\* A read takes several system calls, and writes may come between them; what it
\* has at the end is as long as the file then was.
ReadFirst ==
    /\ reader = "first"
    /\ raw' = [raw EXCEPT ![at].first = inode[fd].version]
    /\ reader' = "second"
    /\ UNCHANGED <<diskVars, stats, total, at, fd, length>>

ReadSecond ==
    /\ reader = "second"
    /\ raw' = [raw EXCEPT ![at].second = inode[fd].version]
    /\ length' = inode[fd].size
    /\ reader' = "after"
    /\ UNCHANGED <<diskVars, stats, total, at, fd>>

\* Mutant: only the length is compared after the read.
MutUnchangedSince == length = stats[at].size

\* The version before the read was the one of the stat (SameAsStat).
UnchangedSince == length = stats[at].size /\ inode[fd].version = stats[at].version

FstatAfter ==
    /\ reader = "after" /\ UnchangedSince
    /\ fd' = "none"
    /\ IF at = Files THEN reader' = "done" /\ UNCHANGED at ELSE at' = at + 1 /\ reader' = "open"
    /\ UNCHANGED <<diskVars, stats, total, raw, length>>

\* A call fails or a check does not hold, or at the end the text is not UTF-8 or
\* too long for its envelope.
StartupFails ==
    /\ \/ reader \in {"stat", "open"} /\ names[at] \in NotAFile
       \/ reader = "stat" /\ names[at] \in Inode /\ total + Stat(at).size > MaxBytes
       \/ reader = "before" /\ ~SameAsStat
       \/ reader = "after"
    /\ reader' = "failed"
    /\ fd' = "none"
    /\ UNCHANGED <<diskVars, stats, total, at, raw, length>>

-----------------------------------------------------------------------------
(* The agent, which owns the files. *)

Editing == reader \notin {"idle", "done", "failed"} /\ writes < MaxWrites

Rewrite(n) ==
    /\ Editing
    /\ \E z \in FileSizes : inode' = [inode EXCEPT ![n] = [size |-> z, version |-> writes + 1]]
    /\ writes' = writes + 1
    /\ UNCHANGED <<names, stats, total, at, fd, raw, length, reader>>

\* A new inode, or one that is free again, takes the place of the old one.
Unused(n) == n # fd /\ \A i \in Paths : names[i] # n

Replace(i, n) ==
    /\ Editing /\ Unused(n)
    /\ \E z \in FileSizes : inode' = [inode EXCEPT ![n] = [size |-> z, version |-> writes + 1]]
    /\ names' = [names EXCEPT ![i] = n]
    /\ writes' = writes + 1
    /\ UNCHANGED <<stats, total, at, fd, raw, length, reader>>

Unlink(i) ==
    /\ Editing
    /\ \E what \in NotAFile : names' = [names EXCEPT ![i] = what]
    /\ writes' = writes + 1
    /\ UNCHANGED <<inode, stats, total, at, fd, raw, length, reader>>

StartupNext ==
    \/ StartupBegins \/ StatFile \/ OpenFile \/ FstatBefore
    \/ ReadFirst \/ ReadSecond \/ FstatAfter \/ StartupFails
    \/ \E n \in Inode : Rewrite(n)
    \/ \E i \in Paths, n \in Inode : Replace(i, n)
    \/ \E i \in Paths : Unlink(i)

StartupSpec == StartupInit /\ [][StartupNext]_startupVars

StartupTypeOK ==
    /\ inode \in [Inode -> [size : Nat, version : 0..MaxWrites]]
    /\ names \in [Paths -> Inode \cup NotAFile]
    /\ writes \in 0..MaxWrites /\ total \in 0..MaxBytes /\ length \in Nat
    /\ at \in Paths /\ fd \in Inode \cup {"none"}
    /\ stats \in [Paths -> [ino : Inode \cup {"none"}, size : Nat, version : 0..MaxWrites]]
    /\ raw \in [Paths -> [first : 0..MaxWrites, second : 0..MaxWrites]]
    /\ reader \in {"idle", "stat", "open", "before", "first", "second", "after", "done", "failed"}

-----------------------------------------------------------------------------
OneVersion(i) == raw[i].first = stats[i].version /\ raw[i].second = stats[i].version

\* What is returned, with its digest and its modification time, is of each file
\* one content it had under that time, never a mixture of two, and together it
\* keeps the byte budget; whatever is edited between the calls of the reader.
StartupFaithful ==
    reader = "done" => /\ \A i \in Paths : OneVersion(i)
                       /\ total <= MaxBytes
=============================================================================
